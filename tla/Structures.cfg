SPECIFICATION Spec
INVARIANTS
    SubrangesRoute
    
    
    CacheKeepsHandles
    LockFreeReads
    TableReadsBack
    
