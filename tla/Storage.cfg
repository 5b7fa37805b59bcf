CONSTANTS
    t1 = t1
    t2 = t2
    None = None
    NoBlock = NoBlock
    NoBuf = NoBuf
    Junk = Junk
SPECIFICATION Spec
INVARIANTS
    StoCAssertions
    BuffersConserved
    NoLostCall
    AckedRecordsRecoverable
    MigratedWritesKept
    
    BuffersDisjoint
    CompactionOutputs
    CoordinatorRound
PROPERTY
    ImplementsBlockStore
