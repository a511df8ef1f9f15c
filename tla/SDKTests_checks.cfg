CONSTANTS
    Setups <- MCSetups
SPECIFICATION Spec
INVARIANTS
    MigrationTestsTellApart
    HookTestsTellApart
    ServerSideEventTestsTellApart
    ClientSideEventTestsTellApart
    PHPEventTestsTellApart
    BigSegmentTestsTellApart
    RetryTestsTellApart
    PersistenceTestsTellApart
