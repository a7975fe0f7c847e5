\* Two requests on one order and a pool of two connections, the worker, restarts.
SPECIFICATION FairSpec
CONSTANTS
    h1 = h1  h2 = h2  o1 = o1
    Requests = {h1, h2}
    Orders = {o1}
    Others = {Main, Worker}
    Main = Main
    Worker = Worker
    Nobody = Nobody
    PoolSize = 2
    Statements = 1
    Writes = 1
INVARIANT TypeOK
PROPERTIES
    CleanExitHasDrained
    ShutdownChargesNoAttempt
    RequestsEnd
    ShutdownEndsUnlessStuck
    DrainEnds
