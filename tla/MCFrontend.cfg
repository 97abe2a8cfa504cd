CONSTANTS
    Clients = {c1, c2}
    NoClient = NoClient
    Loops = {"tcp", "unix"}
    alice = alice
    root = root
    app = app
    console = console
    Users = {alice, root}
    Dbs = {app, console}
    AdminDb = console
    AdminUsers = {root}
    Configs <- MCConfigs
    Pids = {1, 2}
SPECIFICATION FairSpec
CHECK_DEADLOCK FALSE
INVARIANTS
    DrainedForGood
    CapsExact
    TableExact
    ExitClean
PROPERTIES
    ShutdownReturns
