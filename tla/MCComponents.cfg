SPECIFICATION MCSpec
CONSTANTS
    Users = {u1, u2}
    Workers = {w1, w2}
    ExtentCount = 2
    RunLengths = {1, 2}
    NoUser = NoUser
    MaxOps = 2
    Processes = {p1, p2}
    Geometries = {"g1", "g2"}
    NoProcess = NoProcess
    TablePages = {a, b}
    MaxFailures = 3
    Callers = {t1, t2}
    HelperUsers = {t1}
    Buffers = {b1, b2}
    GpuBuffers = {b1}
    Streams = {s1}
    Events = {e1}
    NoObject = NoObject
    AllocBytes = {1, 2}
    DeviceBytes = 3
    MaxWork = 1
    Width = 9
    UnitBits = 2
    HeaderBlock = 2
    PlanInputs <- MCPlanInputs
    SizeInputs <- MCSizeInputs
    StoreInputs <- MCStoreInputs
    TraceInputs <- MCTraceInputs
    ProbeInputs <- MCProbeInputs
    OtherBackends <- MCOtherBackends
    BudgetBits = 5
    Precision = 3
    Requests = {1, 9, 23}
    Blocks = {k1, k2}
    HostDevices = {d1, d2}
    NoDevice = NoDevice
INVARIANTS
    ComponentsTypeOK
    ExtentsAccounted
    NoneStranded
    InProgressOwned
    AnsweredIsOver
    FlushCoversWrites
    OpenIsValid
    OneUser
    OpenStaysLinked
    LeftoverNeverBlocks
    BackendOutlivesMemory
    NothingForgotten
    ReleasedWhenSaid
    LedgerExact
    CopiesLand
    BudgetsSound
    ResultsExact
PROPERTIES
    StoreResponds
    TeardownConverges
    CallsReturn
CHECK_DEADLOCK FALSE
