SPECIFICATION PartsSpec
CONSTANTS
    SampleKinds = {"i2s", "filtered", "mic", "input"}
    RingSize = 3
    FrameCounts = {2}
    MicBlock = 2
    SampleMod = 6
    SameRetry = TRUE
    SpsBufs = {"a", "b"}
    SpsLen = 2
    SpsQueueSize = 2
    SpmTasks = {1, 2}
    SpmDevices = {"d", "e"}
    SpmOps = 2
    IscBufLen = 2
    IscMaxBytes = 3
    IscBytes = {1, 2}
    UrxFifo = 2
    UrxStream = 1
    UrxFrames = 4
    GpioPins = {0, 1, 2}
    GpioChanLen = 2
    QfTasks = {1, 2}
    QfSize = 4
    QfPage = 2
    QfSector = 2
    QfChunk = 3
    QfRanges <- FlashRanges
    QfLockAlways = TRUE
    QfDepth = 2
    QfOps = 2
    TypeSizes = {1, 2}
    BufferLengths = {0, 1, 2}
    MaxParams = 3
    IntSize = 4
    DescSize = 4
    RpcLengths = {0, 1, 2}
    I2sNumIn = 1
    I2sNumOut = 2
    MicCount = 2
    WpThreads = {t1, t2, t3}
    Timeouts = TRUE
    UINT_MOD = 8
    ApBssids = {1, 2, 3, 4}
    ApSaved = {1, 2}
    ApSlots = 3
    ApScanMax = 1
    ApMaxAge = 3
    ApAttempts = 1
    ApStrengths = {1, 2}
    WmTries = 1
    WmAppCalls = 1
    WmFaults = 1
    DhClients = {"m", "n", "o"}
    DhStart = 0
    DhEnd = 3
    DhReserved = {1}
    DhLease = 2
    DhOffer = 1
    DhRetry = 1
    UsbRequests = 5
    UsbInLengths = {1}
    GpStages = 3
    GpBufs = {1, 2, 3, 4}
    GpFrames = 4
    SwmLines = {1, 2}
    SwmCores = {0, 1}
    SwmVersions = 2
INVARIANTS
    
    WakeupPending
    SpiSlaveTruth
    SpiBusSerial
    I2cSlaveOneRequest
    
    GpioNoChangeMissed
    FlashExact
    FlashLockExcludes
    RpcExact
    WritersCounted
    ApCacheOrdered
    
    WifiLossAnnounced
    
    
    PipelineExact
    SwmemExact
PROPERTIES
    PartsProgress
CHECK_DEADLOCK FALSE
