SPECIFICATION Spec
CONSTANTS
    Subjects = {"stream", "thread", "sync", "global", "simd", "socket", "make", "walk"}
    Threads = {a, b}
    Clients = {a, b, c}
    Platforms = {"posix", "win32"}
    EarlyInit = {TRUE, FALSE}
    BlockSize = 2
    MaxSize = 2
    MaxRefs = 3
    MaxTotal = 2
    Owner = a
    MaxThreads = 3
    NoThread = NoThread
    MaxCount = 2
    MaxCalls = 4
    Builds = {{}, {"sse2", "avx2"}, {"neon"}, {"neon64"}}
    Cpus = {{}, {"sse2"}, {"sse2", "xsave"}, {"sse2", "xsave", "avx2", "fma"}}
    Domains = {"ipv4", "ipv6"}
    OptionNames = {"REUSEADDR", "NODELAY", "KEEPALIVE"}
    Ports <- SomePorts
    MaxEnds = 3
    MaxBytes = 2
    MaxMade = 4
    Layouts <- Disks
    Targets <- Made
    MaxNoise = 2
INVARIANTS
    StreamSound
    PrimitivesSound
    GlobalSound
    SystemSound
    DiskSound
CHECK_DEADLOCK FALSE
