\* S3Client: two operations per profile, two loops.  QueueTiers: a worker of
\* each type, queues of two.  MetricsStore: four jobs, a table of two, two
\* overlapping imports.  QueueMonitor: a back-off of two ticks.
\* SourceDownload: a window of three files, two mirrors, two slots, two tries.
SPECIFICATION Spec
CONSTANTS
    Downloads = {d1}
    Directories = {t1}
    Heavies = {h1}
    Larges = {g1}
    Retries = 2
    DirFiles = 2
    DownloadSlots = 1
    UploadSlots = 1
    HeavySlots = 1
    LargeSlots = 1
    Loops = 2
    NormalWorkers = {n1}
    LightWorkers = {l1}
    Units = {"goes", "radar", "wrf_light", "wrf_heavy"}
    MaxLength = 2
    Jobs = {1, 2, 3, 4}
    MaxRows = 2
    Importers = {i1, i2}
    MaxId = 6
    Backoff = 2
    MaxDrops = 2
    Parts = 3
    Mirrors = 2
    Tries = 2
    GetSlots = 2
INVARIANT OneClientPerLoop
INVARIANT RequestsOnOwnClient
INVARIANT ResultsAreTrue
INVARIANT LightQueuesAlternate
INVARIANT ImportsAddNoDuplicate
INVARIANT AcceptedIsWhole
PROPERTY PruneKeepsNewest
PROPERTY GivesUpForCause
PROPERTY NeverHammers
PROPERTY HeaviesNeverStarve
PROPERTY DepthsComeBack
CHECK_DEADLOCK FALSE
