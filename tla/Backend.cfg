SPECIFICATION BackendSpec
CONSTANTS
    Request = {r1, r2, r3}
    r1 = r1
    r2 = r2
    r3 = r3
    c1 = c1
    c2 = c2
    c3 = c3
    b1 = b1
    b2 = b2
    i0 = i0
    d1 = d1
    s = s
    m = m
    i = i
    x = x
    y = y
    z = z
    a = a
    ad = ad
    g = g
    None = None
    City = {c1, c2, c3}
    FirstBranch = {b1, b2}
    Old = {i0}
    Day = {d1}
    BatchSize = 2
    Address = {x, y, z, a, ad}
    GoogleId = {g}
    FirstUser = {s, m, i}
    DailyLimit = 3
    Norm <- MCNorm
    FirstEmail <- MCFirstEmail
    FirstRole <- MCFirstRole
    Prefix <- MCPrefix
    FirstCity <- MCFirstCity
    OldPretty <- MCOldPretty
    OldBranch <- MCOldBranch
    OldPeriod <- MCOldPeriod
    OldStatus <- MCOldStatus
    AskedStatuses <- MCAskedStatuses
    PageSizes = {1, 2}
    LatestLimit = 2
    Workloads <- MCWorkloads
    AtDoor <- MCAtDoor
    FirstDays <- MCFirstDays
    Calendar <- MCCalendar
    Timezones <- MCTimezones
    ServerOffsets <- MCTimezones
SYMMETRY Requests
INVARIANTS
    BackendTypeOK
    NumbersDense
    RecordHasFile
    FilesAccounted
    DistributionAddsUp
    CountersAddUp
    PagesMissNothing
    LatestIsAnswered
    TrendCountsOnce
    AcceptedRequestsAreCurrent
    SelfRegisteredFound
CHECK_DEADLOCK FALSE
