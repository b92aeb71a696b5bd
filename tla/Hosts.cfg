CONSTANTS
    Clients = {"c1", "c2"}
    ApiWorkloads <- MCApiWorkloads
    Millis = {0, 1}
    NoRule = NoRule
    NoPolicy = NoPolicy
    NoMax = NoMax
    FleetNodes <- MCFleetNodes
    StaticUrls = {1, 3}
    FleetProjects = {"p", "q"}
    FleetPolicies <- MCFleetPolicies
    Loads = {0, 1}
    MaxFleetSteps = 3
    Controllers = {"k1", "k2"}
    FlyPolicy <- MCFlyPolicy
    FlySetups <- MCFlySetups
    LeaseTtl = 1
    CooldownMs = 1
    MaxFlyTime = 2
    MaxMachines = 3
    MaxRounds = 2
    Nobody = Nobody
    VolumeDbs = {"d1", "d2"}
    Keyrings <- MCKeyrings
    NoCipher = NoCipher
    MaxOpen = 1
    MaxPending = 2
    KeepLatest = 1
    RetentionMs = 1
    VolumeScripts <- MCVolumeScripts
    AlarmTimes = {1, 2}
    AlarmLimit = 1
    Openers = {"p1", "p2"}
    Openings <- MCOpenings
    CacheWorkloads <- MCCacheWorkloads
    DaemonWorkloads <- MCDaemonWorkloads
    DaemonLimit = 1
    MaxWeight = 4
    Sockets = {"s1", "s2", "s3"}
    ServerPermits = 1
SPECIFICATION HostsSpec
INVARIANTS
    HandlersAreGuarded
    AuditIsComplete
    RegisteredIsStored
    PlacementIsolates
    ScalingIsSerial
    
    AlarmsAreKept
    MigrationsComplete
    CacheIsSound
    DaemonRunsWhatWasChecked
    ServerReclaimsGuests
CHECK_DEADLOCK FALSE
