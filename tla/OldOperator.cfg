SPECIFICATION Spec
CONSTANTS
    p1 = p1
    p2 = p2
    alice = alice
    tok = tok
    staff = staff
    app = app
    logs = logs
    none = none
    cluster = cluster
    down = down
    Procs = {p1, p2}
    Down = down
    Namespaces = {}
    Labels = {"kubernetes_namespace_name", "k8s_namespace_name"}
    Tokens = {tok}
    Users = {alice}
    Groups = {staff}
    Tenants = {app}
    Resources = {logs}
    NoToken = none
    NoResource = none
    DebugToken = none
    ClusterWide = cluster
    MatcherKeys = {}
    SkipTenants = {}
    AdminGroups = {}
    ViaQToOTELMigration = FALSE
    SSAR = FALSE
    Backend = "memcached"
    TTL = 1
    MaxTime = 2
    Facts = {}
    Inputs <- MCInputs
    Mappings <- MCMappings
    Pieces <- MCPieces
    Flags <- MCFlags
INVARIANT OperatorIsCurrent
