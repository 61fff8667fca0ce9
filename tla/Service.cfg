SPECIFICATION FairServiceSpec
CONSTANTS
    c1 = c1
    n1 = n1
    alice = alice
    tok = tok
    staff = staff
    app = app
    logs = logs
    none = none
    cluster = cluster
    Conns = {c1}
    Namespaces = {n1}
    Labels = {"kubernetes_namespace_name", "k8s_namespace_name"}
    Tokens = {tok}
    Users = {alice}
    Groups = {staff}
    Tenants = {app}
    Resources = {logs}
    NoToken = none
    NoResource = none
    DebugToken = none
    ClusterWide = cluster
    MatcherKeys = {"kubernetes_namespace_name"}
    SkipTenants = {}
    AdminGroups = {}
    ViaQToOTELMigration = FALSE
    SSAR = FALSE
    Backend = "memcached"
    TTL = 1
    MaxTime = 0
    MaxSignals = 2
    Inputs <- MCInputs
    Facts <- MCFacts
    Mappings <- MCMappings
    Pieces <- MCPieces
CHECK_DEADLOCK FALSE
INVARIANTS NothingCutOff OnlyEvaluationsHoldUp
PROPERTIES BehavesAsProcess SignalEndsService AdmittedAreAnswered
