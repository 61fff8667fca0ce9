SPECIFICATION Spec
CONSTANTS
    c1 = c1
    c2 = c2
    n1 = n1
    n2 = n2
    n1n2 = n1n2
    alice = alice
    bob = bob
    tokA = tokA
    tokB = tokB
    admins = admins
    staff = staff
    app = app
    infra = infra
    logs = logs
    none = none
    cluster = cluster
    Conns = {c1, c2}
    Namespaces = {n1, cluster}
    Labels = {"kubernetes_namespace_name", "k8s_namespace_name"}
    Tokens = {tokA, tokB}
    Users = {alice, bob}
    Groups = {admins, staff}
    Tenants = {app, infra}
    Resources = {logs}
    NoToken = none
    NoResource = none
    DebugToken = none
    ClusterWide = cluster
    Mappings <- MCMappings
    Pieces <- MCPieces
    MatcherKeys = {"kubernetes_namespace_name"}
    SkipTenants = {}
    AdminGroups = {}
    ViaQToOTELMigration = FALSE
    SSAR = FALSE
    Backend = "inmemory"
    TTL = 0
    MaxTime = 0
    Inputs <- MetadataInputs
    Facts <- MetadataFacts
SYMMETRY Symmetry
INVARIANTS AllowsAreJustified DenialsAreJustified
