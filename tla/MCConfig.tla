------------------------------ MODULE MCConfig ------------------------------
(* Small instances of Config for TLC. *)
EXTENDS Config, TLC

(* Pieces of --opa.matcher: blank, the two labels, and a name that has one *)
(* of them as a substring without being it.                                *)
Pieces == {"", ViaQLabel, OTELLabel, "k8s_namespace_names"}

MCMentions ==
    [p \in Pieces |-> CASE p = ViaQLabel -> {ViaQLabel}
                       [] p \in {OTELLabel, "k8s_namespace_names"} -> {OTELLabel}
                       [] OTHER -> {}]

Valid ==
    [logLevelOK |-> TRUE, packageOK |-> TRUE, ruleOK |-> TRUE,
     mappingsGiven |-> TRUE, mappings |-> << <<"app", "loki">> >>,
     matcher |-> <<"">>, skipTenants |-> <<"">>, adminGroups |-> <<"">>,
     migration |-> FALSE, expireGiven |-> FALSE, expire |-> 0, servers |-> {}]

(* Every matcher of up to three pieces, with exemptions of either kind. *)
Matchers ==
    {[Valid EXCEPT !.matcher = m, !.migration = b, !.skipTenants = s,
                   !.adminGroups = a, !.servers = {"cache:11211"}] :
        m \in UNION {[1 .. n -> Pieces] : n \in 1 .. 3},
        b \in BOOLEAN,
        s \in {<<"">>, <<"", "infra">>},
        a \in {<<"">>, <<"admins", "">>}}

(* One mistake at a time, and two at once. *)
Mistakes ==
    {[Valid EXCEPT !.logLevelOK = FALSE], [Valid EXCEPT !.packageOK = FALSE],
     [Valid EXCEPT !.ruleOK = FALSE, !.mappingsGiven = FALSE, !.mappings = <<>>],
     [Valid EXCEPT !.mappingsGiven = FALSE, !.mappings = <<>>],
     [Valid EXCEPT !.mappings = << <<"app">>, <<"app", "loki">> >>],
     [Valid EXCEPT !.mappings = << <<"app", "a">>, <<"infra", "loki">>, <<"app", "b">> >>],
     [Valid EXCEPT !.expireGiven = TRUE, !.expire = -1]}

MCCommandLines == Matchers \cup Mistakes

MCRequests ==
    {[tenant |-> t, groups |-> g, selectors |-> (ViaQLabel :> {} @@ OTELLabel :> o)] :
        t \in {"", "app", "infra"}, g \in {{}, {""}, {"admins"}}, o \in {{}, {"n1"}}}

=============================================================================
