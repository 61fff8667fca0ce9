----------------------------- MODULE MCRollout -----------------------------
(* A small instance of Rollout for TLC: another key, another operator. *)
EXTENDS Rollout, TLC

CONSTANTS p1, p2, alice, tok, staff, app, logs, none, cluster, down

Symmetry == Permutations(Procs)

NoSelectors == [l \in {ViaQLabel, OTELLabel} |-> {}]

Read ==
    [form |-> "ok", permission |-> "read", tenant |-> app, resource |-> logs,
     token |-> tok, user |-> alice, groups |-> {staff},
     selectors |-> NoSelectors, wildcard |-> FALSE, metadataOnly |-> FALSE]

MCInputs == {Read}

MCPieces == [n \in Namespaces |-> <<n>>]

MCMappings == app :> "loki"

MCFlags ==
    {[keys |-> {ViaQLabel}, op |-> "", ssar |-> FALSE],
     [keys |-> {ViaQLabel, OTELLabel}, op |-> "or", ssar |-> FALSE],
     [keys |-> {ViaQLabel, OTELLabel}, op |-> "and", ssar |-> TRUE]}

=============================================================================
