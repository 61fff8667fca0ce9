----------------------------- MODULE MCService -----------------------------
(* A small instance of Service for TLC. *)
EXTENDS Service, TLC

CONSTANTS c1, n1, alice, tok, staff, app, logs, none, cluster

(* A request that takes every path of the evaluation: a cluster-wide rule *)
(* holds in n1 too, when it comes to be between two reviews.              *)
Metadata ==
    [form |-> "ok", permission |-> "read", tenant |-> app, resource |-> logs,
     token |-> tok, user |-> alice, groups |-> {staff},
     selectors |-> (ViaQLabel :> {} @@ OTELLabel :> {}),
     wildcard |-> FALSE, metadataOnly |-> TRUE]

MCInputs == {Metadata}

MCPieces == [n \in Namespaces |-> <<n>>]

MCMappings == app :> "loki"

MCFacts == {AccessFact(Metadata, cluster), ProjectFact(tok, n1)}

=============================================================================
