---------------------------- MODULE MCAuthorizer ----------------------------
(* Small instances of Authorizer for TLC. *)
EXTENDS AuthorizerRefinement, TLC

CONSTANTS c1, c2, n1, n2, n1n2, alice, bob, tokA, tokB, admins, staff, app, infra,
          logs, none, cluster

Symmetry == Permutations(Conns)

MCMappings == app :> "loki" @@ infra :> "loki"

(* Joined, the names n1 and n2 give the text of the one name n1n2. *)
MCPieces == [n \in Namespaces |-> IF n = n1n2 THEN <<n1, n2>> ELSE <<n>>]

NoSelectors == [l \in {ViaQLabel, OTELLabel} |-> {}]

(* Alice reads the logs of tenant app and asks for nothing in particular. *)
Read ==
    [form |-> "ok", permission |-> "read", tenant |-> app, resource |-> logs,
     token |-> tokA, user |-> alice, groups |-> {staff},
     selectors |-> NoSelectors, wildcard |-> FALSE, metadataOnly |-> FALSE]

Metadata == [Read EXCEPT !.metadataOnly = TRUE]
Write == [Read EXCEPT !.permission = "write"]
ReadOf(S) == [Read EXCEPT !.selectors[ViaQLabel] = S]
ReadOTELOf(S) == [Read EXCEPT !.selectors[OTELLabel] = S]
ByBob(q) == [q EXCEPT !.token = tokB, !.user = bob]

Access(q, n) == AccessFact(q, n)

-----------------------------------------------------------------------------
(* staleness: equal requests race each other and the clock. *)
StalenessInputs == {ReadOf({n1})}
StalenessFacts == {Access(Read, n1)}

(* isolation: requests that differ in who asks, and for what. *)
IsolationInputs ==
    {ReadOf({n1}), ReadOf({n1, n2}), ReadOf({n1n2}), ByBob(ReadOf({n1}))}
IsolationFacts ==
    {Access(Read, n2), Access(ByBob(Read), cluster), ProjectFact(tokB, n1)}

(* migration: both generations of the label, admins, skipped tenants, and   *)
(* requests that the handler turns down.                                   *)
MigrationInputs ==
    {ReadOf({n1}), ReadOTELOf({n1}),
     [ReadOf({n1}) EXCEPT !.selectors[OTELLabel] = {n1}],
     [ReadOf({n1}) EXCEPT !.groups = {admins}],
     [ReadOf({n1}) EXCEPT !.tenant = infra],
     [ReadOf({n1}) EXCEPT !.wildcard = TRUE],
     [Read EXCEPT !.token = none],
     [Read EXCEPT !.form = "undecodable"]}
MigrationFacts == {Access(Read, n1), Access([Read EXCEPT !.tenant = infra], n1)}

(* metadata: requests that name no namespaces, or a blank one. *)
MetadataInputs ==
    {Read, Metadata, [Metadata EXCEPT !.selectors[ViaQLabel] = {cluster}], Write}
MetadataFacts ==
    {Access(Read, cluster), Access(Read, n1), ProjectFact(tokA, n1)}

(* partial access: one of two namespaces is granted, and no matcher applies. *)
PartialInputs == {ReadOf({n1, n2})}
PartialFacts == {Access(Read, n2)}

=============================================================================
