------------------------------ MODULE Matcher ------------------------------
(***************************************************************************)
(* internal/config/matcher.go: which label keys the answer to a request    *)
(* must constrain.                                                         *)
(*                                                                         *)
(* One Matcher is built at start-up and shared by every request; a request *)
(* gets either that matcher itself, or one of its own that it may modify.  *)
(* Keys are a set: the configured keys are taken to be distinct, and their *)
(* order only shows in the layout of an answer.                            *)
(***************************************************************************)
EXTENDS Input

CONSTANTS
    MatcherKeys,          \* --opa.matcher
    SkipTenants,          \* --opa.skip-tenants
    AdminGroups,          \* --opa.admin-groups
    ViaQToOTELMigration   \* --opa.viaq-to-otel-migration

ViaQLabel == "kubernetes_namespace_name"
OTELLabel == "k8s_namespace_name"

(* ParseFlags looks for both names as substrings of the whole flag, so all *)
(* it makes sure of is that neither label is the only key.                 *)
ASSUME MatcherAssumption ==
    /\ ViaQToOTELMigration \in BOOLEAN
    /\ {ViaQLabel, OTELLabel} \subseteq Labels
    /\ ViaQToOTELMigration => MatcherKeys \notin {{ViaQLabel}, {OTELLabel}}

-----------------------------------------------------------------------------

Exempt(q) == q.tenant \in SkipTenants \/ q.groups \cap AdminGroups # {}

(* A plausible mistake: handing out the shared matcher without Clone(). *)
ForRequestWithoutClone(keys, q) ==
    [shared |-> keys = {} \/ ~Exempt(q),
     keys   |-> IF Exempt(q) THEN {} ELSE keys]

(* ForRequest: "shared" says the caller got the process-wide matcher. *)
ForRequest(keys, q) ==
    [shared |-> keys = {},
     keys   |-> IF Exempt(q) THEN {} ELSE keys]

(* Both generations of the namespace label are used in one query. *)
Conflicting(q) ==
    q.selectors[ViaQLabel] # {} /\ q.selectors[OTELLabel] # {}

(* A plausible mistake: the first branch falls through to the second.      *)
MigrateFallingThrough(keys, q) ==
    IF q.selectors[OTELLabel] # {} THEN keys \ {ViaQLabel, OTELLabel}
                                   ELSE keys \ {OTELLabel}

(* The key of the generation that the query does not use is dropped. *)
Migrate(keys, q) ==
    IF q.selectors[OTELLabel] # {} THEN keys \ {ViaQLabel}
                                   ELSE keys \ {OTELLabel}

(* The keys a request's answer must constrain according to the flags. *)
PromisedKeys(q) ==
    {k \in MatcherKeys :
        /\ q.tenant \notin SkipTenants
        /\ \A g \in q.groups : g \notin AdminGroups
        /\ ViaQToOTELMigration =>
              k # (IF q.selectors[OTELLabel] = {} THEN OTELLabel ELSE ViaQLabel)}

=============================================================================
