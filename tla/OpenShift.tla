----------------------------- MODULE OpenShift -----------------------------
(***************************************************************************)
(* The OpenShift API server, as internal/openshift/client.go sees it: who  *)
(* may do what (access reviews) and which projects a token can see (the    *)
(* project list).  Both change while requests are in flight.               *)
(*                                                                         *)
(* A fact is an access rule or the visibility of a project.  Facts are the *)
(* ones that may ever hold; "holds" are those that hold now, "flipped"     *)
(* remembers when a fact last had the value it does not have now.          *)
(***************************************************************************)
EXTENDS Input

CONSTANTS
    Facts,         \* the access rules and project visibilities that may hold
    SSAR,          \* --opa.ssar: review the token instead of user and groups
    ClusterWide,   \* the blank name, whose review is cluster-wide; a selector
                   \* may hold it like any other
    MaxTime        \* bound on the clock

VARIABLES now, holds, flipped

api == <<now, holds, flipped>>

ASSUME OpenShiftAssumption ==
    /\ SSAR \in BOOLEAN
    /\ MaxTime \in Nat

APITypeOK ==
    /\ now \in Nat
    /\ holds \subseteq Facts
    /\ flipped \in [Facts -> Nat \cup {-1}]

APIInit ==
    /\ now = 0
    /\ holds \in SUBSET Facts
    /\ flipped = [f \in Facts |-> -1]

(* An administrator grants or revokes access, creates or deletes a project. *)
Flip(f) ==
    /\ holds' = IF f \in holds THEN holds \ {f} ELSE holds \cup {f}
    /\ flipped' = [flipped EXCEPT ![f] = now]
    /\ UNCHANGED now

Tick ==
    /\ now < MaxTime
    /\ now' = now + 1
    /\ UNCHANGED <<holds, flipped>>

-----------------------------------------------------------------------------
(* What the client asks. *)

(* What NewClient's failure is answered with.  The kubeconfig is the one of *)
(* the flag, the environment, the pod or the home directory; it is read for *)
(* every request and may be unusable at any of them.                        *)
ClientErrors == {500}

(* A SelfSubjectAccessReview is about the token the client carries, a      *)
(* SubjectAccessReview about the user and groups named in the input.       *)
Subject(q) == IF SSAR THEN <<Token(q)>> ELSE <<q.user, q.groups>>

AccessFact(q, n) ==
    [subject |-> Subject(q), verb |-> Verb(q), resource |-> q.tenant,
     name |-> q.resource, group |-> APIGroup(q), namespace |-> n]

ProjectFact(t, n) == [token |-> t, project |-> n]

(* A cluster-wide binding also grants access in every namespace. *)
AccessReview(q, n) ==
    AccessFact(q, ClusterWide) \in holds \/ AccessFact(q, n) \in holds

(* The project client always carries the caller's token. *)
ListNamespaces(q) == {n \in Namespaces : ProjectFact(Token(q), n) \in holds}

-----------------------------------------------------------------------------
(* What can be said of the recent past. *)

TrueSince(f, t) == f \in holds \/ (f \in Facts /\ flipped[f] >= t)

FalseSince(f, t) == f \in holds => flipped[f] >= t

=============================================================================
