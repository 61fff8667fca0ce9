------------------------------ MODULE Verdict ------------------------------
(***************************************************************************)
(* The answers of internal/authorizer/authorizer.go, and what makes one    *)
(* right: which of the things that the API server said, at or after some   *)
(* moment, lead to it.  Neither depends on how an evaluation proceeds.     *)
(***************************************************************************)
EXTENDS Matcher, NameLists

Answer ==
    [status     : {0, 200, 400, 401, 500},
     allowed    : BOOLEAN,
     keys       : SUBSET MatcherKeys,    \* {}: the plain boolean answer
     namespaces : SUBSET Namespaces]     \* the value each key must match

Failure(status) ==
    [status |-> status, allowed |-> FALSE, keys |-> {}, namespaces |-> {}]

Pending == Failure(0)

MinimalDataResponse(b) == [Failure(200) EXCEPT !.allowed = b]

NewDataResponse(ns, ks) ==
    IF ks = {} /\ ns # {}
    THEN MinimalDataResponse(TRUE)
    ELSE [status |-> 200, allowed |-> ns # {}, keys |-> ks, namespaces |-> ns]

-----------------------------------------------------------------------------
(* What the API server said of request q at or after time t *)

ClusterFact(q) == AccessFact(q, ClusterWide)

(* Namespace n is one of those that are reviewed one by one. *)
Reviewed(q, n, t) ==
    \/ n \in Requested(q)
    \/ Requested(q) = {} /\ q.metadataOnly /\ TrueSince(ProjectFact(Token(q), n), t)

(* Its review could have been positive, *)
GrantedSince(q, n, t) ==
    /\ Reviewed(q, n, t)
    /\ TrueSince(ClusterFact(q), t) \/ TrueSince(AccessFact(q, n), t)

(* or it was negative, or there was none. *)
RefusedSince(q, n, t) ==
    /\ n \in Requested(q) => FalseSince(AccessFact(q, n), t)
    /\ q.metadataOnly /\ Requested(q) = {} =>
          \/ FalseSince(AccessFact(q, n), t)
          \/ FalseSince(ProjectFact(Token(q), n), t)

(* Namespace n, if the request is about it, was not among the projects. *)
HiddenSince(q, n, t) ==
    Requested(q) = {} \/ n \in Requested(q) => FalseSince(ProjectFact(Token(q), n), t)

(* Answer a allows request q.  With cluster-wide access it lists the       *)
(* projects the token sees, without it the namespaces whose review was     *)
(* positive, and leaves out none; a plain "true" for a read needs access   *)
(* to some namespace that was reviewed.                                    *)
AllowJustified(q, a, t) ==
    \/ /\ TrueSince(ClusterFact(q), t)
       /\ \A n \in a.namespaces : TrueSince(ProjectFact(Token(q), n), t)
       /\ a.keys # {} => \A n \in Namespaces \ a.namespaces : HiddenSince(q, n, t)
    \/ /\ Verb(q) = "get"
       /\ FalseSince(ClusterFact(q), t)
       /\ \A n \in a.namespaces : GrantedSince(q, n, t)
       /\ \E n \in Namespaces : GrantedSince(q, n, t)
       /\ a.keys # {} => \A n \in Namespaces \ a.namespaces : RefusedSince(q, n, t)

(* Answer a denies request q: it has no cluster-wide access and every      *)
(* review was negative, or it has but nothing to list.                     *)
DenialJustified(q, a, t) ==
    \/ /\ FalseSince(ClusterFact(q), t)
       /\ Verb(q) = "get" => \A n \in Namespaces : RefusedSince(q, n, t)
    \/ /\ TrueSince(ClusterFact(q), t)
       /\ Verb(q) = "get" /\ PromisedKeys(q) # {}
       /\ \A n \in Namespaces : HiddenSince(q, n, t)

Justified(q, a, t) ==
    IF a.allowed THEN AllowJustified(q, a, t) ELSE DenialJustified(q, a, t)

(* An answer of the right form for request q: an allowed read constrains   *)
(* the keys the flags promise, and only namespaces that were asked for.    *)
FormOK(q, a) ==
    /\ a.allowed => a.keys = IF Verb(q) = "get" THEN PromisedKeys(q) ELSE {}
    /\ Requested(q) # {} => a.namespaces \subseteq Requested(q)
    /\ a.namespaces # {} <=> a.allowed /\ a.keys # {}

AnswerOK(q, a, t) == a.status = 200 /\ FormOK(q, a) /\ Justified(q, a, t)

-----------------------------------------------------------------------------
(* Whose answer a request may get *)

(* All that is asked, but for the namespaces. *)
Question(q) ==
    <<Verb(q), q.metadataOnly, q.tenant, q.resource, Token(q), q.user, q.groups,
      PromisedKeys(q)>>

(* The requests whose answer may be given to q: they ask the same, and of  *)
(* namespaces that join to the same text.  Unless names are blank or hold  *)
(* colons that leaves only requests for the namespaces of q.               *)
Twins(q) ==
    {p \in Inputs :
        /\ Valid(p)
        /\ Question(p) = Question(q)
        /\ \E o \in Orders(Requested(p)), r \in Orders(Requested(q)) :
              Joined(o) = Joined(r)}

(* Answer a is right for q, or for a request that q cannot be told from. *)
Fits(q, a, t) == \E p \in Twins(q) : AnswerOK(p, a, t)

-----------------------------------------------------------------------------
(* What request q may see according to the access that holds now. *)

Entitlement(q) ==
    IF ClusterFact(q) \in holds
    THEN {n \in ListNamespaces(q) : Requested(q) # {} => n \in Requested(q)}
    ELSE {n \in Namespaces : /\ AccessFact(q, n) \in holds
                             /\ \/ n \in Requested(q)
                                \/ /\ Requested(q) = {} /\ q.metadataOnly
                                   /\ n \in ListNamespaces(q)}

Entitled(q) ==
    \/ ClusterFact(q) \in holds /\ (Verb(q) = "create" \/ PromisedKeys(q) = {})
    \/ Verb(q) = "get" /\ Entitlement(q) # {}

(* No access has changed at or after time t. *)
QuietSince(t) == \A f \in Facts : flipped[f] < t

=============================================================================
