------------------------- MODULE AuthorizerInvariant -------------------------
(***************************************************************************)
(* The inductive invariant of Authorizer: what each stage of an evaluation *)
(* already knows about the API server's recent past, and what a cache      *)
(* entry is the answer to.                                                 *)
(***************************************************************************)
EXTENDS Authorizer

InFlight(c) == pc[c] \notin {"idle", "answered"}

(* Nobody has modified the shared matcher, and a request in flight has the *)
(* matcher and the namespaces that its input asks for.                     *)
RequestOK(c) ==
    InFlight(c) =>
        /\ Valid(req[c])
        /\ keys[c] = PromisedKeys(req[c])
        /\ order[c] \in Orders(Requested(req[c]))

RequestsOK == matcher = MatcherKeys /\ \A c \in Conns : RequestOK(c)

(* Nothing is remembered from the future. *)
ClockOK ==
    /\ \A f \in Facts : flipped[f] <= now
    /\ \A c \in Conns : asOf[c] <= now /\ answeredAt[c] <= now

-----------------------------------------------------------------------------

(* What the calls made so far have shown. *)
ListClusterOK(q, ks, t) ==
    Verb(q) = "get" /\ ks # {} /\ TrueSince(ClusterFact(q), t)

ListMetaOK(q, t) ==
    /\ Verb(q) = "get" /\ q.metadataOnly /\ Requested(q) = {}
    /\ FalseSince(ClusterFact(q), t)

ReviewOK(q, td, al, t) ==
    /\ Verb(q) = "get"
    /\ FalseSince(ClusterFact(q), t)
    /\ \A n \in td : Reviewed(q, n, t)
    /\ \A n \in al : GrantedSince(q, n, t)
    /\ \A n \in Namespaces : n \in td \/ n \in al \/ RefusedSince(q, n, t)

StageOK(c) ==
    /\ pc[c] # "review" => allowed[c] = {}
    /\ pc[c] = "listCluster" => ListClusterOK(req[c], keys[c], asOf[c])
    /\ pc[c] = "listMeta" => ListMetaOK(req[c], asOf[c])
    /\ pc[c] = "review" => ReviewOK(req[c], todo[c], allowed[c], asOf[c])
    /\ pc[c] = "store" => AnswerOK(req[c], answer[c], asOf[c])
    /\ Answered(c) => Fits(req[c], answer[c], asOf[c])

(* An entry is the answer to a request that looks it up. *)
EntriesOK ==
    \A k \in DOMAIN cache : \E q \in Inputs :
        /\ Valid(q)
        /\ \E o \in Orders(Requested(q)) : k = CacheKey(q, o, PromisedKeys(q))
        /\ AnswerOK(q, cache[k].answer, cache[k].since)

AgesOK ==
    /\ \A k \in DOMAIN cache :
          /\ cache[k].setAt <= now
          /\ cache[k].since <= cache[k].setAt
          /\ cache[k].setAt - cache[k].since <= longest
    /\ Expires => \A c \in Conns : Answered(c) =>
          asOf[c] >= answeredAt[c] - MaxAge - longest

-----------------------------------------------------------------------------

IInv ==
    /\ TypeOK
    /\ RequestsOK
    /\ ClockOK
    /\ \A c \in Conns : StageOK(c)
    /\ EntriesOK
    /\ AgesOK

-----------------------------------------------------------------------------

(* Where no name is blank or holds a colon, every answer is right for the  *)
(* very request that gets it (authorizer.go Authorize; cache.go).          *)
AnswersAreExact ==
    (\A q \in Inputs : Plain(q)) =>
        \A c \in Conns : Answered(c) => AnswerOK(req[c], answer[c], asOf[c])

=============================================================================
