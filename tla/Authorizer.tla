----------------------------- MODULE Authorizer -----------------------------
(***************************************************************************)
(* The request path of opa-openshift: the HTTP handler                     *)
(* (internal/handler/handler.go) and the Authorizer it builds for every    *)
(* request (internal/authorizer/authorizer.go), run by any number of       *)
(* connections against one shared matcher, one shared answer cache and one *)
(* API server whose state changes between any two calls.                   *)
(*                                                                         *)
(* A connection handles one request at a time:                             *)
(*                                                                         *)
(*   idle/answered -Admit-> lookup -Miss-> cluster -> listCluster ---.     *)
(*        ^                   |               |                      |     *)
(*        |                  Hit              |--> listMeta -.       |     *)
(*        |                   |               |--> review <--'       |     *)
(*        |                   |               |      |               |     *)
(*        `--- answered <-----+---- Store <---+------+---------------'     *)
(*                                                                         *)
(* and any call that fails leads to "answered" with an error.              *)
(***************************************************************************)
EXTENDS Verdict, ResponseCache

CONSTANT Conns   \* connections, each served by a goroutine

(* A document is finite. *)
ASSUME AuthorizerAssumption == \A q \in Inputs : IsFiniteSet(Requested(q))

VARIABLES
    matcher,     \* keys of the matcher shared by all requests
    pc,          \* where each connection's goroutine is
    req,         \* the input it is handling, or handled last
    keys,        \* keys of the request's own matcher
    order,       \* the requested namespaces in the order of the cache key
    todo,        \* namespaces still to be reviewed
    allowed,     \* namespaces whose review was positive
    answer,      \* the answer, once there is one
    asOf,        \* history: when the request arrived whose reviews count
    answeredAt,  \* history: when the answer was given
    longest      \* history: the longest time a request has taken so far

conn == <<req, keys, order, todo, allowed, answer, asOf, answeredAt>>
vars == <<api, cache, matcher, pc, conn, longest>>

-----------------------------------------------------------------------------
(* Initial state: the flags have been parsed, nothing was asked yet. *)

PCs == {"idle", "lookup", "cluster", "listCluster", "listMeta", "review",
        "store", "answered"}

Init ==
    /\ APIInit
    /\ cache = [k \in {} |-> Pending]
    /\ matcher = MatcherKeys
    /\ pc = [c \in Conns |-> "idle"]
    /\ req = [c \in Conns |-> CHOOSE q \in Inputs : TRUE]
    /\ keys = [c \in Conns |-> {}]
    /\ order = [c \in Conns |-> <<>>]
    /\ todo = [c \in Conns |-> {}]
    /\ allowed = [c \in Conns |-> {}]
    /\ answer = [c \in Conns |-> Pending]
    /\ asOf = [c \in Conns |-> 0]
    /\ answeredAt = [c \in Conns |-> 0]
    /\ longest = 0

Free(c) == pc[c] \in {"idle", "answered"}

-----------------------------------------------------------------------------
(* The handler *)

(* The handler answers by itself: an invalid request, no usable kubeconfig *)
(* for the client, a wildcard where namespaces must be named, or both      *)
(* generations of the namespace label during the migration.                *)
Reject(c, q) ==
    /\ Free(c)
    /\ \E status \in {400, 500} :
        /\ \/ ~Valid(q) /\ status = InvalidStatus(q)
           \/ Valid(q) /\ status \in ClientErrors
           \/ /\ Valid(q) /\ status = 400
              /\ \/ q.wildcard /\ ForRequest(matcher, q).keys # {}
                 \/ ViaQToOTELMigration /\ Conflicting(q)
        /\ answer' = [answer EXCEPT ![c] = Failure(status)]
    /\ pc' = [pc EXCEPT ![c] = "answered"]
    /\ req' = [req EXCEPT ![c] = q]
    /\ asOf' = [asOf EXCEPT ![c] = now]
    /\ answeredAt' = [answeredAt EXCEPT ![c] = now]
    /\ UNCHANGED <<api, cache, matcher, keys, order, todo, allowed, longest>>

(* All checks passed: select the matcher and call Authorize. *)
Admit(c, q) ==
    /\ Free(c)
    /\ Valid(q)
    /\ LET m   == ForRequest(matcher, q)
           own == IF ViaQToOTELMigration THEN Migrate(m.keys, q) ELSE m.keys
       IN /\ ~(q.wildcard /\ m.keys # {})
          /\ matcher' = IF m.shared THEN own ELSE matcher
          /\ keys' = [keys EXCEPT ![c] = own]
    /\ ~(ViaQToOTELMigration /\ Conflicting(q))
    /\ \E o \in Orders(Requested(q)) : order' = [order EXCEPT ![c] = o]
    /\ pc' = [pc EXCEPT ![c] = "lookup"]
    /\ req' = [req EXCEPT ![c] = q]
    /\ answer' = [answer EXCEPT ![c] = Pending]
    /\ asOf' = [asOf EXCEPT ![c] = now]
    /\ answeredAt' = [answeredAt EXCEPT ![c] = now]
    /\ UNCHANGED <<api, cache, todo, allowed, longest>>

-----------------------------------------------------------------------------
(* Authorize *)

Key(c) == CacheKey(req[c], order[c], keys[c])

(* The goroutine of c answers with a; since is when the request arrived    *)
(* whose reviews a rests on.                                               *)
Reply(c, a, since) ==
    /\ pc' = [pc EXCEPT ![c] = "answered"]
    /\ answer' = [answer EXCEPT ![c] = a]
    /\ asOf' = [asOf EXCEPT ![c] = since]
    /\ answeredAt' = [answeredAt EXCEPT ![c] = now]
    /\ longest' = IF now - asOf[c] > longest THEN now - asOf[c] ELSE longest
    /\ todo' = [todo EXCEPT ![c] = {}]
    /\ allowed' = [allowed EXCEPT ![c] = {}]
    /\ keys' = [keys EXCEPT ![c] = {}]
    /\ order' = [order EXCEPT ![c] = <<>>]
    /\ UNCHANGED <<api, matcher, req>>

(* The evaluation has come to an answer, which is saved before it is given. *)
Conclude(c, a) ==
    /\ pc' = [pc EXCEPT ![c] = "store"]
    /\ answer' = [answer EXCEPT ![c] = a]
    /\ todo' = [todo EXCEPT ![c] = {}]
    /\ allowed' = [allowed EXCEPT ![c] = {}]

GoTo(c, there) ==
    /\ pc' = [pc EXCEPT ![c] = there]
    /\ UNCHANGED <<answer, todo, allowed>>

(* A plausible mistake: the cluster-wide review is repeated per namespace. *)
ReviewAllAndCluster(c, ns) ==
    /\ pc' = [pc EXCEPT ![c] = "review"]
    /\ todo' = [todo EXCEPT ![c] = ns \cup {ClusterWide}]
    /\ UNCHANGED <<answer, allowed>>

ReviewAll(c, ns) ==
    /\ pc' = [pc EXCEPT ![c] = "review"]
    /\ todo' = [todo EXCEPT ![c] = ns]
    /\ UNCHANGED <<answer, allowed>>

(* What no step of the evaluation between lookup and answer touches. *)
Evaluating ==
    UNCHANGED <<api, cache, matcher, req, keys, order, asOf, answeredAt, longest>>

(* A plausible mistake: an answer is saved again whenever it is found. *)
HitSavingAgain(c) ==
    /\ pc[c] = "lookup"
    /\ Live(Key(c))
    /\ Reply(c, cache[Key(c)].answer, cache[Key(c)].since)
    /\ cache' = Saved(Key(c), cache[Key(c)].answer, cache[Key(c)].since)

Hit(c) ==
    /\ pc[c] = "lookup"
    /\ Live(Key(c))
    /\ Reply(c, cache[Key(c)].answer, cache[Key(c)].since)
    /\ cache' = AfterHit(Key(c))

Miss(c) ==
    /\ pc[c] = "lookup"
    /\ ~Live(Key(c))
    /\ GoTo(c, "cluster")
    /\ Evaluating

(* A plausible mistake: a cache that fails is taken for one that denies. *)
LookupFailsDenying(c) ==
    /\ pc[c] = "lookup"
    /\ Backend = "memcached"
    /\ Reply(c, MinimalDataResponse(FALSE), asOf[c])
    /\ UNCHANGED cache

(* Only a remote cache can fail, and then so does the request. *)
LookupFails(c) ==
    /\ pc[c] = "lookup"
    /\ Backend = "memcached"
    /\ Reply(c, Failure(500), asOf[c])
    /\ UNCHANGED cache

(* A plausible mistake: a review that fails counts as a positive one. *)
CallFailsOpen(c) ==
    /\ pc[c] = "review" /\ todo[c] # {}
    /\ Conclude(c, NewDataResponse(todo[c], keys[c]))
    /\ Evaluating

(* A plausible mistake: a review that fails counts as a negative one. *)
CallFailsClosed(c) ==
    /\ pc[c] = "review" /\ todo[c] # {}
    /\ Conclude(c, MinimalDataResponse(FALSE))
    /\ Evaluating

(* Any call to the API server may fail; the request fails with it. *)
CallFails(c) ==
    /\ \/ pc[c] \in {"cluster", "listCluster", "listMeta"}
       \/ pc[c] = "review" /\ todo[c] # {}
    /\ Reply(c, Failure(401), asOf[c])
    /\ UNCHANGED cache

(* The matcher of the answer cannot be built: a name that was asked for    *)
(* does not parse as a regular expression.                                 *)
AnswerFails(c) ==
    /\ keys[c] # {}
    /\ \/ pc[c] = "listCluster"
       \/ pc[c] = "review" /\ todo[c] = {} /\ allowed[c] # {}
    /\ Reply(c, Failure(500), asOf[c])
    /\ UNCHANGED cache

(* The cluster-wide review decides how the evaluation goes on. *)
ReviewCluster(c) ==
    /\ pc[c] = "cluster"
    /\ LET q  == req[c]
           ok == AccessReview(q, ClusterWide)
       IN \/ Verb(q) = "create" /\ Conclude(c, MinimalDataResponse(ok))
          \/ /\ Verb(q) = "get" /\ ok
             /\ \/ keys[c] = {} /\ Conclude(c, MinimalDataResponse(TRUE))
                \/ keys[c] # {} /\ GoTo(c, "listCluster")
          \/ /\ Verb(q) = "get" /\ ~ok
             /\ \/ q.metadataOnly /\ Requested(q) = {} /\ GoTo(c, "listMeta")
                \/ /\ ~q.metadataOnly \/ Requested(q) # {}
                   /\ ReviewAll(c, Requested(q))
    /\ Evaluating

(* Cluster-wide access: all projects, or the requested ones that exist. *)
ListForCluster(c) ==
    /\ pc[c] = "listCluster"
    /\ LET ns == ListNamespaces(req[c])
           r  == Requested(req[c])
       IN Conclude(c, NewDataResponse(IF r = {} THEN ns ELSE ns \cap r, keys[c]))
    /\ Evaluating

(* No cluster-wide access and nothing requested: review all projects. *)
ListForMetadata(c) ==
    /\ pc[c] = "listMeta"
    /\ LET ns == ListNamespaces(req[c])
       IN \/ ns = {} /\ Conclude(c, MinimalDataResponse(FALSE))
          \/ ns # {} /\ ReviewAll(c, ns)
    /\ Evaluating

(* The loop over the namespaces, in any order: no property depends on it.  *)
ReviewNamespace(c, n) ==
    /\ pc[c] = "review"
    /\ n \in todo[c]
    /\ todo' = [todo EXCEPT ![c] = @ \ {n}]
    /\ allowed' = IF AccessReview(req[c], n)
                  THEN [allowed EXCEPT ![c] = @ \cup {n}]
                  ELSE allowed
    /\ UNCHANGED <<pc, answer>>
    /\ Evaluating

(* A plausible mistake: a denial is evaluated again before it is given. *)
DecideRetrying(c) ==
    /\ pc[c] = "review"
    /\ todo[c] = {}
    /\ IF allowed[c] = {} THEN GoTo(c, "cluster")
                          ELSE Conclude(c, NewDataResponse(allowed[c], keys[c]))
    /\ Evaluating

Decide(c) ==
    /\ pc[c] = "review"
    /\ todo[c] = {}
    /\ Conclude(c, IF allowed[c] = {} THEN MinimalDataResponse(FALSE)
                                      ELSE NewDataResponse(allowed[c], keys[c]))
    /\ Evaluating

(* A failure to save is only logged. *)
Store(c) ==
    /\ pc[c] = "store"
    /\ Reply(c, answer[c], asOf[c])
    /\ \/ cache' = Saved(Key(c), answer[c], asOf[c])
       \/ SaveMayFail /\ UNCHANGED cache

-----------------------------------------------------------------------------

Handle(c) ==
    \/ Hit(c) \/ Miss(c) \/ LookupFails(c)
    \/ ReviewCluster(c) \/ ListForCluster(c) \/ ListForMetadata(c)
    \/ \E n \in Namespaces : ReviewNamespace(c, n)
    \/ Decide(c) \/ CallFails(c) \/ AnswerFails(c) \/ Store(c)

Receive(c) == \E q \in Inputs : Admit(c, q) \/ Reject(c, q)

Environment ==
    /\ \/ /\ \/ Tick
             \/ \E f \in Facts : Flip(f)
          /\ UNCHANGED cache
       \/ /\ \E k \in DOMAIN cache : Evict(k)
          /\ UNCHANGED api
    /\ UNCHANGED <<matcher, pc, conn, longest>>

Next == Environment \/ \E c \in Conns : Receive(c) \/ Handle(c)

Spec == Init /\ [][Next]_vars

(* Go schedules every goroutine, and every call to the API server or to the *)
(* cache returns, with an answer or an error.                              *)
FairSpec == Spec /\ \A c \in Conns : WF_vars(Handle(c))

-----------------------------------------------------------------------------
(* Properties *)

CacheTypeOK ==
    \A k \in DOMAIN cache :
        cache[k] \in [answer : Answer, setAt : Nat, since : Nat]

(* Type invariant. *)
TypeOK ==
    /\ APITypeOK
    /\ CacheTypeOK
    /\ matcher \subseteq MatcherKeys
    /\ pc \in [Conns -> PCs]
    /\ req \in [Conns -> Inputs]
    /\ keys \in [Conns -> SUBSET MatcherKeys]
    /\ order \in [Conns -> Seq(Namespaces)]
    /\ todo \in [Conns -> SUBSET Namespaces]
    /\ allowed \in [Conns -> SUBSET Namespaces]
    /\ answer \in [Conns -> Answer]
    /\ asOf \in [Conns -> Nat]
    /\ answeredAt \in [Conns -> Nat]
    /\ longest \in Nat

(* The connection has been given an answer that is not an error. *)
Answered(c) == pc[c] = "answered" /\ answer[c].status = 200

(* Whoever is told "yes", from the cache or not and whatever changed or    *)
(* failed meanwhile, was granted exactly that, no more and no less, by the *)
(* API server after the request arrived on whose behalf it was asked; or   *)
(* was given what another request was granted that asks the same of        *)
(* namespaces whose names join to the same text (authorizer.go Authorize,  *)
(* authorizeInner, authorizeClusterWide; cache.go generateCacheKey).       *)
AllowsAreJustified ==
    \A c \in Conns : Answered(c) /\ answer[c].allowed =>
        \E p \in Twins(req[c]) : AllowJustified(p, answer[c], asOf[c])

(* Nobody is denied by an answer to another question, of other names in    *)
(* the joined text, or after a partial failure: a denial, too, is what the *)
(* API server said at some moment of the evaluation behind it              *)
(* (authorizer.go Authorize, authorizeInner; cache.go generateCacheKey).   *)
DenialsAreJustified ==
    \A c \in Conns : Answered(c) /\ ~answer[c].allowed =>
        \E p \in Twins(req[c]) : DenialJustified(p, answer[c], asOf[c])

(* Where entries expire, answers are stale by at most the time they are    *)
(* kept plus the longest time a request took: revocations and grants older *)
(* than that always show (inmemory.go NewInMemoryCache: DisableTouchOnHit; *)
(* authorizer.go Authorize).                                               *)
BoundedStaleness ==
    Expires => \A c \in Conns : Answered(c) =>
        \E p \in Twins(req[c]) :
            Justified(p, answer[c], answeredAt[c] - MaxAge - longest)

(* Once access has not changed for that long, answers are exactly what the *)
(* access that holds entitles to, whoever asked first, whichever calls     *)
(* were made for it and in whatever order they returned (authorizer.go     *)
(* Authorize, authorizeInner, authorizeClusterWide; inmemory.go).          *)
AnswersAreCurrent ==
    Expires => \A c \in Conns :
        Answered(c) /\ QuietSince(answeredAt[c] - MaxAge - longest) =>
            \E p \in Twins(req[c]) :
                /\ answer[c].allowed = Entitled(p)
                /\ answer[c].allowed /\ answer[c].keys # {} =>
                      answer[c].namespaces = Entitlement(p)

(* An allowed read constrains exactly the label keys that the flags ask    *)
(* for this request, even when the answer was cached for another request   *)
(* or other requests modified their matchers (matcher.go ForRequest,       *)
(* ViaQToOTELMigration; cache.go hashMatcher).                             *)
MatcherApplied ==
    \A c \in Conns : Answered(c) /\ answer[c].allowed =>
        answer[c].keys = IF Verb(req[c]) = "get" THEN PromisedKeys(req[c]) ELSE {}

(* With a matcher configured, a read is allowed without any constraint     *)
(* only to an exempt tenant or group: the migration never takes the last   *)
(* key, for this request or for one whose answer is reused (matcher.go     *)
(* ViaQToOTELMigration; config.go ParseFlags; authorizer.go:214).          *)
UnconstrainedOnlyIfExempt ==
    \A c \in Conns :
        /\ Answered(c) /\ answer[c].allowed /\ answer[c].keys = {}
        /\ Verb(req[c]) = "get" /\ MatcherKeys # {}
        => Exempt(req[c])

(* A request is never answered with a namespace that neither it names nor  *)
(* a request whose names join to the same text: only where there is a      *)
(* blank name may the answer to none be given for one, and only with       *)
(* colons in them are names mistaken for others (authorizer.go             *)
(* authorizeClusterWide, authorizeInner; cache.go generateCacheKey).       *)
NeverWidened ==
    \A c \in Conns : Answered(c) =>
        \E p \in Twins(req[c]) :
            Requested(p) # {} => answer[c].namespaces \subseteq Requested(p)

(* authorizer.go:165 "allow access for the namespaces where the SAR was    *)
(* successful": a read without cluster-wide access that is allowed as it   *)
(* stands was granted each namespace it names.                             *)
OnlySuccessfulNamespaces ==
    \A c \in Conns :
        /\ Answered(c) /\ answer[c].allowed /\ answer[c].keys = {}
        /\ Verb(req[c]) = "get" /\ ~TrueSince(ClusterFact(req[c]), asOf[c])
        => \A n \in Requested(req[c]) : GrantedSince(req[c], n, asOf[c])

(* The cache holds nothing but answers to questions that can be asked,     *)
(* each under the keys of its own request and at most once per order of    *)
(* its namespaces: nothing else bounds the cache in memory, and an entry   *)
(* under any other key would be kept for ever and found by nobody          *)
(* (inmemory.go NewInMemoryCache; cache.go generateCacheKey; matcher.go).  *)
EntriesCanBeFound ==
    \A k \in DOMAIN cache : \E q \in Inputs :
        Valid(q) /\ \E o \in Orders(Requested(q)) : k = CacheKey(q, o, PromisedKeys(q))

(* How far the goroutine of a request has come. *)
Stage(p) == CASE p = "lookup"                      -> 1
              [] p = "cluster"                     -> 2
              [] p \in {"listCluster", "listMeta"} -> 3
              [] p = "review"                      -> 4
              [] p = "store"                       -> 5
              [] p = "answered"                    -> 6
              [] OTHER                             -> 0

(* An evaluation only ever goes forward, whatever changes, fails or is     *)
(* evicted meanwhile: it consults the cache once, asks the API server      *)
(* about no namespace twice and comes back to no earlier question, so that *)
(* its calls are bounded; no other request holds it up or throws it back   *)
(* (authorizer.go Authorize, authorizeInner, authorizeClusterWide).        *)
EvaluationsAdvance ==
    [][\A c \in Conns : Stage(pc[c]) \in 1 .. 5 =>
          \/ Stage(pc'[c]) > Stage(pc[c])
          \/ pc'[c] = pc[c] /\ todo'[c] \subseteq todo[c] /\ todo'[c] # todo[c]
          \/ /\ pc'[c] = pc[c] /\ todo'[c] = todo[c]
             /\ allowed'[c] = allowed[c] /\ answer'[c] = answer[c]]_vars

(* Every request that is admitted is answered (handler.go New).            *)
RequestsAnswered ==
    \A c \in Conns : pc[c] = "lookup" ~> pc[c] = "answered"

=============================================================================
