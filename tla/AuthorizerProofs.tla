-------------------------- MODULE AuthorizerProofs --------------------------
(***************************************************************************)
(* Proofs about Authorizer for any number of connections, any inputs, any  *)
(* facts, any TTL and both cache backends.                                 *)
(***************************************************************************)
EXTENDS AuthorizerInvariant, NameListsProofs, FiniteSetTheorems, TLAPS

-----------------------------------------------------------------------------
(* Typing *)

(* What a request asks for is a set of namespaces. *)
LEMMA RequestedType ==
    ASSUME NEW q \in Inputs
    PROVE  Requested(q) \subseteq Namespaces
<1>1. q.selectors \in [Labels -> SUBSET Namespaces]
  BY InputAssumption DEF InputType
<1> QED BY <1>1 DEF Requested

(* Every order of the requested namespaces is a sequence of namespaces. *)
LEMMA OrdersType ==
    ASSUME NEW q \in Inputs, NEW o \in Orders(Requested(q))
    PROVE  o \in Seq(Namespaces)
<1>1. Cardinality(Requested(q)) \in Nat
  BY AuthorizerAssumption, FS_CardinalityType
<1>2. o \in [1 .. Cardinality(Requested(q)) -> Namespaces]
  BY RequestedType DEF Orders
<1> QED BY <1>1, <1>2

(* The answers the code builds are answers. *)
LEMMA AnswersTyped ==
    /\ \A status \in {0, 400, 401, 500} : Failure(status) \in Answer
    /\ \A b \in BOOLEAN : MinimalDataResponse(b) \in Answer
    /\ \A ns \in SUBSET Namespaces, ks \in SUBSET MatcherKeys :
          NewDataResponse(ns, ks) \in Answer
<1>1. \A status \in {0, 400, 401, 500} : Failure(status) \in Answer
  BY DEF Failure, Answer
<1>2. ASSUME NEW b \in BOOLEAN
      PROVE  MinimalDataResponse(b) \in Answer
  <2>1. MinimalDataResponse(b) =
          [status |-> 200, allowed |-> b, keys |-> {}, namespaces |-> {}]
    BY DEF MinimalDataResponse, Failure
  <2> QED BY <2>1 DEF Answer
<1>3. ASSUME NEW ns \in SUBSET Namespaces, NEW ks \in SUBSET MatcherKeys
      PROVE  NewDataResponse(ns, ks) \in Answer
  <2>1. CASE ks = {} /\ ns # {}
    BY <2>1, <1>2 DEF NewDataResponse
  <2>2. CASE ~(ks = {} /\ ns # {})
    <3>1. (ns # {}) \in BOOLEAN
      OBVIOUS
    <3> QED BY <2>2, <3>1, Zenon DEF NewDataResponse, Answer
  <2> QED BY <2>1, <2>2
<1> QED BY <1>1, <1>2, <1>3

(* The keys given to a request, and left to the others, are configured ones. *)
LEMMA KeysTyped ==
    ASSUME matcher \subseteq MatcherKeys, NEW q \in Inputs
    PROVE  /\ ForRequest(matcher, q).keys \subseteq MatcherKeys
           /\ Migrate(ForRequest(matcher, q).keys, q) \subseteq MatcherKeys
BY DEF ForRequest, Migrate

(* An answer that is given, from the cache or not, keeps the state typed. *)
LEMMA ReplyTyped ==
    ASSUME TypeOK, NEW c \in Conns, NEW a \in Answer, NEW since \in Nat,
           Reply(c, a, since), CacheTypeOK'
    PROVE  TypeOK'
<1>1. now \in Nat /\ asOf[c] \in Nat
  BY DEF TypeOK, APITypeOK
<1>2. longest' \in Nat
  BY <1>1 DEF TypeOK, Reply
<1>3. APITypeOK'
  BY DEF TypeOK, Reply, APITypeOK, api
<1>4. <<>> \in Seq(Namespaces)
  OBVIOUS
<1> QED BY <1>1, <1>2, <1>3, <1>4 DEF TypeOK, Reply, PCs

(* So does coming to an answer, *)
LEMMA ConcludeTyped ==
    ASSUME TypeOK, NEW c \in Conns, NEW a \in Answer, Conclude(c, a), Evaluating
    PROVE  TypeOK'
BY DEF TypeOK, APITypeOK, CacheTypeOK, Conclude, Evaluating, PCs, api

(* going on to a list of projects, *)
LEMMA GoToTyped ==
    ASSUME TypeOK, NEW c \in Conns, NEW there \in PCs, GoTo(c, there), Evaluating
    PROVE  TypeOK'
BY DEF TypeOK, APITypeOK, CacheTypeOK, GoTo, Evaluating, api

(* or going on to review namespaces. *)
LEMMA ReviewAllTyped ==
    ASSUME TypeOK, NEW c \in Conns, NEW ns \in SUBSET Namespaces,
           ReviewAll(c, ns), Evaluating
    PROVE  TypeOK'
BY DEF TypeOK, APITypeOK, CacheTypeOK, ReviewAll, Evaluating, PCs, api

(* The access decisions are Booleans, the project list a set of namespaces. *)
LEMMA ClientTyped ==
    ASSUME NEW q, NEW n
    PROVE  AccessReview(q, n) \in BOOLEAN /\ ListNamespaces(q) \subseteq Namespaces
BY DEF AccessReview, ListNamespaces

(* No step of the environment breaks the types. *)
LEMMA EnvironmentTyped ==
    ASSUME TypeOK, Environment
    PROVE  TypeOK'
<1>1. UNCHANGED <<matcher, pc, conn, longest>>
  BY DEF Environment
<1>2. CASE Tick /\ UNCHANGED cache
  BY <1>1, <1>2 DEF TypeOK, APITypeOK, CacheTypeOK, Tick, conn
<1>3. ASSUME NEW f \in Facts, Flip(f), UNCHANGED cache
      PROVE  TypeOK'
  <2>1. APITypeOK'
    BY <1>3 DEF TypeOK, APITypeOK, Flip
  <2> QED BY <2>1, <1>1, <1>3 DEF TypeOK, CacheTypeOK, conn
<1>4. ASSUME NEW k \in DOMAIN cache, Evict(k), UNCHANGED api
      PROVE  TypeOK'
  <2>1. CacheTypeOK'
    BY <1>4 DEF TypeOK, CacheTypeOK, Evict
  <2>2. APITypeOK'
    BY <1>4 DEF TypeOK, APITypeOK, api
  <2> QED BY <2>1, <2>2, <1>1 DEF TypeOK, conn
<1> QED BY <1>2, <1>3, <1>4 DEF Environment

(* Neither does receiving a request, *)
LEMMA ReceiveTyped ==
    ASSUME TypeOK, NEW c \in Conns, Receive(c)
    PROVE  TypeOK'
<1>1. ASSUME NEW q \in Inputs, Admit(c, q)
      PROVE  TypeOK'
  <2>1. matcher' \subseteq MatcherKeys /\ keys' \in [Conns -> SUBSET MatcherKeys]
    BY <1>1, KeysTyped DEF TypeOK, Admit
  <2>2. order' \in [Conns -> Seq(Namespaces)]
    BY <1>1, OrdersType DEF TypeOK, Admit
  <2>3. answer' \in [Conns -> Answer]
    BY <1>1, AnswersTyped DEF TypeOK, Admit, Pending
  <2>4. APITypeOK' /\ CacheTypeOK'
    BY <1>1 DEF TypeOK, APITypeOK, CacheTypeOK, Admit, api
  <2>5. asOf' \in [Conns -> Nat] /\ answeredAt' \in [Conns -> Nat]
    BY <1>1 DEF TypeOK, APITypeOK, Admit
  <2> QED BY <1>1, <2>1, <2>2, <2>3, <2>4, <2>5 DEF TypeOK, Admit, PCs
<1>2. ASSUME NEW q \in Inputs, Reject(c, q)
      PROVE  TypeOK'
  <2>1. answer' \in [Conns -> Answer]
    BY <1>2, AnswersTyped DEF TypeOK, Reject
  <2>2. APITypeOK' /\ CacheTypeOK'
    BY <1>2 DEF TypeOK, APITypeOK, CacheTypeOK, Reject, api
  <2>3. asOf' \in [Conns -> Nat] /\ answeredAt' \in [Conns -> Nat]
    BY <1>2 DEF TypeOK, APITypeOK, Reject
  <2> QED BY <1>2, <2>1, <2>2, <2>3 DEF TypeOK, Reject, PCs
<1> QED BY <1>1, <1>2 DEF Receive

(* nor does any step of Authorize. *)
LEMMA HandleTyped ==
    ASSUME TypeOK, NEW c \in Conns, Handle(c)
    PROVE  TypeOK'
<1> DEFINE q == req[c]
<1>0. q \in Inputs /\ Requested(q) \subseteq Namespaces
  BY RequestedType DEF TypeOK
<1>1. CASE Hit(c)
  <2>1. cache[Key(c)] \in [answer : Answer, setAt : Nat, since : Nat]
    BY <1>1 DEF Hit, Live, TypeOK, CacheTypeOK
  <2>2. CacheTypeOK'
    BY <1>1 DEF Hit, AfterHit, TypeOK, CacheTypeOK
  <2> QED BY <1>1, <2>1, <2>2, ReplyTyped DEF Hit
<1>2. CASE Miss(c)
  BY <1>2, GoToTyped DEF Miss, PCs
<1>3. CASE LookupFails(c)
  BY <1>3, ReplyTyped, AnswersTyped DEF LookupFails, TypeOK, CacheTypeOK
<1>4. CASE ReviewCluster(c)
  <2>1. AccessReview(q, ClusterWide) \in BOOLEAN
    BY ClientTyped
  <2> QED BY <1>0, <1>4, <2>1, ConcludeTyped, GoToTyped, ReviewAllTyped, AnswersTyped
          DEF ReviewCluster, PCs
<1>5. CASE ListForCluster(c)
  <2> DEFINE ns == ListNamespaces(q)
             r  == Requested(q)
             S  == IF r = {} THEN ns ELSE ns \cap r
  <2>1. S \subseteq Namespaces /\ keys[c] \subseteq MatcherKeys
    BY ClientTyped DEF TypeOK
  <2>2. NewDataResponse(S, keys[c]) \in Answer
    BY <2>1, AnswersTyped
  <2> QED BY <1>5, <2>2, ConcludeTyped DEF ListForCluster
<1>6. CASE ListForMetadata(c)
  <2>1. ListNamespaces(q) \subseteq Namespaces
    BY ClientTyped
  <2> QED BY <1>6, <2>1, ConcludeTyped, ReviewAllTyped, AnswersTyped DEF ListForMetadata
<1>7. ASSUME NEW n \in Namespaces, ReviewNamespace(c, n)
      PROVE  TypeOK'
  BY <1>7 DEF ReviewNamespace, Evaluating, TypeOK, APITypeOK, CacheTypeOK, api
<1>8. CASE Decide(c)
  <2>1. allowed[c] \subseteq Namespaces /\ keys[c] \subseteq MatcherKeys
    BY DEF TypeOK
  <2> QED BY <1>8, <2>1, ConcludeTyped, AnswersTyped DEF Decide
<1>9. CASE CallFails(c) \/ AnswerFails(c)
  BY <1>9, ReplyTyped, AnswersTyped DEF CallFails, AnswerFails, TypeOK, CacheTypeOK
<1>10. CASE Store(c)
  <2>1. answer[c] \in Answer /\ asOf[c] \in Nat /\ now \in Nat
    BY DEF TypeOK, APITypeOK
  <2>2. CacheTypeOK'
    <3>1. CASE UNCHANGED cache
      BY <3>1 DEF TypeOK, CacheTypeOK
    <3>2. CASE cache' = Saved(Key(c), answer[c], asOf[c])
      BY <2>1, <3>2 DEF TypeOK, CacheTypeOK, Saved
    <3> QED BY <1>10, <3>1, <3>2 DEF Store
  <2> QED BY <1>10, <2>1, <2>2, ReplyTyped DEF Store
<1> QED BY <1>1, <1>2, <1>3, <1>4, <1>5, <1>6, <1>7, <1>8, <1>9, <1>10 DEF Handle

(* Init establishes the types. *)
LEMMA InitTyped == Init => TypeOK
<1> SUFFICES ASSUME Init PROVE TypeOK
  OBVIOUS
<1>1. (CHOOSE q \in Inputs : TRUE) \in Inputs
  BY InputAssumption
<1>2. Pending \in Answer
  BY AnswersTyped DEF Pending
<1>3. APITypeOK /\ CacheTypeOK
  BY DEF Init, APIInit, APITypeOK, CacheTypeOK
<1>4. req \in [Conns -> Inputs]
  BY <1>1, Zenon DEF Init
<1>5. order \in [Conns -> Seq(Namespaces)]
  <2>1. <<>> \in Seq(Namespaces)
    OBVIOUS
  <2> QED BY <2>1, Zenon DEF Init
<1>6. answer \in [Conns -> Answer]
  BY <1>2, Zenon DEF Init
<1> QED BY <1>3, <1>4, <1>5, <1>6 DEF Init, TypeOK, PCs

(* No step breaks the types. *)
LEMMA TypeStep == TypeOK /\ [Next]_vars => TypeOK'
<1> SUFFICES ASSUME TypeOK, [Next]_vars PROVE TypeOK'
  OBVIOUS
<1>1. CASE UNCHANGED vars
  BY <1>1 DEF TypeOK, APITypeOK, CacheTypeOK, vars, conn, api
<1>2. CASE Next
  BY <1>2, EnvironmentTyped, ReceiveTyped, HandleTyped DEF Next
<1> QED BY <1>1, <1>2

(* The state is always well typed: every answer, cache entry and list of   *)
(* namespaces that a request works with is one the code can build.         *)
THEOREM TypeCorrect == Spec => []TypeOK
BY InitTyped, TypeStep, PTL DEF Spec

-----------------------------------------------------------------------------
(* What a step leaves alone *)

Same(d) ==
    /\ pc'[d] = pc[d] /\ req'[d] = req[d]
    /\ keys'[d] = keys[d] /\ order'[d] = order[d]
    /\ todo'[d] = todo[d] /\ allowed'[d] = allowed[d]
    /\ answer'[d] = answer[d]
    /\ asOf'[d] = asOf[d] /\ answeredAt'[d] = answeredAt[d]

(* One connection's step leaves the API server and the other connections   *)
(* alone, and only lengthens the longest time a request took.              *)
LEMMA HandleFrame ==
    ASSUME TypeOK, NEW c \in Conns, Handle(c)
    PROVE  /\ UNCHANGED <<api, matcher, req>>
           /\ InFlight(c)
           /\ \A d \in Conns \ {c} : Same(d)
           /\ longest' >= longest
<1> USE DEF TypeOK, APITypeOK, InFlight, Same
<1>1. ASSUME NEW a, NEW since, Reply(c, a, since)
      PROVE  /\ UNCHANGED <<api, matcher, req>>
             /\ \A d \in Conns \ {c} : Same(d)
             /\ longest' >= longest
  BY <1>1 DEF Reply
<1>2. ASSUME Evaluating,
             \/ \E a : Conclude(c, a)
             \/ \E there : GoTo(c, there)
             \/ \E ns : ReviewAll(c, ns)
      PROVE  /\ UNCHANGED <<api, matcher, req>>
             /\ \A d \in Conns \ {c} : Same(d)
             /\ longest' >= longest
  BY <1>2 DEF Evaluating, Conclude, GoTo, ReviewAll
<1>3. CASE Hit(c) \/ LookupFails(c) \/ CallFails(c) \/ AnswerFails(c) \/ Store(c)
  BY <1>1, <1>3 DEF Hit, LookupFails, CallFails, AnswerFails, Store
<1>4. CASE \/ Miss(c) \/ ReviewCluster(c) \/ ListForCluster(c)
           \/ ListForMetadata(c) \/ Decide(c)
  BY <1>2, <1>4 DEF Miss, ReviewCluster, ListForCluster, ListForMetadata, Decide
<1>5. ASSUME NEW n \in Namespaces, ReviewNamespace(c, n)
      PROVE  /\ UNCHANGED <<api, matcher, req>>
             /\ InFlight(c)
             /\ \A d \in Conns \ {c} : Same(d)
             /\ longest' >= longest
  BY <1>5 DEF ReviewNamespace, Evaluating
<1> QED BY <1>3, <1>4, <1>5 DEF Handle

(* Neither does receiving a request touch them. *)
LEMMA ReceiveFrame ==
    ASSUME TypeOK, NEW c \in Conns, Receive(c)
    PROVE  /\ UNCHANGED <<api, cache, longest>>
           /\ \A d \in Conns \ {c} : Same(d)
BY DEF Receive, Admit, Reject, TypeOK, Same

-----------------------------------------------------------------------------
(* The matcher of a request *)

(* Selecting the matcher of a request and migrating it gives the keys that *)
(* the flags promise, and whoever gets the shared matcher leaves it as is. *)
LEMMA MatcherSelected ==
    ASSUME NEW q \in Inputs
    PROVE  LET m   == ForRequest(MatcherKeys, q)
               own == IF ViaQToOTELMigration THEN Migrate(m.keys, q) ELSE m.keys
           IN own = PromisedKeys(q) /\ (m.shared => own = MatcherKeys)
<1>1. CASE ViaQToOTELMigration
  BY <1>1 DEF ForRequest, Migrate, Exempt, PromisedKeys
<1>2. CASE ~ViaQToOTELMigration
  BY <1>2 DEF ForRequest, Migrate, Exempt, PromisedKeys
<1> QED BY <1>1, <1>2

(* A request in flight has the matcher and namespaces of its own input     *)
(* whatever other requests do to theirs.                                   *)
LEMMA RequestsStep ==
    ASSUME TypeOK, RequestsOK, [Next]_vars
    PROVE  RequestsOK'
<1>1. CASE UNCHANGED <<matcher, pc, conn>>
  BY <1>1 DEF RequestsOK, RequestOK, InFlight, conn
<1>2. ASSUME NEW c \in Conns, NEW q \in Inputs, Admit(c, q)
      PROVE  RequestsOK'
  <2>1. matcher' = MatcherKeys /\ keys'[c] = PromisedKeys(q)
    BY <1>2, MatcherSelected DEF Admit, RequestsOK, TypeOK
  <2>2. req'[c] = q /\ Valid(q) /\ order'[c] \in Orders(Requested(q))
    BY <1>2 DEF Admit, TypeOK
  <2>3. \A d \in Conns \ {c} : Same(d)
    BY <1>2, ReceiveFrame DEF Receive
  <2> QED BY <2>1, <2>2, <2>3 DEF RequestsOK, RequestOK, InFlight, Same
<1>3. ASSUME NEW c \in Conns, NEW q \in Inputs, Reject(c, q)
      PROVE  RequestsOK'
  <2>1. matcher' = matcher /\ pc'[c] = "answered"
    BY <1>3 DEF Reject, TypeOK
  <2>2. \A d \in Conns \ {c} : Same(d)
    BY <1>3, ReceiveFrame DEF Receive
  <2> QED BY <2>1, <2>2 DEF RequestsOK, RequestOK, InFlight, Same
<1>4. ASSUME NEW c \in Conns, Handle(c)
      PROVE  RequestsOK'
  <2>1. \/ pc'[c] = "answered"
        \/ UNCHANGED <<req, keys, order>>
    BY <1>4 DEF Handle, Hit, Miss, LookupFails, ReviewCluster, ListForCluster,
       ListForMetadata, ReviewNamespace, Decide, CallFails, AnswerFails, Store, Reply,
       Evaluating, TypeOK
  <2>2. /\ UNCHANGED <<matcher, req>> /\ InFlight(c)
        /\ \A d \in Conns \ {c} : Same(d)
    BY <1>4, HandleFrame
  <2> QED BY <2>1, <2>2 DEF RequestsOK, RequestOK, InFlight, Same
<1>5. CASE Environment
  BY <1>1, <1>5 DEF Environment
<1> QED BY <1>1, <1>2, <1>3, <1>4, <1>5 DEF Next, Receive, vars

-----------------------------------------------------------------------------
(* Time *)

(* What the API server said at or after time t stays said, whatever is     *)
(* granted or revoked afterwards.                                          *)
LEMMA PastKept ==
    ASSUME TypeOK, ClockOK, [Next]_vars, NEW t \in Nat, t <= now, NEW f
    PROVE  /\ TrueSince(f, t) => TrueSince(f, t)'
           /\ FalseSince(f, t) => FalseSince(f, t)'
<1> USE DEF TrueSince, FalseSince, TypeOK, APITypeOK, ClockOK
<1>1. CASE UNCHANGED api
  BY <1>1 DEF api
<1>2. CASE Tick
  BY <1>2 DEF Tick
<1>3. ASSUME NEW g \in Facts, Flip(g)
      PROVE  /\ TrueSince(f, t) => TrueSince(f, t)'
             /\ FalseSince(f, t) => FalseSince(f, t)'
  BY <1>3 DEF Flip
<1>4. (\E c \in Conns : Handle(c) \/ Receive(c)) => UNCHANGED api
  BY HandleFrame, ReceiveFrame DEF api
<1> QED BY <1>1, <1>2, <1>3, <1>4 DEF Next, Environment, vars

(* So an answer that is justified stays justified. *)
LEMMA AnswerKept ==
    ASSUME TypeOK, ClockOK, [Next]_vars, NEW t \in Nat, t <= now,
           NEW q, NEW a, AnswerOK(q, a, t)
    PROVE  AnswerOK(q, a, t)'
<1>1. \A f : /\ TrueSince(f, t) => TrueSince(f, t)'
             /\ FalseSince(f, t) => FalseSince(f, t)'
  BY PastKept
<1>2. \A n : /\ GrantedSince(q, n, t) => GrantedSince(q, n, t)'
             /\ RefusedSince(q, n, t) => RefusedSince(q, n, t)'
             /\ HiddenSince(q, n, t) => HiddenSince(q, n, t)'
  BY <1>1 DEF GrantedSince, RefusedSince, HiddenSince, Reviewed
<1>3. AllowJustified(q, a, t) => AllowJustified(q, a, t)'
  BY <1>1, <1>2 DEF AllowJustified
<1>4. DenialJustified(q, a, t) => DenialJustified(q, a, t)'
  BY <1>1, <1>2 DEF DenialJustified
<1> QED BY <1>3, <1>4 DEF AnswerOK, FormOK, Justified

LEMMA FitsKept ==
    ASSUME TypeOK, ClockOK, [Next]_vars, NEW t \in Nat, t <= now,
           NEW q, NEW a, Fits(q, a, t)
    PROVE  Fits(q, a, t)'
<1>1. PICK p \in Twins(q) : AnswerOK(p, a, t)
  BY DEF Fits
<1>2. AnswerOK(p, a, t)'
  BY <1>1, AnswerKept
<1> QED BY <1>2 DEF Fits

(* And so does what an evaluation has found out so far. *)
LEMMA ProgressKept ==
    ASSUME TypeOK, ClockOK, [Next]_vars, NEW t \in Nat, t <= now, NEW q
    PROVE  /\ \A ks : ListClusterOK(q, ks, t) => ListClusterOK(q, ks, t)'
           /\ ListMetaOK(q, t) => ListMetaOK(q, t)'
           /\ \A td, al : ReviewOK(q, td, al, t) => ReviewOK(q, td, al, t)'
<1>1. \A f : /\ TrueSince(f, t) => TrueSince(f, t)'
             /\ FalseSince(f, t) => FalseSince(f, t)'
  BY PastKept
<1>2. \A n : /\ GrantedSince(q, n, t) => GrantedSince(q, n, t)'
             /\ RefusedSince(q, n, t) => RefusedSince(q, n, t)'
             /\ Reviewed(q, n, t) => Reviewed(q, n, t)'
  BY <1>1 DEF GrantedSince, RefusedSince, Reviewed
<1>3. ASSUME NEW td, NEW al, ReviewOK(q, td, al, t)
      PROVE  ReviewOK(q, td, al, t)'
  BY <1>1, <1>2, <1>3 DEF ReviewOK
<1> QED BY <1>1, <1>3 DEF ListClusterOK, ListMetaOK

(* The stage of a connection that does not step stays justified. *)
LEMMA StageKept ==
    ASSUME TypeOK, ClockOK, [Next]_vars, NEW d \in Conns, StageOK(d), Same(d)
    PROVE  StageOK(d)'
<1>1. PICK q, t, a : q = req[d] /\ t = asOf[d] /\ a = answer[d]
  OBVIOUS
<1>2. t \in Nat /\ t <= now
  BY <1>1 DEF TypeOK, ClockOK
<1>3. /\ q = req'[d] /\ t = asOf'[d] /\ a = answer'[d] /\ pc'[d] = pc[d]
      /\ keys'[d] = keys[d] /\ todo'[d] = todo[d] /\ allowed'[d] = allowed[d]
  BY <1>1 DEF Same
<1>4. /\ AnswerOK(q, a, t) => AnswerOK(q, a, t)'
      /\ Fits(q, a, t) => Fits(q, a, t)'
  BY <1>2, AnswerKept, FitsKept
<1>5. /\ \A ks : ListClusterOK(q, ks, t) => ListClusterOK(q, ks, t)'
      /\ ListMetaOK(q, t) => ListMetaOK(q, t)'
      /\ \A td, al : ReviewOK(q, td, al, t) => ReviewOK(q, td, al, t)'
  BY <1>2, ProgressKept
<1> QED BY <1>1, <1>3, <1>4, <1>5 DEF StageOK, Answered

-----------------------------------------------------------------------------
(* Cache keys *)

(* What requests that may share answers have in common. *)
LEMMA TwinsAlike ==
    ASSUME NEW q, NEW p \in Twins(q)
    PROVE  /\ p \in Inputs /\ Valid(p)
           /\ Verb(p) = Verb(q) /\ p.metadataOnly = q.metadataOnly
           /\ p.tenant = q.tenant /\ p.resource = q.resource /\ Token(p) = Token(q)
           /\ p.user = q.user /\ p.groups = q.groups
           /\ PromisedKeys(p) = PromisedKeys(q)
           /\ \A n : AccessFact(p, n) = AccessFact(q, n)
<1>1. p \in Inputs /\ Valid(p) /\ Question(p) = Question(q)
  BY DEF Twins
<1> QED BY <1>1 DEF Question, AccessFact, Subject, APIGroup

(* A request that passed the checks may have the answer to itself. *)
LEMMA OwnTwin ==
    ASSUME NEW q \in Inputs, Valid(q), NEW o \in Orders(Requested(q))
    PROVE  q \in Twins(q)
BY DEF Twins

(* Two requests with one cache key ask the same, of namespaces that join   *)
(* to the same text, whatever else they differ in: which label names the   *)
(* namespaces, where the token came from (cache.go generateCacheKey,       *)
(* hashUserinfo, hashMatcher).                                             *)
THEOREM SameKeySameQuestion ==
    ASSUME NEW p \in Inputs, Valid(p), NEW o \in Orders(Requested(p)),
           NEW q \in Inputs, NEW r \in Orders(Requested(q)),
           CacheKey(p, o, PromisedKeys(p)) = CacheKey(q, r, PromisedKeys(q))
    PROVE  p \in Twins(q)
<1>1. /\ Verb(p) = Verb(q) /\ p.metadataOnly = q.metadataOnly
      /\ p.resource = q.resource /\ p.tenant = q.tenant
      /\ Joined(o) = Joined(r) /\ Token(p) = Token(q)
      /\ p.user = q.user /\ p.groups = q.groups
      /\ PromisedKeys(p) = PromisedKeys(q)
  BY DEF CacheKey
<1>2. Question(p) = Question(q)
  BY <1>1 DEF Question
<1> QED BY <1>1, <1>2 DEF Twins

(* Where no name is blank or holds a colon, such requests are for the same *)
(* namespaces, so that an answer to one of them is an answer to the other. *)
LEMMA PlainTwins ==
    ASSUME NEW q \in Inputs, Plain(q), NEW p \in Twins(q), Plain(p),
           NEW a, NEW t, AnswerOK(p, a, t)
    PROVE  AnswerOK(q, a, t)
<1>0. /\ p \in Inputs /\ Verb(p) = Verb(q) /\ p.metadataOnly = q.metadataOnly
      /\ Token(p) = Token(q) /\ PromisedKeys(p) = PromisedKeys(q)
  BY TwinsAlike
<1>1. \A n : AccessFact(p, n) = AccessFact(q, n)
  BY TwinsAlike
<1>2. PICK o \in Orders(Requested(p)), r \in Orders(Requested(q)) :
          Joined(o) = Joined(r)
  BY DEF Twins
<1>3. Requested(p) = Requested(q)
  <2>1. o \in Seq(Namespaces) /\ r \in Seq(Namespaces)
    BY <1>0, OrdersType
  <2>2. /\ Requested(p) = {o[i] : i \in DOMAIN o}
        /\ Requested(q) = {r[i] : i \in DOMAIN r}
    BY DEF Orders
  <2>3. /\ \A i \in DOMAIN o : o[i] # ClusterWide /\ Pieces[o[i]] = <<o[i]>>
        /\ \A i \in DOMAIN r : r[i] # ClusterWide /\ Pieces[r[i]] = <<r[i]>>
    BY <2>2 DEF Plain
  <2>4. o = r
    BY <1>2, <2>1, <2>3, PlainListsToldApart
  <2> QED BY <2>2, <2>4
<1>4. FormOK(q, a)
  BY <1>0, <1>3 DEF AnswerOK, FormOK
<1>5. ClusterFact(p) = ClusterFact(q)
  BY <1>1 DEF ClusterFact
<1>6. \A n : /\ GrantedSince(p, n, t) <=> GrantedSince(q, n, t)
             /\ RefusedSince(p, n, t) <=> RefusedSince(q, n, t)
             /\ HiddenSince(p, n, t) <=> HiddenSince(q, n, t)
  BY <1>0, <1>1, <1>3, <1>5 DEF GrantedSince, RefusedSince, HiddenSince, Reviewed
<1>7. AllowJustified(p, a, t) => AllowJustified(q, a, t)
  BY <1>0, <1>5, <1>6 DEF AllowJustified
<1>8. DenialJustified(p, a, t) => DenialJustified(q, a, t)
  BY <1>0, <1>5, <1>6 DEF DenialJustified
<1> QED BY <1>4, <1>7, <1>8 DEF AnswerOK, Justified

-----------------------------------------------------------------------------
(* What the calls to the API server show *)

(* What holds now held since any earlier time, and the other way round.    *)
LEMMA Observed ==
    ASSUME NEW q, NEW n, NEW t
    PROVE  /\ AccessReview(q, n) /\ Reviewed(q, n, t) => GrantedSince(q, n, t)
           /\ ~AccessReview(q, n) => FalseSince(AccessFact(q, n), t)
           /\ AccessReview(q, ClusterWide) => TrueSince(ClusterFact(q), t)
           /\ ~AccessReview(q, ClusterWide) => FalseSince(ClusterFact(q), t)
           /\ n \in ListNamespaces(q) => TrueSince(ProjectFact(Token(q), n), t)
           /\ n \in Namespaces \ ListNamespaces(q) =>
                 FalseSince(ProjectFact(Token(q), n), t)
BY DEF AccessReview, GrantedSince, ClusterFact, TrueSince, FalseSince, ListNamespaces

(* The fields of the two kinds of answers. *)
LEMMA AnswerFields ==
    /\ \A b : LET a == MinimalDataResponse(b)
             IN  /\ a.status = 200 /\ a.allowed = b
                 /\ a.keys = {} /\ a.namespaces = {}
    /\ \A ns, ks : LET a == NewDataResponse(ns, ks)
                  IN  /\ a.status = 200 /\ (a.allowed <=> ns # {})
                      /\ a.keys = ks
                      /\ a.namespaces = IF ks = {} THEN {} ELSE ns
BY DEF MinimalDataResponse, NewDataResponse, Failure

(* The reviews of all namespaces justify the answer they lead to. *)
LEMMA DecideJustified ==
    ASSUME NEW q \in Inputs, NEW al \in SUBSET Namespaces, NEW t,
           ReviewOK(q, {}, al, t)
    PROVE  AnswerOK(q, IF al = {} THEN MinimalDataResponse(FALSE)
                                  ELSE NewDataResponse(al, PromisedKeys(q)), t)
<1>1. CASE al = {}
  <2>1. \A n \in Namespaces : RefusedSince(q, n, t)
    BY <1>1 DEF ReviewOK
  <2>2. DenialJustified(q, MinimalDataResponse(FALSE), t)
    BY <2>1 DEF ReviewOK, DenialJustified
  <2> QED BY <1>1, <2>2, AnswerFields DEF AnswerOK, FormOK, Justified
<1>2. CASE al # {}
  <2> DEFINE a == NewDataResponse(al, PromisedKeys(q))
  <2>1. /\ a.status = 200 /\ a.allowed /\ a.keys = PromisedKeys(q)
        /\ a.namespaces = IF PromisedKeys(q) = {} THEN {} ELSE al
    BY <1>2, AnswerFields
  <2> HIDE DEF a
  <2>2. AllowJustified(q, a, t)
    BY <1>2, <2>1 DEF ReviewOK, AllowJustified
  <2>3. FormOK(q, a)
    BY <1>2, <2>1 DEF ReviewOK, FormOK, GrantedSince, Reviewed
  <2>4. AnswerOK(q, a, t)
    BY <2>1, <2>2, <2>3 DEF AnswerOK, Justified
  <2> QED BY <1>2, <2>4 DEF a
<1> QED BY <1>1, <1>2

(* So does the cluster-wide review, when it suffices for an answer, *)
LEMMA ClusterJustified ==
    ASSUME NEW q \in Inputs, NEW t, NEW ok,
           ok = AccessReview(q, ClusterWide),
           \/ Verb(q) = "create"
           \/ Verb(q) = "get" /\ ok /\ PromisedKeys(q) = {}
    PROVE  AnswerOK(q, MinimalDataResponse(ok), t)
<1> DEFINE a == MinimalDataResponse(ok)
<1>1. a.status = 200 /\ a.allowed = ok /\ a.keys = {} /\ a.namespaces = {}
  BY AnswerFields
<1> HIDE DEF a
<1>2. Justified(q, a, t)
  BY <1>1, Observed DEF Justified, AllowJustified, DenialJustified
<1>3. FormOK(q, a)
  BY <1>1 DEF FormOK
<1> QED BY <1>1, <1>2, <1>3 DEF AnswerOK, a

(* the list of projects of somebody with cluster-wide access, *)
LEMMA ListJustified ==
    ASSUME NEW q \in Inputs, NEW t, ListClusterOK(q, PromisedKeys(q), t), NEW S,
           S = IF Requested(q) = {} THEN ListNamespaces(q)
                                    ELSE ListNamespaces(q) \cap Requested(q)
    PROVE  AnswerOK(q, NewDataResponse(S, PromisedKeys(q)), t)
<1> DEFINE a == NewDataResponse(S, PromisedKeys(q))
<1>1. /\ a.status = 200 /\ (a.allowed <=> S # {}) /\ a.keys = PromisedKeys(q)
      /\ a.namespaces = S
  BY AnswerFields DEF ListClusterOK
<1> HIDE DEF a
<1>2. \A n \in Namespaces \ S : HiddenSince(q, n, t)
  <2> SUFFICES ASSUME NEW n \in Namespaces, n \notin S,
                      Requested(q) = {} \/ n \in Requested(q)
               PROVE  FalseSince(ProjectFact(Token(q), n), t)
    BY DEF HiddenSince
  <2>1. n \notin ListNamespaces(q)
    OBVIOUS
  <2> QED BY <2>1, Observed
<1>3. Justified(q, a, t)
  <2>1. CASE S # {}
    BY <1>1, <1>2, <2>1, Observed DEF ListClusterOK, Justified, AllowJustified
  <2>2. CASE S = {}
    BY <1>1, <1>2, <2>2 DEF ListClusterOK, Justified, DenialJustified
  <2> QED BY <2>1, <2>2
<1>4. FormOK(q, a)
  BY <1>1 DEF FormOK, ListClusterOK
<1> QED BY <1>1, <1>3, <1>4 DEF AnswerOK, a

(* and the empty list of projects of somebody without. *)
LEMMA NoProjectsJustified ==
    ASSUME NEW q \in Inputs, NEW t, ListMetaOK(q, t), ListNamespaces(q) = {}
    PROVE  AnswerOK(q, MinimalDataResponse(FALSE), t)
<1>1. \A n \in Namespaces : RefusedSince(q, n, t)
  BY Observed DEF ListMetaOK, RefusedSince
<1>2. DenialJustified(q, MinimalDataResponse(FALSE), t)
  BY <1>1 DEF ListMetaOK, DenialJustified
<1> QED BY <1>2, AnswerFields DEF AnswerOK, FormOK, Justified

-----------------------------------------------------------------------------
(* Ages *)

LEMMA MaxAgeType == MaxAge \in Nat
BY CacheAssumption DEF MaxAge

(* The ages of entries and answers after connection c gives an answer that *)
(* rests on reviews made for a request that arrived at time since.         *)
LEMMA ReplyAges ==
    ASSUME TypeOK, TypeOK', ClockOK, AgesOK, NEW c \in Conns,
           NEW a, NEW since \in Nat, since <= now, Reply(c, a, since),
           Expires /\ a.status = 200 => since >= now - MaxAge - longest',
           \A k \in DOMAIN cache' :
              /\ cache'[k].setAt <= now
              /\ cache'[k].since <= cache'[k].setAt
              /\ cache'[k].setAt - cache'[k].since <= longest'
    PROVE  ClockOK' /\ AgesOK'
<1>0. /\ now \in Nat /\ longest \in Nat /\ longest' \in Nat
      /\ \A d \in Conns : asOf[d] \in Nat /\ answeredAt[d] \in Nat
      /\ \A f \in Facts : flipped[f] <= now
  BY DEF TypeOK, APITypeOK, ClockOK
<1>1. now' = now /\ flipped' = flipped /\ longest' >= longest
  BY <1>0 DEF Reply, api
<1>2. /\ pc'[c] = "answered" /\ answer'[c] = a /\ asOf'[c] = since
      /\ answeredAt'[c] = now
      /\ \A d \in Conns \ {c} :
            /\ pc'[d] = pc[d] /\ answer'[d] = answer[d]
            /\ asOf'[d] = asOf[d] /\ answeredAt'[d] = answeredAt[d]
  BY DEF TypeOK, Reply
<1>3. ClockOK'
  BY <1>0, <1>1, <1>2 DEF ClockOK
<1>4. Expires => \A d \in Conns : Answered(d)' =>
          asOf'[d] >= answeredAt'[d] - MaxAge - longest'
  <2> SUFFICES ASSUME Expires, NEW d \in Conns, Answered(d)'
               PROVE  asOf'[d] >= answeredAt'[d] - MaxAge - longest'
    OBVIOUS
  <2>1. CASE d = c
    BY <1>1, <1>2, <2>1 DEF Answered
  <2>2. CASE d # c
    <3>1. asOf[d] >= answeredAt[d] - MaxAge - longest
      BY <1>2, <2>2 DEF Answered, AgesOK
    <3>2. asOf[d] \in Nat /\ answeredAt[d] \in Nat /\ MaxAge \in Nat
      BY <1>0, MaxAgeType
    <3> QED BY <1>0, <1>1, <1>2, <2>2, <3>1, <3>2
  <2> QED BY <2>1, <2>2
<1> QED BY <1>1, <1>3, <1>4 DEF AgesOK

(* Nothing comes from the future, no entry is older when it is set than    *)
(* the longest request, and no answer is older than that plus the TTL.     *)
LEMMA AgesStep ==
    ASSUME TypeOK, TypeOK', ClockOK, AgesOK, [Next]_vars
    PROVE  ClockOK' /\ AgesOK'
<1>0. /\ now \in Nat /\ now' \in Nat /\ longest \in Nat /\ longest' \in Nat
      /\ \A d \in Conns : asOf[d] \in Nat /\ answeredAt[d] \in Nat
      /\ \A f \in Facts : flipped[f] \in Int
      /\ flipped \in [Facts -> Nat \cup {-1}]
      /\ \A k \in DOMAIN cache : cache[k].setAt \in Nat /\ cache[k].since \in Nat
  BY DEF TypeOK, APITypeOK, CacheTypeOK
<1>1. CASE UNCHANGED vars
  BY <1>1 DEF vars, conn, api, ClockOK, AgesOK, Answered
<1>2. CASE Environment
  <2>1. UNCHANGED <<pc, answer, asOf, answeredAt, longest>>
    BY <1>2 DEF Environment, conn
  <2>2. CASE Tick /\ UNCHANGED cache
    <3>1. now' = now + 1 /\ cache' = cache /\ flipped' = flipped
      BY <2>2 DEF Tick
    <3>2. ClockOK'
      BY <1>0, <2>1, <3>1 DEF ClockOK
    <3>3. AgesOK'
      BY <1>0, <2>1, <3>1 DEF AgesOK, Answered
    <3> QED BY <3>2, <3>3
  <2>3. ASSUME NEW f \in Facts, Flip(f), UNCHANGED cache
        PROVE  ClockOK' /\ AgesOK'
    BY <1>0, <2>1, <2>3 DEF Flip, ClockOK, AgesOK, Answered
  <2>4. ASSUME NEW k \in DOMAIN cache, Evict(k), UNCHANGED api
        PROVE  ClockOK' /\ AgesOK'
    BY <2>1, <2>4 DEF Evict, api, ClockOK, AgesOK, Answered
  <2> QED BY <1>2, <2>2, <2>3, <2>4 DEF Environment
<1>3. ASSUME NEW c \in Conns, Receive(c)
      PROVE  ClockOK' /\ AgesOK'
  <2>1. UNCHANGED <<api, cache, longest>> /\ \A d \in Conns \ {c} : Same(d)
    BY <1>3, ReceiveFrame
  <2>2. asOf'[c] = now /\ answeredAt'[c] = now /\ ~Answered(c)'
    BY <1>3 DEF TypeOK, Receive, Admit, Reject, Answered, Failure
  <2>3. ClockOK'
    BY <1>0, <2>1, <2>2 DEF Same, ClockOK, api
  <2>4. AgesOK'
    BY <2>1, <2>2 DEF Same, AgesOK, Answered, api
  <2> QED BY <2>3, <2>4
<1>4. ASSUME NEW c \in Conns, Handle(c)
      PROVE  ClockOK' /\ AgesOK'
  <2>1. asOf[c] \in Nat /\ asOf[c] <= now /\ now \in Nat
    BY <1>0 DEF ClockOK
  <2>2. ASSUME NEW a, NEW since, Reply(c, a, since)
        PROVE  longest' >= longest /\ longest' >= now - asOf[c]
    BY <1>0, <2>1, <2>2 DEF Reply
  <2>3. CASE Hit(c)
    <3> DEFINE e == cache[Key(c)]
    <3>1. Live(Key(c)) /\ Reply(c, e.answer, e.since) /\ cache' = cache
      BY <2>3 DEF Hit, AfterHit
    <3>2. /\ e.since \in Nat /\ e.setAt \in Nat
          /\ e.since <= e.setAt /\ e.setAt <= now
          /\ e.setAt - e.since <= longest
      BY <1>0, <3>1 DEF Live, AgesOK
    <3>3. longest' >= longest
      BY <2>2, <3>1
    <3>4. Expires => e.since >= now - MaxAge - longest'
      BY <1>0, <3>1, <3>2, <3>3, CacheAssumption DEF Live, MaxAge
    <3>5. \A k \in DOMAIN cache' :
              /\ cache'[k].setAt <= now
              /\ cache'[k].since <= cache'[k].setAt
              /\ cache'[k].setAt - cache'[k].since <= longest'
      BY <1>0, <3>1, <3>3 DEF AgesOK
    <3>6. e.since <= now
      BY <2>1, <3>2
    <3> HIDE DEF e
    <3> QED BY <3>1, <3>2, <3>4, <3>5, <3>6, ReplyAges
  <2>4. CASE LookupFails(c) \/ CallFails(c) \/ AnswerFails(c) \/ Store(c)
    <3>1. PICK a : Reply(c, a, asOf[c])
      BY <2>4 DEF LookupFails, CallFails, AnswerFails, Store
    <3>2. longest' >= longest /\ longest' >= now - asOf[c]
      BY <2>2, <3>1
    <3>3. asOf[c] >= now - MaxAge - longest'
      BY <1>0, <2>1, <3>2, MaxAgeType
    <3>4. \/ cache' = cache
          \/ cache' = Saved(Key(c), answer[c], asOf[c])
      BY <2>4 DEF LookupFails, CallFails, AnswerFails, Store
    <3>5. \A k \in DOMAIN cache' :
              /\ cache'[k].setAt <= now
              /\ cache'[k].since <= cache'[k].setAt
              /\ cache'[k].setAt - cache'[k].since <= longest'
      <4>1. CASE cache' = cache
        BY <1>0, <3>2, <4>1 DEF AgesOK
      <4>2. CASE cache' = Saved(Key(c), answer[c], asOf[c])
        <5> SUFFICES ASSUME NEW k \in DOMAIN cache'
                     PROVE  /\ cache'[k].setAt <= now
                            /\ cache'[k].since <= cache'[k].setAt
                            /\ cache'[k].setAt - cache'[k].since <= longest'
          OBVIOUS
        <5>1. CASE k = Key(c)
          <6>1. cache'[k].setAt = now /\ cache'[k].since = asOf[c]
            BY <4>2, <5>1 DEF Saved
          <6> QED BY <1>0, <2>1, <3>2, <6>1
        <5>2. CASE k # Key(c)
          <6>1. k \in DOMAIN cache /\ cache'[k] = cache[k]
            BY <4>2, <5>2 DEF Saved
          <6> QED BY <1>0, <3>2, <6>1 DEF AgesOK
        <5> QED BY <5>1, <5>2
      <4> QED BY <3>4, <4>1, <4>2
    <3> QED BY <2>1, <3>1, <3>3, <3>5, ReplyAges
  <2>5. ASSUME Evaluating, pc'[c] # "answered",
               \A d \in Conns \ {c} : Same(d)
        PROVE  ClockOK' /\ AgesOK'
    <3>1. ClockOK'
      BY <2>5 DEF Evaluating, ClockOK, api
    <3>2. AgesOK'
      BY <2>5 DEF Evaluating, Same, AgesOK, Answered, api
    <3> QED BY <3>1, <3>2
  <2>6. CASE \/ Miss(c) \/ ReviewCluster(c) \/ ListForCluster(c)
             \/ ListForMetadata(c) \/ (\E n \in Namespaces : ReviewNamespace(c, n))
             \/ Decide(c)
    <3>1. Evaluating /\ pc'[c] # "answered"
      BY <2>6 DEF TypeOK, Miss, ReviewCluster, ListForCluster, ListForMetadata,
         ReviewNamespace, Decide, Conclude, GoTo, ReviewAll
    <3> QED BY <1>4, <3>1, <2>5, HandleFrame
  <2> QED BY <1>4, <2>3, <2>4, <2>6 DEF Handle
<1> QED BY <1>1, <1>2, <1>3, <1>4 DEF Next

-----------------------------------------------------------------------------
(* Stages *)

(* An answer that is justified when it is given is so afterwards. *)
LEMMA ReplyStage ==
    ASSUME TypeOK, ClockOK, [Next]_vars, NEW c \in Conns,
           NEW a, NEW t \in Nat, t <= now, Reply(c, a, t),
           a.status = 200 => Fits(req[c], a, t)
    PROVE  StageOK(c)'
<1>1. PICK q : q = req[c]
  OBVIOUS
<1>2. a.status = 200 => Fits(q, a, t)'
  BY <1>1, FitsKept
<1>3. /\ pc'[c] = "answered" /\ req'[c] = q /\ answer'[c] = a /\ asOf'[c] = t
      /\ allowed'[c] = {}
  BY <1>1 DEF Reply, TypeOK
<1> QED BY <1>2, <1>3 DEF StageOK, Answered

(* So is one that the evaluation comes to. *)
LEMMA ConcludeStage ==
    ASSUME TypeOK, ClockOK, [Next]_vars, NEW c \in Conns,
           NEW a, Conclude(c, a), Evaluating, AnswerOK(req[c], a, asOf[c])
    PROVE  StageOK(c)'
<1>1. PICK q, t : q = req[c] /\ t = asOf[c]
  OBVIOUS
<1>2. t \in Nat /\ t <= now
  BY <1>1 DEF TypeOK, ClockOK
<1>3. AnswerOK(q, a, t)'
  BY <1>1, <1>2, AnswerKept
<1>4. /\ pc'[c] = "store" /\ req'[c] = q /\ answer'[c] = a /\ asOf'[c] = t
      /\ allowed'[c] = {}
  BY <1>1 DEF Conclude, Evaluating, TypeOK
<1> QED BY <1>3, <1>4 DEF StageOK, Answered

(* A list of projects is fetched with what the cluster-wide review showed. *)
LEMMA GoToStage ==
    ASSUME TypeOK, ClockOK, [Next]_vars, NEW c \in Conns, NEW there,
           GoTo(c, there), Evaluating, allowed[c] = {},
           \/ there = "cluster"
           \/ there = "listCluster" /\ ListClusterOK(req[c], keys[c], asOf[c])
           \/ there = "listMeta" /\ ListMetaOK(req[c], asOf[c])
    PROVE  StageOK(c)'
<1>1. PICK q, ks, t : q = req[c] /\ ks = keys[c] /\ t = asOf[c]
  OBVIOUS
<1>2. t \in Nat /\ t <= now
  BY <1>1 DEF TypeOK, ClockOK
<1>3. /\ ListClusterOK(q, ks, t) => ListClusterOK(q, ks, t)'
      /\ ListMetaOK(q, t) => ListMetaOK(q, t)'
  BY <1>2, ProgressKept
<1>4. /\ pc'[c] = there /\ req'[c] = q /\ keys'[c] = ks /\ asOf'[c] = t
      /\ allowed'[c] = {}
  BY <1>1 DEF GoTo, Evaluating, TypeOK
<1> QED BY <1>1, <1>3, <1>4 DEF StageOK, Answered

(* Namespaces are reviewed with what the calls before have shown. *)
LEMMA ReviewStage ==
    ASSUME TypeOK, ClockOK, [Next]_vars, NEW c \in Conns,
           pc'[c] = "review", req'[c] = req[c], asOf'[c] = asOf[c],
           ReviewOK(req[c], todo'[c], allowed'[c], asOf[c])
    PROVE  StageOK(c)'
<1>1. PICK q, td, al, t : /\ q = req[c] /\ t = asOf[c]
                          /\ td = todo'[c] /\ al = allowed'[c]
  OBVIOUS
<1>2. t \in Nat /\ t <= now
  BY <1>1 DEF TypeOK, ClockOK
<1>3. ReviewOK(q, td, al, t)
  BY <1>1
<1>4. ReviewOK(q, td, al, t)'
  BY <1>2, <1>3, ProgressKept
<1> QED BY <1>1, <1>4 DEF StageOK, Answered

(* Each step of Authorize leaves its connection with what it has shown.    *)
LEMMA HandleStage ==
    ASSUME TypeOK, RequestsOK, ClockOK, AgesOK, EntriesOK, [Next]_vars,
           NEW c \in Conns, StageOK(c), Handle(c)
    PROVE  StageOK(c)'
<1> DEFINE q == req[c]
           t == asOf[c]
<1>0. /\ q \in Inputs /\ Valid(q) /\ keys[c] = PromisedKeys(q)
      /\ order[c] \in Orders(Requested(q))
      /\ t \in Nat /\ t <= now
  BY HandleFrame DEF TypeOK, RequestsOK, RequestOK, ClockOK
<1>1. CASE Hit(c)
  <2> DEFINE e == cache[Key(c)]
  <2>1. Key(c) \in DOMAIN cache /\ Reply(c, e.answer, e.since)
    BY <1>1 DEF Hit, Live
  <2>2. e.since \in Nat /\ e.since <= now
    <3>1. e.since \in Nat /\ e.setAt \in Nat /\ now \in Nat
      BY <2>1 DEF TypeOK, APITypeOK, CacheTypeOK
    <3>2. e.since <= e.setAt /\ e.setAt <= now
      BY <2>1 DEF AgesOK
    <3> QED BY <3>1, <3>2
  <2>3. Fits(q, e.answer, e.since)
    <3>1. PICK p \in Inputs :
              /\ Valid(p)
              /\ \E o \in Orders(Requested(p)) : Key(c) = CacheKey(p, o, PromisedKeys(p))
              /\ AnswerOK(p, e.answer, e.since)
      BY <2>1 DEF EntriesOK
    <3>2. p \in Twins(q)
      BY <1>0, <3>1, SameKeySameQuestion DEF Key
    <3> QED BY <3>1, <3>2 DEF Fits
  <2> HIDE DEF e
  <2> QED BY <2>1, <2>2, <2>3, ReplyStage
<1>2. CASE Miss(c)
  BY <1>2, GoToStage DEF Miss, StageOK
<1>3. CASE LookupFails(c)
  BY <1>0, <1>3, ReplyStage DEF LookupFails, Failure
<1>4. CASE ReviewCluster(c)
  <2> DEFINE ok == AccessReview(q, ClusterWide)
  <2>0. Evaluating /\ pc[c] = "cluster" /\ allowed[c] = {}
    BY <1>4 DEF ReviewCluster, StageOK
  <2>1. ASSUME Conclude(c, MinimalDataResponse(ok)),
               \/ Verb(q) = "create"
               \/ Verb(q) = "get" /\ ok /\ keys[c] = {}
        PROVE  StageOK(c)'
    <3>1. AnswerOK(q, MinimalDataResponse(ok), t)
      BY <1>0, <2>1, ClusterJustified
    <3> QED BY <2>0, <2>1, <3>1, ConcludeStage
  <2>2. ASSUME Verb(q) = "get", ok, keys[c] # {}, GoTo(c, "listCluster")
        PROVE  StageOK(c)'
    <3>1. ListClusterOK(q, keys[c], t)
      BY <2>2, Observed DEF ListClusterOK
    <3> QED BY <2>0, <2>2, <3>1, GoToStage
  <2>3. ASSUME Verb(q) = "get", ~ok, q.metadataOnly, Requested(q) = {},
               GoTo(c, "listMeta")
        PROVE  StageOK(c)'
    <3>1. ListMetaOK(q, t)
      BY <2>3, Observed DEF ListMetaOK
    <3> QED BY <2>0, <2>3, <3>1, GoToStage
  <2>4. ASSUME Verb(q) = "get", ~ok, ~q.metadataOnly \/ Requested(q) # {},
               ReviewAll(c, Requested(q))
        PROVE  StageOK(c)'
    <3>1. ReviewOK(q, Requested(q), {}, t)
      BY <2>4, Observed DEF ReviewOK, RefusedSince, Reviewed
    <3>2. /\ pc'[c] = "review" /\ todo'[c] = Requested(q) /\ allowed'[c] = {}
          /\ req'[c] = q /\ asOf'[c] = t
      BY <2>0, <2>4 DEF ReviewAll, Evaluating, TypeOK
    <3> QED BY <3>1, <3>2, ReviewStage
  <2>5. ok => ok = TRUE
    BY ClientTyped
  <2> QED BY <1>4, <2>1, <2>2, <2>3, <2>4, <2>5 DEF ReviewCluster
<1>5. CASE ListForCluster(c)
  <2> DEFINE S == IF Requested(q) = {} THEN ListNamespaces(q)
                                       ELSE ListNamespaces(q) \cap Requested(q)
  <2>1. Conclude(c, NewDataResponse(S, PromisedKeys(q))) /\ Evaluating
    BY <1>0, <1>5 DEF ListForCluster
  <2>2. ListClusterOK(q, PromisedKeys(q), t)
    BY <1>0, <1>5 DEF ListForCluster, StageOK
  <2>3. AnswerOK(q, NewDataResponse(S, PromisedKeys(q)), t)
    BY <1>0, <2>2, ListJustified
  <2> QED BY <2>1, <2>3, ConcludeStage
<1>6. CASE ListForMetadata(c)
  <2>0. Evaluating /\ ListMetaOK(q, t) /\ allowed[c] = {}
    BY <1>6 DEF ListForMetadata, StageOK
  <2>1. ASSUME ListNamespaces(q) = {}, Conclude(c, MinimalDataResponse(FALSE))
        PROVE  StageOK(c)'
    <3>1. AnswerOK(q, MinimalDataResponse(FALSE), t)
      BY <1>0, <2>0, <2>1, NoProjectsJustified
    <3> QED BY <2>0, <2>1, <3>1, ConcludeStage
  <2>2. ASSUME ReviewAll(c, ListNamespaces(q))
        PROVE  StageOK(c)'
    <3>1. ReviewOK(q, ListNamespaces(q), {}, t)
      <4>1. \A n \in ListNamespaces(q) : Reviewed(q, n, t)
        BY <2>0, Observed DEF ListMetaOK, Reviewed
      <4>2. \A n \in Namespaces \ ListNamespaces(q) : RefusedSince(q, n, t)
        BY <2>0, Observed DEF ListMetaOK, RefusedSince
      <4> QED BY <2>0, <4>1, <4>2 DEF ReviewOK, ListMetaOK
    <3>2. /\ pc'[c] = "review" /\ todo'[c] = ListNamespaces(q)
          /\ allowed'[c] = {} /\ req'[c] = q /\ asOf'[c] = t
      BY <2>0, <2>2 DEF ReviewAll, Evaluating, TypeOK
    <3> QED BY <3>1, <3>2, ReviewStage
  <2> QED BY <1>6, <2>1, <2>2 DEF ListForMetadata
<1>7. ASSUME NEW n \in Namespaces, ReviewNamespace(c, n)
      PROVE  StageOK(c)'
  <2>0. /\ ReviewOK(q, todo[c], allowed[c], t) /\ n \in todo[c]
        /\ pc'[c] = "review" /\ req'[c] = q /\ asOf'[c] = t
        /\ todo'[c] = todo[c] \ {n}
        /\ allowed'[c] = IF AccessReview(q, n) THEN allowed[c] \cup {n}
                                               ELSE allowed[c]
    BY <1>7 DEF ReviewNamespace, Evaluating, TypeOK, StageOK
  <2>1. CASE AccessReview(q, n)
    <3>1. GrantedSince(q, n, t)
      BY <2>0, <2>1, Observed DEF ReviewOK
    <3>2. ReviewOK(q, todo[c] \ {n}, allowed[c] \cup {n}, t)
      BY <2>0, <3>1 DEF ReviewOK
    <3> QED BY <2>0, <2>1, <3>2, ReviewStage
  <2>2. CASE ~AccessReview(q, n)
    <3>1. RefusedSince(q, n, t)
      BY <2>2, Observed DEF RefusedSince
    <3>2. ReviewOK(q, todo[c] \ {n}, allowed[c], t)
      BY <2>0, <3>1 DEF ReviewOK
    <3> QED BY <2>0, <2>2, <3>2, ReviewStage
  <2> QED BY <2>1, <2>2
<1>8. CASE Decide(c)
  <2> DEFINE a == IF allowed[c] = {} THEN MinimalDataResponse(FALSE)
                                     ELSE NewDataResponse(allowed[c], PromisedKeys(q))
  <2>1. Conclude(c, a) /\ Evaluating /\ ReviewOK(q, {}, allowed[c], t)
    BY <1>0, <1>8 DEF Decide, StageOK
  <2>2. AnswerOK(q, a, t)
    BY <1>0, <2>1, DecideJustified DEF TypeOK
  <2> QED BY <2>1, <2>2, ConcludeStage
<1>9. CASE CallFails(c) \/ AnswerFails(c)
  BY <1>0, <1>9, ReplyStage DEF CallFails, AnswerFails, Failure
<1>10. CASE Store(c)
  <2>1. Reply(c, answer[c], t) /\ AnswerOK(q, answer[c], t)
    BY <1>10 DEF Store, StageOK
  <2>2. Fits(q, answer[c], t)
    BY <1>0, <2>1, OwnTwin DEF Fits
  <2> QED BY <1>0, <2>1, <2>2, ReplyStage
<1> QED BY <1>1, <1>2, <1>3, <1>4, <1>5, <1>6, <1>7, <1>8, <1>9, <1>10 DEF Handle

(* Receiving a request drops what was known for the one before. *)
LEMMA ReceiveStage ==
    ASSUME TypeOK, NEW c \in Conns, StageOK(c), Receive(c)
    PROVE  StageOK(c)'
<1>1. allowed[c] = {} /\ allowed' = allowed
  BY DEF Receive, Admit, Reject, Free, StageOK
<1>2. \/ pc'[c] = "lookup"
      \/ pc'[c] = "answered" /\ answer'[c].status # 200
  BY DEF TypeOK, Receive, Admit, Reject, Failure
<1> QED BY <1>1, <1>2 DEF StageOK, Answered

-----------------------------------------------------------------------------
(* Cache entries *)

(* An entry stays the answer to the request that it was the answer to, and *)
(* one that is saved is the answer to the request that saves it.           *)
LEMMA EntriesStep ==
    ASSUME TypeOK, RequestsOK, ClockOK, AgesOK, EntriesOK, [Next]_vars,
           \A c \in Conns : StageOK(c)
    PROVE  EntriesOK'
<1> DEFINE Looks(q, k) ==
               /\ Valid(q)
               /\ \E o \in Orders(Requested(q)) : k = CacheKey(q, o, PromisedKeys(q))
<1> SUFFICES ASSUME NEW k \in DOMAIN cache'
             PROVE  \E q \in Inputs :
                       /\ Looks(q, k)
                       /\ AnswerOK(q, cache[k].answer, cache[k].since)'
  BY DEF EntriesOK
<1>1. CASE k \in DOMAIN cache /\ cache'[k] = cache[k]
  <2>1. PICK a, t : a = cache[k].answer /\ t = cache[k].since
    OBVIOUS
  <2>2. PICK q \in Inputs : Looks(q, k) /\ AnswerOK(q, a, t)
    BY <1>1, <2>1 DEF EntriesOK
  <2>3. t \in Nat /\ t <= now
    <3>1. t \in Nat /\ cache[k].setAt \in Nat /\ now \in Nat
      BY <1>1, <2>1 DEF TypeOK, APITypeOK, CacheTypeOK
    <3>2. t <= cache[k].setAt /\ cache[k].setAt <= now
      BY <1>1, <2>1 DEF AgesOK
    <3> QED BY <3>1, <3>2
  <2>4. AnswerOK(q, a, t)'
    BY <2>2, <2>3, AnswerKept
  <2> QED BY <1>1, <2>1, <2>2, <2>4
<1>2. ASSUME NEW c \in Conns, Store(c), k = Key(c),
             cache' = Saved(k, answer[c], asOf[c])
      PROVE  \E q \in Inputs :
                /\ Looks(q, k)
                /\ AnswerOK(q, cache[k].answer, cache[k].since)'
  <2>1. PICK q, a, t : q = req[c] /\ a = answer[c] /\ t = asOf[c]
    OBVIOUS
  <2>2. a = cache'[k].answer /\ t = cache'[k].since
    BY <1>2, <2>1 DEF Saved
  <2>3. t \in Nat /\ t <= now
    BY <2>1 DEF TypeOK, ClockOK
  <2>4. AnswerOK(q, a, t)
    BY <1>2, <2>1 DEF Store, StageOK
  <2>5. q \in Inputs /\ Looks(q, k)
    BY <1>2, <2>1 DEF Store, TypeOK, RequestsOK, RequestOK, InFlight, Key
  <2>6. AnswerOK(q, a, t)'
    BY <2>3, <2>4, AnswerKept
  <2> QED BY <2>2, <2>5, <2>6
<1>3. \/ k \in DOMAIN cache /\ cache'[k] = cache[k]
      \/ \E c \in Conns : /\ Store(c) /\ k = Key(c)
                          /\ cache' = Saved(k, answer[c], asOf[c])
  <2>1. CASE UNCHANGED cache
    BY <2>1
  <2>2. ASSUME NEW x \in DOMAIN cache, Evict(x)
        PROVE  k \in DOMAIN cache /\ cache'[k] = cache[k]
    BY <2>2 DEF Evict
  <2>3. ASSUME NEW c \in Conns, Store(c), cache' = Saved(Key(c), answer[c], asOf[c])
        PROVE  \/ k \in DOMAIN cache /\ cache'[k] = cache[k]
               \/ k = Key(c)
    BY <2>3 DEF Saved
  <2>4. ASSUME NEW c \in Conns, Handle(c) \/ Receive(c)
        PROVE  \/ UNCHANGED cache
               \/ Store(c) /\ cache' = Saved(Key(c), answer[c], asOf[c])
    BY <2>4 DEF Handle, Receive, Admit, Reject, Hit, AfterHit, Miss, LookupFails,
       ReviewCluster, ListForCluster, ListForMetadata, ReviewNamespace, Decide,
       CallFails, AnswerFails, Store, Evaluating
  <2> QED BY <2>1, <2>2, <2>3, <2>4 DEF Next, Environment, vars
<1> QED BY <1>1, <1>2, <1>3

-----------------------------------------------------------------------------
(* The invariant *)

LEMMA InitInv == Init => IInv
<1> SUFFICES ASSUME Init PROVE IInv
  OBVIOUS
<1>1. TypeOK
  BY InitTyped
<1>2. RequestsOK
  BY DEF Init, RequestsOK, RequestOK, InFlight
<1>3. ClockOK
  BY DEF Init, APIInit, ClockOK
<1>4. \A c \in Conns : StageOK(c)
  BY DEF Init, StageOK, Answered
<1>5. EntriesOK /\ AgesOK
  BY DEF Init, EntriesOK, AgesOK, Answered
<1> QED BY <1>1, <1>2, <1>3, <1>4, <1>5 DEF IInv

(* IInv is inductive. *)
LEMMA InvStep == IInv /\ [Next]_vars => IInv'
<1> SUFFICES ASSUME IInv, [Next]_vars PROVE IInv'
  OBVIOUS
<1>0. /\ TypeOK /\ RequestsOK /\ ClockOK /\ EntriesOK /\ AgesOK
      /\ \A c \in Conns : StageOK(c)
  BY DEF IInv
<1>1. TypeOK'
  BY <1>0, TypeStep
<1>2. RequestsOK'
  BY <1>0, RequestsStep
<1>3. ClockOK' /\ AgesOK'
  BY <1>0, <1>1, AgesStep
<1>4. ASSUME NEW c \in Conns
      PROVE  StageOK(c)'
  <2>1. CASE Same(c)
    BY <1>0, <2>1, StageKept
  <2>2. CASE Handle(c)
    BY <1>0, <2>2, HandleStage
  <2>3. CASE Receive(c)
    BY <1>0, <2>3, ReceiveStage
  <2>4. Environment \/ UNCHANGED vars => Same(c)
    BY DEF Environment, vars, conn, Same
  <2>5. \A d \in Conns \ {c} : Handle(d) \/ Receive(d) => Same(c)
    BY <1>0, HandleFrame, ReceiveFrame
  <2> QED BY <2>1, <2>2, <2>3, <2>4, <2>5 DEF Next
<1>5. EntriesOK'
  BY <1>0, EntriesStep
<1> QED BY <1>1, <1>2, <1>3, <1>4, <1>5 DEF IInv

(* At every moment each evaluation rests on what the API server has said   *)
(* since its request arrived, and each cache entry is the right answer to  *)
(* a request that looks it up (authorizer.go Authorize, authorizeInner;    *)
(* cache.go).                                                              *)
THEOREM Invariance == Spec => []IInv
BY InitInv, InvStep, PTL DEF Spec

-----------------------------------------------------------------------------
(* What follows from it *)

(* A justification as of some moment is one as of any earlier moment. *)
LEMMA JustifiedEarlier ==
    ASSUME APITypeOK, NEW q, NEW a, NEW t \in Int, NEW u \in Int, u <= t,
           Justified(q, a, t)
    PROVE  Justified(q, a, u)
<1>1. \A f \in Facts : flipped[f] \in Int /\ (flipped[f] >= t => flipped[f] >= u)
  BY DEF APITypeOK
<1>2. \A f : /\ TrueSince(f, t) => TrueSince(f, u)
             /\ FalseSince(f, t) => FalseSince(f, u)
  BY <1>1 DEF APITypeOK, TrueSince, FalseSince
<1>3. \A n : /\ GrantedSince(q, n, t) => GrantedSince(q, n, u)
             /\ RefusedSince(q, n, t) => RefusedSince(q, n, u)
             /\ HiddenSince(q, n, t) => HiddenSince(q, n, u)
  BY <1>2 DEF GrantedSince, RefusedSince, HiddenSince, Reviewed
<1>4. AllowJustified(q, a, t) => AllowJustified(q, a, u)
  BY <1>2, <1>3 DEF AllowJustified
<1>5. DenialJustified(q, a, t) => DenialJustified(q, a, u)
  BY <1>2, <1>3 DEF DenialJustified
<1> QED BY <1>4, <1>5 DEF Justified

(* Nobody is ever told "yes" without the API server having granted it to   *)
(* exactly that caller, since the request arrived that it was asked for,   *)
(* for the namespaces of the request or others with the same text.         *)
THEOREM AllowsCorrect == Spec => []AllowsAreJustified
<1>1. IInv => AllowsAreJustified
  BY DEF IInv, StageOK, Fits, AnswerOK, Justified, AllowsAreJustified
<1> QED BY <1>1, Invariance, PTL

(* Nobody is ever told "no" without the API server having refused that     *)
(* caller the namespaces of the request, or others with the same text.     *)
THEOREM DenialsCorrect == Spec => []DenialsAreJustified
<1>1. IInv => DenialsAreJustified
  BY DEF IInv, StageOK, Fits, AnswerOK, Justified, DenialsAreJustified
<1> QED BY <1>1, Invariance, PTL

(* An allowed read constrains exactly the label keys the flags promise.    *)
THEOREM MatcherCorrect == Spec => []MatcherApplied
<1>1. IInv => MatcherApplied
  <2> SUFFICES ASSUME IInv, NEW c \in Conns, Answered(c), answer[c].allowed
               PROVE  answer[c].keys =
                        IF Verb(req[c]) = "get" THEN PromisedKeys(req[c]) ELSE {}
    BY DEF MatcherApplied
  <2>1. PICK p \in Twins(req[c]) : FormOK(p, answer[c])
    BY DEF IInv, StageOK, Fits, AnswerOK
  <2> QED BY <2>1, TwinsAlike DEF FormOK
<1> QED BY <1>1, Invariance, PTL

(* What the flags leave of the keys for a request that is not exempt.      *)
LEMMA PromiseKept ==
    ASSUME NEW q \in Inputs, MatcherKeys # {}, ~Exempt(q)
    PROVE  PromisedKeys(q) # {}
<1> DEFINE dropped == IF q.selectors[OTELLabel] = {} THEN OTELLabel ELSE ViaQLabel
<1>1. PICK k \in MatcherKeys : ViaQToOTELMigration => k # dropped
  BY MatcherAssumption
<1>2. q.tenant \notin SkipTenants /\ \A g \in q.groups : g \notin AdminGroups
  BY DEF Exempt
<1> QED BY <1>1, <1>2 DEF PromisedKeys

(* A read without any constraint is allowed to the exempt only.            *)
THEOREM UnconstrainedCorrect == Spec => []UnconstrainedOnlyIfExempt
<1>1. IInv => UnconstrainedOnlyIfExempt
  <2> SUFFICES ASSUME IInv, NEW c \in Conns,
                      Answered(c), answer[c].allowed, answer[c].keys = {},
                      Verb(req[c]) = "get", MatcherKeys # {}
               PROVE  Exempt(req[c])
    BY DEF UnconstrainedOnlyIfExempt
  <2>1. req[c] \in Inputs
    BY DEF IInv, TypeOK
  <2>2. PromisedKeys(req[c]) = {}
    <3>1. PICK p \in Twins(req[c]) : FormOK(p, answer[c])
      BY DEF IInv, StageOK, Fits, AnswerOK
    <3> QED BY <3>1, TwinsAlike DEF FormOK
  <2> QED BY <2>1, <2>2, PromiseKept
<1> QED BY <1>1, Invariance, PTL

(* A request that names namespaces is never answered with any other one    *)
(* than those that it or a request with the same joined text names.        *)
THEOREM NeverWidenedCorrect == Spec => []NeverWidened
<1>1. IInv => NeverWidened
  BY DEF IInv, StageOK, Fits, AnswerOK, FormOK, NeverWidened
<1> QED BY <1>1, Invariance, PTL

(* No answer is older than an entry gets plus the longest request took.    *)
THEOREM StalenessCorrect == Spec => []BoundedStaleness
<1>1. IInv => BoundedStaleness
  <2> SUFFICES ASSUME IInv, Expires, NEW c \in Conns, Answered(c)
               PROVE  \E p \in Twins(req[c]) :
                         Justified(p, answer[c], answeredAt[c] - MaxAge - longest)
    BY DEF BoundedStaleness
  <2> DEFINE u == answeredAt[c] - MaxAge - longest
  <2>1. asOf[c] \in Int /\ u \in Int /\ APITypeOK
    BY MaxAgeType DEF IInv, TypeOK
  <2>2. u <= asOf[c]
    BY <2>1 DEF IInv, AgesOK
  <2>3. PICK p \in Twins(req[c]) : Justified(p, answer[c], asOf[c])
    BY DEF IInv, StageOK, Fits, AnswerOK
  <2> HIDE DEF u
  <2>4. Justified(p, answer[c], u)
    BY <2>1, <2>2, <2>3, JustifiedEarlier
  <2> QED BY <2>4 DEF u
<1> QED BY <1>1, Invariance, PTL

(* Where no name is blank or holds a colon, all this is true of the very   *)
(* request that gets the answer (cache.go generateCacheKey).               *)
THEOREM PlainAnswersExact == Spec => []AnswersAreExact
<1>1. IInv => AnswersAreExact
  <2> SUFFICES ASSUME IInv, \A q \in Inputs : Plain(q), NEW c \in Conns, Answered(c)
               PROVE  AnswerOK(req[c], answer[c], asOf[c])
    BY DEF AnswersAreExact
  <2>1. PICK p \in Twins(req[c]) : AnswerOK(p, answer[c], asOf[c])
    BY DEF IInv, StageOK, Fits
  <2>2. req[c] \in Inputs /\ p \in Inputs
    BY TwinsAlike DEF IInv, TypeOK
  <2> QED BY <2>1, <2>2, PlainTwins
<1> QED BY <1>1, Invariance, PTL

-----------------------------------------------------------------------------
(* When access has not changed, what was said is what holds.               *)

LEMMA Settled ==
    ASSUME TypeOK, NEW t \in Int, QuietSince(t), NEW f
    PROVE  /\ TrueSince(f, t) <=> f \in holds
           /\ FalseSince(f, t) <=> f \notin holds
<1>1. \A g \in Facts : flipped[g] \in Int /\ flipped[g] < t
  BY DEF TypeOK, APITypeOK, QuietSince
<1>2. holds \subseteq Facts
  BY DEF TypeOK, APITypeOK
<1> QED BY <1>1, <1>2 DEF TrueSince, FalseSince

LEMMA SettledReviews ==
    ASSUME TypeOK, NEW q, NEW t \in Int, QuietSince(t), NEW n \in Namespaces
    PROVE  /\ ClusterFact(q) \notin holds =>
                /\ GrantedSince(q, n, t) => n \in Entitlement(q)
                /\ RefusedSince(q, n, t) => n \notin Entitlement(q)
           /\ ClusterFact(q) \in holds /\ HiddenSince(q, n, t) =>
                n \notin Entitlement(q)
<1>1. ASSUME ClusterFact(q) \notin holds, GrantedSince(q, n, t)
      PROVE  n \in Entitlement(q)
  BY <1>1, Settled DEF GrantedSince, Reviewed, Entitlement, ListNamespaces
<1>2. ASSUME ClusterFact(q) \notin holds, RefusedSince(q, n, t)
      PROVE  n \notin Entitlement(q)
  BY <1>2, Settled DEF RefusedSince, Entitlement, ListNamespaces
<1>3. ASSUME ClusterFact(q) \in holds, HiddenSince(q, n, t)
      PROVE  n \notin Entitlement(q)
  BY <1>3, Settled DEF HiddenSince, Entitlement, ListNamespaces
<1> QED BY <1>1, <1>2, <1>3

(* An answer that was right then is the one that is right now.             *)
LEMMA QuietAnswer ==
    ASSUME TypeOK, NEW q \in Inputs, NEW a \in Answer, NEW t \in Int,
           QuietSince(t), AnswerOK(q, a, t)
    PROVE  /\ a.allowed = Entitled(q)
           /\ a.allowed /\ a.keys # {} => a.namespaces = Entitlement(q)
<1> DEFINE listed == a.allowed /\ a.keys # {}
<1>0. /\ a.namespaces \subseteq Namespaces /\ a.allowed \in BOOLEAN
      /\ Verb(q) \in {"get", "create"}
      /\ Entitlement(q) \subseteq Namespaces
  BY DEF Answer, Verb, Entitlement, ListNamespaces
<1>1. /\ TrueSince(ClusterFact(q), t) <=> ClusterFact(q) \in holds
      /\ FalseSince(ClusterFact(q), t) <=> ClusterFact(q) \notin holds
  BY Settled
<1>2. /\ a.allowed => a.keys = IF Verb(q) = "get" THEN PromisedKeys(q) ELSE {}
      /\ Requested(q) # {} => a.namespaces \subseteq Requested(q)
      /\ a.namespaces # {} <=> listed
      /\ IF a.allowed THEN AllowJustified(q, a, t) ELSE DenialJustified(q, a, t)
  BY DEF AnswerOK, FormOK, Justified
<1>3. CASE a.allowed /\ ClusterFact(q) \in holds
  <2>1. a.namespaces \subseteq Entitlement(q)
    BY <1>0, <1>1, <1>2, <1>3, Settled DEF AllowJustified, Entitlement, ListNamespaces
  <2>2. listed => Entitlement(q) \subseteq a.namespaces
    BY <1>0, <1>1, <1>2, <1>3, SettledReviews DEF AllowJustified
  <2>3. Entitled(q)
    BY <1>0, <1>2, <1>3, <2>1, <2>2 DEF Entitled
  <2> QED BY <1>3, <2>1, <2>2, <2>3
<1>4. CASE a.allowed /\ ClusterFact(q) \notin holds
  <2>1. /\ Verb(q) = "get"
        /\ \A n \in a.namespaces : GrantedSince(q, n, t)
        /\ \E n \in Namespaces : GrantedSince(q, n, t)
        /\ a.keys # {} => \A n \in Namespaces \ a.namespaces : RefusedSince(q, n, t)
    BY <1>1, <1>2, <1>4 DEF AllowJustified
  <2>2. a.namespaces \subseteq Entitlement(q)
    BY <1>0, <1>4, <2>1, SettledReviews
  <2>3. listed => Entitlement(q) \subseteq a.namespaces
    BY <1>0, <1>4, <2>1, SettledReviews
  <2>4. Entitled(q)
    BY <1>4, <2>1, SettledReviews DEF Entitled
  <2> QED BY <1>4, <2>2, <2>3, <2>4
<1>5. CASE ~a.allowed /\ ClusterFact(q) \in holds
  <2>1. /\ Verb(q) = "get" /\ PromisedKeys(q) # {}
        /\ \A n \in Namespaces : HiddenSince(q, n, t)
    BY <1>1, <1>2, <1>5 DEF DenialJustified
  <2>2. Entitlement(q) = {}
    BY <1>0, <1>5, <2>1, SettledReviews
  <2>3. Entitled(q) = FALSE
    BY <1>5, <2>1, <2>2 DEF Entitled
  <2>4. a.allowed = FALSE
    BY <1>0, <1>5
  <2> QED BY <2>3, <2>4, Zenon
<1>6. CASE ~a.allowed /\ ClusterFact(q) \notin holds
  <2>1. Verb(q) = "get" => \A n \in Namespaces : RefusedSince(q, n, t)
    BY <1>1, <1>2, <1>6 DEF DenialJustified
  <2>2. Verb(q) = "get" => Entitlement(q) = {}
    BY <1>0, <1>6, <2>1, SettledReviews
  <2>3. Entitled(q) = FALSE
    BY <1>6, <2>2 DEF Entitled
  <2>4. a.allowed = FALSE
    BY <1>0, <1>6
  <2> QED BY <2>3, <2>4, Zenon
<1> QED BY <1>0, <1>3, <1>4, <1>5, <1>6

(* After quiet times an answer is exactly what the access that holds       *)
(* entitles to, from the cache or not and whoever it was asked for: for    *)
(* the namespaces of the request, or others with the same text.            *)
THEOREM CurrentCorrect == Spec => []AnswersAreCurrent
<1>1. IInv => AnswersAreCurrent
  <2> DEFINE u(c) == answeredAt[c] - MaxAge - longest
  <2> SUFFICES ASSUME IInv, Expires, NEW c \in Conns, Answered(c), QuietSince(u(c))
               PROVE  \E p \in Twins(req[c]) :
                         /\ answer[c].allowed = Entitled(p)
                         /\ answer[c].allowed /\ answer[c].keys # {} =>
                               answer[c].namespaces = Entitlement(p)
    BY DEF AnswersAreCurrent
  <2>1. /\ TypeOK /\ asOf[c] \in Int /\ u(c) \in Int
        /\ req[c] \in Inputs /\ answer[c] \in Answer
    BY MaxAgeType DEF IInv, TypeOK
  <2>2. u(c) <= asOf[c]
    BY <2>1 DEF IInv, AgesOK
  <2>3. \A f \in Facts : flipped[f] \in Int
    BY <2>1 DEF TypeOK, APITypeOK
  <2>4. QuietSince(asOf[c])
    BY <2>1, <2>2, <2>3 DEF QuietSince
  <2>5. PICK p \in Twins(req[c]) : AnswerOK(p, answer[c], asOf[c])
    BY DEF IInv, StageOK, Fits
  <2>6. p \in Inputs
    BY TwinsAlike
  <2> QED BY <2>1, <2>4, <2>5, <2>6, QuietAnswer
<1> QED BY <1>1, Invariance, PTL

-----------------------------------------------------------------------------
(* What the cache may hold *)

(* Every entry is the answer to a question that can be asked, under the    *)
(* key that every request asking it looks up: the cache in memory, which   *)
(* nothing bounds, is bounded by the questions.                            *)
THEOREM EntriesCorrect == Spec => []EntriesCanBeFound
<1>1. IInv => EntriesCanBeFound
  BY DEF IInv, EntriesOK, EntriesCanBeFound
<1> QED BY <1>1, Invariance, PTL

-----------------------------------------------------------------------------
(* Progress *)

(* A step of its goroutine takes an evaluation to a later stage, or a      *)
(* review off its list.                                                    *)
LEMMA HandleAdvances ==
    ASSUME TypeOK, NEW c \in Conns, Handle(c)
    PROVE  \/ Stage(pc'[c]) > Stage(pc[c])
           \/ pc'[c] = pc[c] /\ todo'[c] \subseteq todo[c] /\ todo'[c] # todo[c]
<1> USE DEF Stage, TypeOK
<1>1. CASE Hit(c) \/ LookupFails(c) \/ CallFails(c) \/ AnswerFails(c) \/ Store(c)
  BY <1>1 DEF Hit, LookupFails, CallFails, AnswerFails, Store, Reply
<1>2. /\ \A a : Conclude(c, a) => pc'[c] = "store"
      /\ \A there : GoTo(c, there) => pc'[c] = there
      /\ \A ns : ReviewAll(c, ns) => pc'[c] = "review"
  BY DEF Conclude, GoTo, ReviewAll
<1>3. CASE Miss(c) \/ ListForCluster(c) \/ ListForMetadata(c) \/ Decide(c)
  <2>1. \/ pc[c] = "lookup" /\ pc'[c] = "cluster"
        \/ pc[c] \in {"listCluster", "listMeta"} /\ pc'[c] \in {"review", "store"}
        \/ pc[c] = "review" /\ pc'[c] = "store"
    <3>1. CASE Miss(c)
      BY <1>2, <3>1 DEF Miss
    <3>2. CASE ListForCluster(c)
      BY <1>2, <3>2 DEF ListForCluster
    <3>3. CASE ListForMetadata(c)
      BY <1>2, <3>3 DEF ListForMetadata
    <3>4. CASE Decide(c)
      BY <1>2, <3>4 DEF Decide
    <3> QED BY <1>3, <3>1, <3>2, <3>3, <3>4
  <2> QED BY <2>1
<1>4. CASE ReviewCluster(c)
  <2>1. pc[c] = "cluster" /\ pc'[c] \in {"store", "listCluster", "listMeta", "review"}
    BY <1>2, <1>4 DEF ReviewCluster
  <2> QED BY <2>1
<1>5. CASE \E n \in Namespaces : ReviewNamespace(c, n)
  BY <1>5 DEF ReviewNamespace
<1> QED BY <1>1, <1>3, <1>4, <1>5 DEF Handle

(* An evaluation only ever goes forward: between them its stage and its    *)
(* list of reviews bound the calls that it makes.                          *)
THEOREM AdvanceCorrect == Spec => EvaluationsAdvance
<1>1. ASSUME TypeOK, [Next]_vars, NEW c \in Conns, Stage(pc[c]) \in 1 .. 5
      PROVE  \/ Stage(pc'[c]) > Stage(pc[c])
             \/ pc'[c] = pc[c] /\ todo'[c] \subseteq todo[c] /\ todo'[c] # todo[c]
             \/ /\ pc'[c] = pc[c] /\ todo'[c] = todo[c]
                /\ allowed'[c] = allowed[c] /\ answer'[c] = answer[c]
  <2>1. ~Receive(c)
    BY <1>1 DEF Receive, Admit, Reject, Free, Stage
  <2>2. \A d \in Conns \ {c} : Handle(d) \/ Receive(d) => Same(c)
    BY <1>1, HandleFrame, ReceiveFrame
  <2>3. Environment \/ UNCHANGED vars => Same(c)
    BY DEF Environment, vars, conn, Same
  <2> QED BY <1>1, <2>1, <2>2, <2>3, HandleAdvances DEF Next, Same
<1>2. TypeOK /\ [Next]_vars =>
        \A c \in Conns : Stage(pc[c]) \in 1 .. 5 =>
          \/ Stage(pc'[c]) > Stage(pc[c])
          \/ pc'[c] = pc[c] /\ todo'[c] \subseteq todo[c] /\ todo'[c] # todo[c]
          \/ /\ pc'[c] = pc[c] /\ todo'[c] = todo[c]
             /\ allowed'[c] = allowed[c] /\ answer'[c] = answer[c]
  BY <1>1
<1> QED BY <1>2, TypeCorrect, PTL DEF Spec, EvaluationsAdvance

=============================================================================
