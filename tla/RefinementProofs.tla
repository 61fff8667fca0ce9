-------------------------- MODULE RefinementProofs --------------------------
(***************************************************************************)
(* Proof that Authorizer implements AccessOracle, for any number of        *)
(* connections, any inputs, any facts, any TTL and both cache backends.    *)
(***************************************************************************)
EXTENDS AuthorizerRefinement, AuthorizerProofs

(* The abstract values of the variables, named for the proofs. *)
busyNow == {c \in Conns : InFlight(c)}
answerNow == [c \in Conns |-> IF InFlight(c) THEN Pending ELSE answer[c]]
sinceNow == [c \in Conns |-> IF InFlight(c) THEN asOf[c] ELSE 0]

-----------------------------------------------------------------------------
(* The oracle speaks of the same things in the same words. *)

LEMMA SameData ==
    /\ Oracle!Answer = Answer
    /\ Oracle!Pending = Pending
    /\ \A status : Oracle!Failure(status) = Failure(status)
    /\ \A q : Oracle!Valid(q) = Valid(q)
BY DEF Oracle!Answer, Answer, Oracle!Pending, Pending, Oracle!Failure, Failure,
       Oracle!Valid, Valid, Oracle!Token, Token

LEMMA SameFacts ==
    ASSUME NEW q
    PROVE  /\ \A n : Oracle!AccessFact(q, n) = AccessFact(q, n)
           /\ \A n : Oracle!ProjectFact(Oracle!Token(q), n) = ProjectFact(Token(q), n)
           /\ \A f, t : Oracle!TrueSince(f, t) = TrueSince(f, t)
           /\ \A f, t : Oracle!FalseSince(f, t) = FalseSince(f, t)
           /\ Oracle!Requested(q) = Requested(q)
           /\ Oracle!Verb(q) = Verb(q)
           /\ Oracle!PromisedKeys(q) = PromisedKeys(q)
           /\ Oracle!ClusterFact(q) = ClusterFact(q)
BY DEF Oracle!AccessFact, AccessFact, Oracle!ProjectFact, ProjectFact,
       Oracle!Token, Token, Oracle!Subject, Subject, Oracle!Verb, Verb,
       Oracle!APIGroup, APIGroup, Oracle!TrueSince, TrueSince,
       Oracle!FalseSince, FalseSince, Oracle!Requested, Requested,
       Oracle!PromisedKeys, PromisedKeys, Oracle!ClusterFact, ClusterFact,
       Oracle!ViaQLabel, ViaQLabel, Oracle!OTELLabel, OTELLabel

LEMMA SameJudgement ==
    ASSUME NEW q, NEW a, NEW t
    PROVE  Oracle!AnswerOK(q, a, t) = AnswerOK(q, a, t)
<1>1. \A n : Oracle!Reviewed(q, n, t) = Reviewed(q, n, t)
  BY SameFacts DEF Oracle!Reviewed, Reviewed
<1>2. \A n : Oracle!GrantedSince(q, n, t) = GrantedSince(q, n, t)
  BY <1>1, SameFacts DEF Oracle!GrantedSince, GrantedSince
<1>3. \A n : Oracle!RefusedSince(q, n, t) = RefusedSince(q, n, t)
  BY SameFacts DEF Oracle!RefusedSince, RefusedSince
<1>4. \A n : Oracle!HiddenSince(q, n, t) = HiddenSince(q, n, t)
  BY SameFacts DEF Oracle!HiddenSince, HiddenSince
<1>5. Oracle!AllowJustified(q, a, t) = AllowJustified(q, a, t)
  BY <1>2, <1>3, <1>4, SameFacts DEF Oracle!AllowJustified, AllowJustified
<1>6. Oracle!DenialJustified(q, a, t) = DenialJustified(q, a, t)
  BY <1>3, <1>4, SameFacts DEF Oracle!DenialJustified, DenialJustified
<1>7. Oracle!FormOK(q, a) = FormOK(q, a)
  BY SameFacts DEF Oracle!FormOK, FormOK
<1> QED BY <1>5, <1>6, <1>7
        DEF Oracle!AnswerOK, AnswerOK, Oracle!Justified, Justified

LEMMA SameFit ==
    ASSUME NEW q, NEW a, NEW t
    PROVE  Oracle!Fits(q, a, t) = Fits(q, a, t)
<1>1. Oracle!Twins(q) = Twins(q)
  <2>1. \A o : Oracle!Joined(o) = Joined(o)
    <3>1. \A ss : Oracle!FlattenSeq(ss) = FlattenSeq(ss)
      BY Zenon DEF Oracle!FlattenSeq, FlattenSeq
    <3> QED BY <3>1 DEF Oracle!Joined, Joined
  <2>2. \A S : Oracle!Orders(S) = Orders(S)
    <3>1. \A S : Oracle!Cardinality(S) = Cardinality(S)
      BY Zenon DEF Oracle!Cardinality, Cardinality
    <3> QED BY <3>1 DEF Oracle!Orders, Orders
  <2>3. \A p : /\ Oracle!Question(p) = Question(p)
               /\ Oracle!Valid(p) = Valid(p)
               /\ Oracle!Requested(p) = Requested(p)
    BY SameData, SameFacts DEF Oracle!Question, Question, Oracle!Token, Token
  <2> QED BY <2>1, <2>2, <2>3 DEF Oracle!Twins, Twins
<1>2. \A p : Oracle!AnswerOK(p, a, t) = AnswerOK(p, a, t)
  BY SameJudgement
<1> QED BY <1>1, <1>2 DEF Oracle!Fits, Fits

-----------------------------------------------------------------------------
(* Steps *)

(* A step of Authorize goes on, or replies: with an error, or with an      *)
(* answer that is right as of a moment that is not in the future.          *)
LEMMA HandleOutcome ==
    ASSUME IInv, NEW c \in Conns, Handle(c)
    PROVE  \/ InFlight(c)' /\ asOf'[c] = asOf[c] /\ longest' = longest
           \/ \E status \in {401, 500} : Reply(c, Failure(status), asOf[c])
           \/ \E a \in Answer, t \in Nat :
                 Reply(c, a, t) /\ t <= now /\ a.status = 200 /\ Fits(req[c], a, t)
<1> DEFINE goesOn == InFlight(c)' /\ asOf'[c] = asOf[c] /\ longest' = longest
<1>0. /\ TypeOK /\ StageOK(c) /\ RequestOK(c) /\ EntriesOK /\ ClockOK /\ AgesOK
      /\ req[c] \in Inputs
  BY DEF IInv, RequestsOK, TypeOK
<1>1. ASSUME Evaluating,
             \/ \E a : Conclude(c, a)
             \/ \E there \in {"cluster", "listCluster", "listMeta"} : GoTo(c, there)
             \/ \E ns : ReviewAll(c, ns)
      PROVE  goesOn
  BY <1>0, <1>1 DEF Evaluating, Conclude, GoTo, ReviewAll, InFlight, TypeOK
<1>2. CASE \/ Miss(c) \/ ReviewCluster(c) \/ ListForCluster(c)
           \/ ListForMetadata(c) \/ Decide(c)
  <2>1. goesOn
    BY <1>1, <1>2 DEF Miss, ReviewCluster, ListForCluster, ListForMetadata, Decide
  <2> QED BY <2>1
<1>3. ASSUME NEW n \in Namespaces, ReviewNamespace(c, n)
      PROVE  goesOn
  BY <1>3 DEF ReviewNamespace, Evaluating, InFlight
<1>4. CASE LookupFails(c) \/ CallFails(c) \/ AnswerFails(c)
  BY <1>4 DEF LookupFails, CallFails, AnswerFails
<1>5. CASE Store(c)
  <2>1. /\ Reply(c, answer[c], asOf[c]) /\ AnswerOK(req[c], answer[c], asOf[c])
        /\ answer[c] \in Answer /\ asOf[c] \in Nat /\ asOf[c] <= now
    BY <1>0, <1>5 DEF Store, StageOK, TypeOK, ClockOK
  <2>2. req[c] \in Twins(req[c])
    BY <1>0, <1>5, OwnTwin DEF Store, RequestOK, InFlight
  <2> QED BY <2>1, <2>2 DEF Fits, AnswerOK
<1>6. CASE Hit(c)
  <2> DEFINE e == cache[Key(c)]
  <2>1. Key(c) \in DOMAIN cache /\ Reply(c, e.answer, e.since) /\ InFlight(c)
    BY <1>6 DEF Hit, Live, InFlight
  <2>2. e.answer \in Answer /\ e.since \in Nat /\ e.setAt \in Nat /\ now \in Nat
    BY <1>0, <2>1 DEF TypeOK, APITypeOK, CacheTypeOK
  <2>3. e.since <= e.setAt /\ e.setAt <= now
    BY <1>0, <2>1 DEF AgesOK
  <2>4. e.answer.status = 200 /\ Fits(req[c], e.answer, e.since)
    <3>1. PICK p \in Inputs :
              /\ Valid(p)
              /\ \E o \in Orders(Requested(p)) : Key(c) = CacheKey(p, o, PromisedKeys(p))
              /\ AnswerOK(p, e.answer, e.since)
      BY <1>0, <2>1 DEF EntriesOK
    <3>2. p \in Twins(req[c])
      BY <1>0, <2>1, <3>1, SameKeySameQuestion DEF RequestOK, Key
    <3> QED BY <3>1, <3>2 DEF Fits, AnswerOK
  <2> HIDE DEF e
  <2>5. e.since <= now
    BY <2>2, <2>3
  <2> QED BY <2>1, <2>2, <2>4, <2>5
<1> QED BY <1>2, <1>3, <1>4, <1>5, <1>6 DEF Handle

(* The step that replies is the one in which the oracle speaks. *)
LEMMA ReplySays ==
    ASSUME TypeOK, NEW c \in Conns, InFlight(c), NEW a, NEW t, Reply(c, a, t)
    PROVE  Oracle!Say(c, a)
<1>1. /\ pc' = [pc EXCEPT ![c] = "answered"] /\ answer' = [answer EXCEPT ![c] = a]
      /\ asOf' = [asOf EXCEPT ![c] = t] /\ UNCHANGED <<api, req>>
      /\ longest' = IF now - asOf[c] > longest THEN now - asOf[c] ELSE longest
      /\ pc \in [Conns -> PCs] /\ answer \in [Conns -> Answer]
      /\ asOf \in [Conns -> Nat]
  BY DEF Reply, TypeOK
<1>2. \A d \in Conns : InFlight(d)' <=> InFlight(d) /\ d # c
  BY <1>1 DEF InFlight
<1>3. c \in busyNow /\ busyNow' = busyNow \ {c}
  BY <1>2 DEF busyNow
<1>4. answerNow' = [answerNow EXCEPT ![c] = a]
  BY <1>1, <1>2 DEF answerNow
<1>5. sinceNow' = [sinceNow EXCEPT ![c] = 0] /\ sinceNow[c] = asOf[c]
  BY <1>1, <1>2 DEF sinceNow
<1> QED BY <1>1, <1>3, <1>4, <1>5
        DEF Oracle!Say, Oracle!api, api, busyNow, answerNow, sinceNow

(* A step of Authorize is invisible, a failure or an answer. *)
LEMMA HandleMaps ==
    ASSUME IInv, IInv', NEW c \in Conns, Handle(c)
    PROVE  Oracle!Fail(c) \/ Oracle!Tell(c) \/ UNCHANGED Oracle!vars
<1>0. /\ TypeOK /\ TypeOK' /\ AgesOK' /\ InFlight(c)
      /\ UNCHANGED <<api, req>> /\ \A d \in Conns \ {c} : Same(d)
  BY HandleFrame DEF IInv
<1>1. CASE InFlight(c)' /\ asOf'[c] = asOf[c] /\ longest' = longest
  <2>1. \A d \in Conns : /\ InFlight(d)' <=> InFlight(d)
                         /\ asOf'[d] = asOf[d]
                         /\ ~InFlight(d) => answer'[d] = answer[d]
    BY <1>0, <1>1 DEF InFlight, Same
  <2>2. busyNow' = busyNow /\ answerNow' = answerNow /\ sinceNow' = sinceNow
    BY <2>1 DEF busyNow, answerNow, sinceNow
  <2> QED BY <1>0, <1>1, <2>2
          DEF Oracle!vars, Oracle!asking, Oracle!api, api, busyNow, answerNow, sinceNow
<1>2. ASSUME NEW status \in {401, 500}, Reply(c, Failure(status), asOf[c])
      PROVE  Oracle!Fail(c)
  <2>1. Oracle!Say(c, Failure(status))
    BY <1>0, <1>2, ReplySays
  <2> QED BY <2>1, SameData DEF Oracle!Fail
<1>3. ASSUME NEW a \in Answer, NEW t \in Nat,
             Reply(c, a, t), t <= now, a.status = 200, Fits(req[c], a, t)
      PROVE  Oracle!Tell(c)
  <2>1. Oracle!Say(c, a)
    BY <1>0, <1>3, ReplySays
  <2>2. t \in 0 .. now
    BY <1>0, <1>3 DEF TypeOK, APITypeOK
  <2>3. Expires => t >= now - MaxAge - longest'
    <3>1. /\ pc'[c] = "answered" /\ answer'[c] = a /\ asOf'[c] = t
          /\ answeredAt'[c] = now
      BY <1>0, <1>3 DEF Reply, TypeOK
    <3>2. a.status = 200
      BY <1>3
    <3> QED BY <1>0, <3>1, <3>2 DEF AgesOK, Answered
  <2>4. Oracle!Fits(req[c], a, t)
    BY <1>3, SameFit
  <2> QED BY <2>1, <2>2, <2>3, <2>4, SameData DEF Oracle!Tell
<1> QED BY <1>1, <1>2, <1>3, HandleOutcome

(* Receiving a request asks the oracle, unless the request is turned down. *)
LEMMA ReceiveMaps ==
    ASSUME TypeOK, NEW c \in Conns, NEW q \in Inputs
    PROVE  /\ Admit(c, q) => Oracle!Ask(c, q)
           /\ Reject(c, q) => Oracle!TurnDown(c, q)
<1>0. /\ pc \in [Conns -> PCs] /\ answer \in [Conns -> Answer]
      /\ asOf \in [Conns -> Nat]
  BY DEF TypeOK
<1>1. ASSUME Admit(c, q)
      PROVE  Oracle!Ask(c, q)
  <2>1. /\ pc' = [pc EXCEPT ![c] = "lookup"] /\ req' = [req EXCEPT ![c] = q]
        /\ answer' = [answer EXCEPT ![c] = Pending]
        /\ asOf' = [asOf EXCEPT ![c] = now]
        /\ UNCHANGED <<api, longest>> /\ Valid(q) /\ Free(c)
    BY <1>1 DEF Admit
  <2>2. ~InFlight(c) /\ \A d \in Conns : InFlight(d)' <=> InFlight(d) \/ d = c
    BY <1>0, <2>1 DEF InFlight, Free
  <2>3. c \notin busyNow /\ busyNow' = busyNow \cup {c}
    BY <2>2 DEF busyNow
  <2>4. answerNow' = [answerNow EXCEPT ![c] = Pending]
    BY <1>0, <2>1, <2>2 DEF answerNow
  <2>5. sinceNow' = [sinceNow EXCEPT ![c] = now]
    BY <1>0, <2>1, <2>2 DEF sinceNow
  <2> QED BY <2>1, <2>3, <2>4, <2>5, SameData
          DEF Oracle!Ask, Oracle!api, api, busyNow, answerNow, sinceNow
<1>2. ASSUME Reject(c, q)
      PROVE  Oracle!TurnDown(c, q)
  <2>1. PICK status \in {400, 500} : answer' = [answer EXCEPT ![c] = Failure(status)]
    BY <1>2 DEF Reject
  <2>2. /\ pc' = [pc EXCEPT ![c] = "answered"] /\ req' = [req EXCEPT ![c] = q]
        /\ asOf' = [asOf EXCEPT ![c] = now]
        /\ UNCHANGED <<api, longest>> /\ Free(c)
    BY <1>2 DEF Reject
  <2>3. ~InFlight(c) /\ \A d \in Conns : InFlight(d)' <=> InFlight(d)
    BY <1>0, <2>2 DEF InFlight, Free
  <2>4. c \notin busyNow /\ busyNow' = busyNow
    BY <2>3 DEF busyNow
  <2>5. answerNow' = [answerNow EXCEPT ![c] = Failure(status)]
    <3>1. \A d \in Conns : (IF InFlight(d)' THEN Pending ELSE answer'[d])
                          = [answerNow EXCEPT ![c] = Failure(status)][d]
      BY <1>0, <2>1, <2>3 DEF answerNow
    <3> QED BY <3>1 DEF answerNow
  <2>6. sinceNow' = sinceNow
    BY <1>0, <2>2, <2>3 DEF sinceNow
  <2> QED BY <2>1, <2>2, <2>4, <2>5, <2>6, SameData
          DEF Oracle!TurnDown, Oracle!api, api, busyNow, answerNow, sinceNow
<1> QED BY <1>1, <1>2

(* What happens to the API server shows, what happens to the cache does not. *)
LEMMA EnvironmentMaps ==
    ASSUME Environment
    PROVE  Oracle!Environment \/ UNCHANGED Oracle!vars
<1>1. UNCHANGED <<pc, req, answer, asOf, longest>>
  BY DEF Environment, conn
<1>2. busyNow' = busyNow /\ answerNow' = answerNow /\ sinceNow' = sinceNow
  BY <1>1 DEF busyNow, answerNow, sinceNow, InFlight
<1>3. UNCHANGED Oracle!asking
  BY <1>1, <1>2 DEF Oracle!asking, busyNow, answerNow, sinceNow
<1>4. CASE Tick
  BY <1>3, <1>4 DEF Oracle!Environment, Oracle!Tick, Tick
<1>5. ASSUME NEW f \in Facts, Flip(f)
      PROVE  Oracle!Environment
  BY <1>3, <1>5 DEF Oracle!Environment, Oracle!Flip, Flip
<1>6. CASE UNCHANGED api
  BY <1>3, <1>6 DEF Oracle!vars, Oracle!api, api
<1> QED BY <1>4, <1>5, <1>6 DEF Environment

(* Every step of the request path is a step of the oracle or no step. *)
LEMMA StepMaps ==
    IInv /\ IInv' /\ [Next]_vars => [Oracle!Next]_(Oracle!vars)
<1> SUFFICES ASSUME IInv, IInv', [Next]_vars PROVE [Oracle!Next]_(Oracle!vars)
  OBVIOUS
<1>1. CASE UNCHANGED vars
  <2>1. UNCHANGED <<api, pc, req, answer, asOf, longest>>
    BY <1>1 DEF vars, conn
  <2>2. busyNow' = busyNow /\ answerNow' = answerNow /\ sinceNow' = sinceNow
    BY <2>1 DEF busyNow, answerNow, sinceNow, InFlight
  <2> QED BY <2>1, <2>2
          DEF Oracle!vars, Oracle!asking, Oracle!api, api, busyNow, answerNow, sinceNow
<1>2. CASE Environment
  BY <1>2, EnvironmentMaps DEF Oracle!Next
<1>3. ASSUME NEW c \in Conns, Receive(c)
      PROVE  Oracle!Next
  BY <1>3, ReceiveMaps DEF Receive, Oracle!Next, IInv
<1>4. ASSUME NEW c \in Conns, Handle(c)
      PROVE  Oracle!Next \/ UNCHANGED Oracle!vars
  BY <1>4, HandleMaps DEF Oracle!Next
<1> QED BY <1>1, <1>2, <1>3, <1>4 DEF Next

LEMMA InitMaps == Init => Oracle!Init
<1> SUFFICES ASSUME Init PROVE Oracle!Init
  OBVIOUS
<1>1. \A c \in Conns : ~InFlight(c) /\ answer[c] = Pending
  BY DEF Init, InFlight
<1>2. busyNow = {} /\ answerNow = [c \in Conns |-> Pending]
      /\ sinceNow = [c \in Conns |-> 0]
  BY <1>1 DEF busyNow, answerNow, sinceNow
<1> QED BY <1>2, SameData
        DEF Init, Oracle!Init, Oracle!APIInit, APIInit, busyNow, answerNow, sinceNow

(* Whatever the request path does with caches, matchers, projects and      *)
(* reviews, all that shows is what the oracle says.                        *)
THEOREM OracleImplemented == Spec => ImplementsOracle
<1>1. Spec => Oracle!Spec
  BY InitMaps, StepMaps, Invariance, PTL DEF Spec, Oracle!Spec
<1> QED BY <1>1 DEF ImplementsOracle

=============================================================================
