--------------------------- MODULE RolloutProofs ---------------------------
(***************************************************************************)
(* Proofs about Rollout for any number of processes, any flags, any inputs *)
(* and any TTL.                                                            *)
(***************************************************************************)
EXTENDS Rollout, TLAPS

-----------------------------------------------------------------------------
(* The inductive invariant *)

(* What a process is about to save comes from its own flags. *)
PendingOK(p) == pc[p] = "store" => answer[p] = AnswerOf(runs[p], req[p])

(* An entry has the keys that requests look it up with, and was saved when *)
(* a process with its flags was running.                                   *)
EntriesOK ==
    /\ \A q \in Inputs, ks \in SUBSET Labels :
          LET k == CacheKey(q, <<>>, ks)
          IN k \in DOMAIN cache => cache[k].answer.keys = ks
    /\ \A k \in DOMAIN cache :
          cache[k].setAt <= now /\ RanSince(cache[k].answer.by, cache[k].setAt)

AnswerOK(p) ==
    /\ answeredAt[p] <= now
    /\ pc[p] = "answered" =>
          /\ answer[p].keys = ForRequest(runs[p].keys, req[p]).keys
          /\ Expires => RanSince(answer[p].by, answeredAt[p] - MaxAge)

IInv == TypeOK /\ EntriesOK /\ \A p \in Procs : PendingOK(p) /\ AnswerOK(p)

-----------------------------------------------------------------------------
(* Typing *)

LEMMA MaxAgeType == MaxAge \in Nat
BY CacheAssumption DEF MaxAge

LEMMA AnswersTyped ==
    ASSUME NEW f \in Flags, NEW q
    PROVE  /\ AnswerOf(f, q) \in [keys : SUBSET Labels, by : Flags]
           /\ ForRequest(f.keys, q).keys \in SUBSET Labels
<1>1. f.keys \subseteq Labels
  BY RolloutAssumption
<1>2. ForRequest(f.keys, q).keys \in SUBSET Labels
  BY <1>1 DEF ForRequest
<1> QED BY <1>2 DEF AnswerOf

LEMMA InitInv == Init => IInv
<1> SUFFICES ASSUME Init PROVE IInv
  OBVIOUS
<1>1. (CHOOSE q \in Inputs : TRUE) \in Inputs /\ (CHOOSE f \in Flags : TRUE) \in Flags
  BY InputAssumption, RolloutAssumption
<1>2. APITypeOK
  BY DEF Init, APIInit, APITypeOK
<1>3. req \in [Procs -> Inputs]
  BY <1>1, Zenon DEF Init
<1>4. answer \in [Procs -> [keys : SUBSET Labels, by : Flags]]
  <2>1. [keys |-> {}, by |-> CHOOSE f \in Flags : TRUE] \in [keys : SUBSET Labels, by : Flags]
    BY <1>1
  <2> QED BY <2>1, Zenon DEF Init
<1>5. TypeOK
  BY <1>2, <1>3, <1>4 DEF Init, TypeOK
<1>6. EntriesOK
  BY DEF Init, EntriesOK
<1>7. \A p \in Procs : PendingOK(p) /\ AnswerOK(p)
  BY DEF Init, APIInit, PendingOK, AnswerOK
<1> QED BY <1>5, <1>6, <1>7 DEF IInv

(* An answer that is given keeps the state typed when the cache is. *)
LEMMA TypeStep == TypeOK /\ [Next]_vars => TypeOK'
<1> SUFFICES ASSUME TypeOK, [Next]_vars PROVE TypeOK'
  OBVIOUS
<1> USE DEF TypeOK, APITypeOK, api
<1>1. CASE UNCHANGED vars
  BY <1>1 DEF vars, procs
<1>2. CASE Tick /\ UNCHANGED <<cache, procs>>
  BY <1>2 DEF Tick, procs
<1>3. ASSUME NEW k \in DOMAIN cache, Evict(k), UNCHANGED <<api, procs>>
      PROVE  TypeOK'
  BY <1>3 DEF Evict, procs
<1>4. ASSUME NEW p \in Procs, NEW f \in Flags, Start(p, f)
      PROVE  TypeOK'
  BY <1>4, RolloutAssumption DEF Start
<1>5. ASSUME NEW p \in Procs, NEW q \in Inputs, Receive(p, q)
      PROVE  TypeOK'
  BY <1>5 DEF Receive
<1>6. ASSUME NEW p \in Procs, Stop(p)
      PROVE  TypeOK'
  BY <1>6 DEF Stop
<1>7. ASSUME NEW p \in Procs, Hit(p)
      PROVE  TypeOK'
  BY <1>7 DEF Hit, Reply, Live, AfterHit
<1>8. ASSUME NEW p \in Procs, Evaluate(p)
      PROVE  TypeOK'
  <2>1. runs[p] \in Flags
    BY <1>8 DEF Evaluate
  <2>2. AnswerOf(runs[p], req[p]) \in [keys : SUBSET Labels, by : Flags]
    BY <2>1, AnswersTyped
  <2>3. AnswerOf(runs[p], req[p]).by = runs[p]
    BY DEF AnswerOf
  <2> QED BY <1>8, <2>1, <2>2, <2>3 DEF Evaluate
<1>9. ASSUME NEW p \in Procs, Store(p)
      PROVE  TypeOK'
  <2>1. \A k \in DOMAIN cache' :
          cache'[k] \in [answer : [keys : SUBSET Labels, by : Flags],
                         setAt : Nat, since : Nat]
    BY <1>9 DEF Store, Saved
  <2> QED BY <1>9, <2>1 DEF Store, Reply
<1>10. ASSUME NEW p \in Procs, Fail(p)
       PROVE  TypeOK'
  BY <1>10 DEF Fail
<1> QED BY <1>1, <1>2, <1>3, <1>4, <1>5, <1>6, <1>7, <1>8, <1>9, <1>10 DEF Next

-----------------------------------------------------------------------------
(* Steps *)

(* That a process has run is not forgotten when it ends. *)
LEMMA RunKept ==
    ASSUME TypeOK, [Next]_vars, NEW f \in Flags, NEW t \in Int, t <= now, RanSince(f, t)
    PROVE  RanSince(f, t)'
<1>1. CASE UNCHANGED <<runs, lastRun>>
  BY <1>1 DEF RanSince
<1>2. ASSUME NEW p \in Procs, NEW g \in Flags, Start(p, g)
      PROVE  RanSince(f, t)'
  BY <1>2, RolloutAssumption DEF Start, RanSince, TypeOK
<1>3. ASSUME NEW p \in Procs, Stop(p)
      PROVE  RanSince(f, t)'
  <2>1. CASE runs[p] = f
    BY <1>3, <2>1 DEF Stop, RanSince, TypeOK
  <2>2. CASE runs[p] # f
    BY <1>3, <2>2 DEF Stop, RanSince, TypeOK
  <2> QED BY <2>1, <2>2
<1>4. \/ UNCHANGED <<runs, lastRun>>
      \/ \E p \in Procs : Stop(p) \/ \E g \in Flags : Start(p, g)
  BY DEF Next, vars, procs, Receive, Hit, Reply, Evaluate, Store, Fail
<1> QED BY <1>1, <1>2, <1>3, <1>4

(* The clock does not go back. *)
LEMMA ClockStep ==
    ASSUME TypeOK, [Next]_vars
    PROVE  now \in Nat /\ now' \in Nat /\ now <= now'
BY DEF TypeOK, APITypeOK, Next, vars, api, Tick, Start, Stop, Receive, Hit, Reply,
       Evaluate, Store, Fail

(* Entries keep their keys, and the run of the flags they come from. *)
LEMMA EntriesStep ==
    ASSUME IInv, [Next]_vars
    PROVE  EntriesOK'
<1>0. TypeOK /\ EntriesOK
  BY DEF IInv
<1>1. ASSUME NEW k \in DOMAIN cache', k \in DOMAIN cache, cache'[k] = cache[k]
      PROVE  /\ cache'[k].setAt <= now'
             /\ RanSince(cache[k].answer.by, cache[k].setAt)'
  <2>1. PICK f, t : f = cache[k].answer.by /\ t = cache[k].setAt
    OBVIOUS
  <2>2. f \in Flags /\ t \in Int /\ t <= now /\ RanSince(f, t)
    BY <1>0, <1>1, <2>1 DEF EntriesOK, TypeOK
  <2>3. RanSince(f, t)'
    BY <1>0, <2>2, RunKept
  <2> QED BY <1>0, <1>1, <2>1, <2>2, <2>3, ClockStep
<1>2. CASE \A k \in DOMAIN cache' : k \in DOMAIN cache /\ cache'[k] = cache[k]
  BY <1>0, <1>1, <1>2 DEF EntriesOK
<1>3. ASSUME NEW p \in Procs, Store(p), cache' = Saved(Key(p), answer[p], now)
      PROVE  EntriesOK'
  <2>0. PICK kp : kp = Key(p)
    OBVIOUS
  <2>1. /\ pc[p] = "store" /\ runs[p] \in Flags /\ req[p] \in Inputs
        /\ answer[p] = AnswerOf(runs[p], req[p])
        /\ now \in Nat /\ UNCHANGED <<now, runs, lastRun>>
    BY <1>3 DEF Store, Reply, api, IInv, PendingOK, TypeOK, APITypeOK
  <2>2. /\ kp \in DOMAIN cache'
        /\ cache'[kp] = [answer |-> answer[p], setAt |-> now, since |-> now]
        /\ \A k \in DOMAIN cache' \ {kp} : k \in DOMAIN cache /\ cache'[k] = cache[k]
    BY <1>3, <2>0 DEF Saved
  <2>3. /\ cache'[kp].setAt <= now'
        /\ RanSince(cache[kp].answer.by, cache[kp].setAt)'
    BY <2>1, <2>2 DEF RanSince, AnswerOf
  <2>4. ASSUME NEW q \in Inputs, NEW ks \in SUBSET Labels,
               CacheKey(q, <<>>, ks) \in DOMAIN cache'
        PROVE  cache'[CacheKey(q, <<>>, ks)].answer.keys = ks
    <3>1. CASE CacheKey(q, <<>>, ks) = kp
      <4>1. ks = ForRequest(runs[p].keys, req[p]).keys
        BY <2>0, <3>1 DEF CacheKey, Key
      <4> QED BY <2>1, <2>2, <3>1, <4>1 DEF AnswerOf
    <3>2. CASE CacheKey(q, <<>>, ks) # kp
      BY <1>0, <2>2, <2>4, <3>2 DEF EntriesOK
    <3> QED BY <3>1, <3>2
  <2>5. \A k \in DOMAIN cache' :
          cache'[k].setAt <= now' /\ RanSince(cache[k].answer.by, cache[k].setAt)'
    BY <1>1, <2>2, <2>3
  <2> QED BY <2>4, <2>5 DEF EntriesOK
<1>4. \/ \A k \in DOMAIN cache' : k \in DOMAIN cache /\ cache'[k] = cache[k]
      \/ \E p \in Procs : Store(p) /\ cache' = Saved(Key(p), answer[p], now)
  BY DEF Next, vars, procs, Evict, Start, Stop, Receive, Hit, AfterHit, Evaluate,
         Store, Fail
<1> QED BY <1>2, <1>3, <1>4

(* What a process answers with is what its flags promise, and comes from a *)
(* run of the flags that the answer carries.                               *)
LEMMA AnswerStep ==
    ASSUME IInv, [Next]_vars, NEW p \in Procs
    PROVE  AnswerOK(p)'
<1>0. /\ TypeOK /\ TypeOK' /\ EntriesOK /\ PendingOK(p) /\ AnswerOK(p)
      /\ now \in Nat /\ now' \in Nat /\ now <= now'
      /\ answeredAt[p] \in Nat /\ MaxAge \in Nat
      /\ answer[p].by \in Flags /\ req[p] \in Inputs
  BY TypeStep, ClockStep, MaxAgeType DEF IInv, TypeOK
<1>1. CASE UNCHANGED <<pc[p], runs[p], req[p], answer[p], answeredAt[p]>>
  <2>1. CASE pc[p] = "answered" /\ Expires
    <3>1. PICK f, t : f = answer[p].by /\ t = answeredAt[p] - MaxAge
      OBVIOUS
    <3>2. f \in Flags /\ t \in Int /\ t <= now /\ RanSince(f, t)
      BY <1>0, <2>1, <3>1 DEF AnswerOK
    <3>3. RanSince(f, t)'
      BY <1>0, <3>2, RunKept
    <3> QED BY <1>0, <1>1, <2>1, <3>1, <3>3 DEF AnswerOK
  <2>2. CASE ~(pc[p] = "answered" /\ Expires)
    BY <1>0, <1>1, <2>2 DEF AnswerOK
  <2> QED BY <2>1, <2>2
<1>2. CASE pc'[p] # "answered" /\ UNCHANGED answeredAt
  BY <1>0, <1>2 DEF AnswerOK
<1>3. CASE Hit(p)
  <2> DEFINE e == cache[Key(p)]
  <2>1. /\ Key(p) \in DOMAIN cache /\ Live(Key(p)) /\ runs[p] \in Flags
        /\ answer'[p] = e.answer /\ answeredAt'[p] = now
        /\ UNCHANGED <<now, runs, req, lastRun>>
    BY <1>0, <1>3 DEF Hit, Reply, Live, TypeOK, api
  <2>2. answer'[p].keys = ForRequest(runs[p].keys, req[p]).keys
    <3>1. ForRequest(runs[p].keys, req[p]).keys \in SUBSET Labels
      BY <2>1, AnswersTyped
    <3> QED BY <1>0, <2>1, <3>1 DEF EntriesOK, Key
  <2>3. ASSUME Expires
        PROVE  RanSince(answer[p].by, answeredAt[p] - MaxAge)'
    <3>1. /\ RanSince(e.answer.by, e.setAt) /\ e.setAt \in Nat
          /\ e.answer.by \in Flags
      BY <1>0, <2>1 DEF EntriesOK, TypeOK
    <3>2. now - MaxAge <= e.setAt
      BY <1>0, <2>1, <2>3, <3>1, CacheAssumption DEF Live, MaxAge
    <3>3. lastRun[e.answer.by] \in Int
      BY <1>0, <3>1 DEF TypeOK
    <3> HIDE DEF e
    <3>4. RanSince(e.answer.by, now - MaxAge)
      BY <1>0, <3>1, <3>2, <3>3 DEF RanSince
    <3> QED BY <2>1, <3>4 DEF RanSince
  <2> QED BY <1>0, <2>1, <2>2, <2>3 DEF AnswerOK
<1>4. CASE Store(p)
  <2>1. /\ answer[p] = AnswerOf(runs[p], req[p]) /\ runs[p] \in Flags
        /\ answer'[p] = answer[p] /\ answeredAt'[p] = now
        /\ UNCHANGED <<now, runs, req, lastRun>>
    BY <1>0, <1>4 DEF Store, Reply, PendingOK, TypeOK, api
  <2>2. RanSince(answer[p].by, answeredAt[p] - MaxAge)'
    BY <2>1 DEF RanSince, AnswerOf
  <2>3. answer'[p].keys = ForRequest(runs[p].keys, req[p]).keys
    BY <2>1 DEF AnswerOf
  <2> QED BY <1>0, <2>1, <2>2, <2>3 DEF AnswerOK
<1>5. \/ UNCHANGED <<pc[p], runs[p], req[p], answer[p], answeredAt[p]>>
      \/ pc'[p] # "answered" /\ UNCHANGED answeredAt
      \/ Hit(p) \/ Store(p)
  BY <1>0 DEF TypeOK, Next, vars, procs, Start, Stop, Receive, Hit, Reply, Evaluate,
     Store, Fail
<1> QED BY <1>1, <1>2, <1>3, <1>4, <1>5

(* What is about to be saved waits for nothing that could change it. *)
LEMMA PendingStep ==
    ASSUME IInv, [Next]_vars, NEW p \in Procs
    PROVE  PendingOK(p)'
BY DEF IInv, PendingOK, TypeOK, Next, vars, procs, Start, Stop, Receive, Hit, Reply,
       Evaluate, Store, Fail

LEMMA InvStep == IInv /\ [Next]_vars => IInv'
<1> SUFFICES ASSUME IInv, [Next]_vars PROVE IInv'
  OBVIOUS
<1>1. TypeOK'
  BY TypeStep DEF IInv
<1> QED BY <1>1, EntriesStep, AnswerStep, PendingStep DEF IInv

LEMMA Invariance == Spec => []IInv
BY InitInv, InvStep, PTL DEF Spec

-----------------------------------------------------------------------------

(* The state is always well typed, however processes come and go, and none *)
(* saves an answer of other flags than its own.                            *)
THEOREM RolloutTyped == Spec => []TypeOK
<1>1. IInv => TypeOK
  BY DEF IInv
<1> QED BY <1>1, Invariance, PTL

(* New keys take effect with the restart, whatever memcached remembers.    *)
THEOREM KeysCorrect == Spec => []KeysAreCurrent
<1>1. IInv => KeysAreCurrent
  BY DEF IInv, AnswerOK, KeysAreCurrent
<1> QED BY <1>1, Invariance, PTL

(* A rollout is over one TTL after the last process with the old flags.    *)
THEOREM RolloutEnds == Spec => []OldFlagsEndWithTTL
<1>1. IInv => OldFlagsEndWithTTL
  BY DEF IInv, AnswerOK, OldFlagsEndWithTTL
<1> QED BY <1>1, Invariance, PTL

=============================================================================
