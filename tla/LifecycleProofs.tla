--------------------------- MODULE LifecycleProofs ---------------------------
(***************************************************************************)
(* Proofs about Lifecycle for any set of requests and any number of        *)
(* signals.                                                                *)
(***************************************************************************)
EXTENDS Lifecycle, FiniteSetTheorems, TLAPS

(* How far the interrupt functions are determines who was told to stop,    *)
(* and a server that a Shutdown has drained stays drained.                 *)
ShutdownInv ==
    /\ blocked => turn \in {2, 3}
    /\ "http" \in down <=> turn > 2 \/ (turn = 2 /\ blocked)
    /\ "internal" \in down <=> turn > 3 \/ (turn = 3 /\ blocked)
    /\ turn > 2 => inflight["http"] = {}
    /\ turn > 3 => inflight["internal"] = {}

(* Before the first result is taken nobody returns without a reason. *)
ResultInv ==
    /\ pending => signals > 0
    /\ turn = 0 => \A i \in DOMAIN returned :
          /\ returned[i] = "nil" => signals > 0
          /\ returned[i] = "error" => failed # {}
    /\ turn > 0 => first # "none"
    /\ first = "nil" => signals > 0
    /\ first = "error" => failed # {}

ExitInv ==
    /\ exit \in {"ok", "fatal"} => turn = 4
    /\ exit = "ok" => first = "nil"
    /\ exit = "fatal" => first = "error"
    /\ exit = "killed" => ~notified
    /\ exit = "panic" => signals > 1 \/ failed # {}

LInv == TypeOK /\ ShutdownInv /\ ResultInv /\ ExitInv

(* The conjuncts of TypeOK: data, flags and the channel apart. *)
Data ==
    /\ actor \in [Actors -> {"starting", "registered", "up", "returned"}]
    /\ returned \in Seq({"nil", "error"})
    /\ first \in {"none", "nil", "error"}
    /\ turn \in 0 .. 4
    /\ down \subseteq Servers
    /\ failed \subseteq Servers
    /\ signals \in Nat
    /\ inflight \in [Servers -> SUBSET Requests]
    /\ exit \in {"none", "ok", "fatal", "panic", "killed"}

Flags ==
    /\ blocked \in BOOLEAN /\ notified \in BOOLEAN
    /\ pending \in BOOLEAN /\ closed \in BOOLEAN

ClosedOnce == closed => turn > 1

LEMMA LInit == Init => LInv
<1> SUFFICES ASSUME Init PROVE LInv
  OBVIOUS
<1>1. returned \in Seq({"nil", "error"}) /\ signals \in Nat
  BY DEF Init
<1>2. /\ actor \in [Actors -> {"starting", "registered", "up", "returned"}]
      /\ inflight \in [Servers -> SUBSET Requests]
  BY DEF Init
<1>3. TypeOK
  <2>1. Data
    BY <1>1, <1>2 DEF Init, Data
  <2>2. Flags
    BY Zenon DEF Init, Flags
  <2>3. ClosedOnce
    BY DEF Init, ClosedOnce
  <2> QED BY <2>1, <2>2, <2>3 DEF TypeOK, Data, Flags, ClosedOnce
<1>4. ShutdownInv /\ ResultInv /\ ExitInv
  BY DEF Init, ShutdownInv, ResultInv, ExitInv, Servers
<1> QED BY <1>3, <1>4 DEF LInv

LEMMA ReturnTyped ==
    ASSUME NEW a \in Actors, NEW result \in {"nil", "error"}, Data, Return(a, result)
    PROVE  /\ actor' \in [Actors -> {"starting", "registered", "up", "returned"}]
           /\ returned' \in Seq({"nil", "error"})
BY DEF Data, Return

LEMMA DataKept ==
    ASSUME Data, ShutdownInv, [Next]_vars
    PROVE  Data'
<1> USE DEF Data
<1>1. CASE Register
  BY <1>1 DEF Register, Actors, main
<1>2. CASE Wait
  BY <1>2 DEF Wait, Actors, main, sig
<1>3. CASE Catch
  <2>1. Return("signal", "nil") /\ "signal" \in Actors
    BY <1>3 DEF Catch, Actors
  <2> QED BY <1>3, <2>1, ReturnTyped DEF Catch, main
<1>4. CASE Signal
  BY <1>4 DEF Signal, main
<1>5. ASSUME NEW s \in Servers, Serve(s)
      PROVE  Data'
  BY <1>5 DEF Serve, Actors, main, sig
<1>6. ASSUME NEW s \in Servers, Fail(s)
      PROVE  Data'
  <2>1. Return(s, "error") /\ s \in Actors
    BY <1>6 DEF Fail, Actors
  <2> QED BY <1>6, <2>1, ReturnTyped DEF Fail, main, sig
<1>7. ASSUME NEW s \in Servers, Close(s)
      PROVE  Data'
  <2>1. Return(s, "error") /\ s \in Actors
    BY <1>7 DEF Close, Actors
  <2> QED BY <1>7, <2>1, ReturnTyped DEF Close, main, sig
<1>8. ASSUME NEW s \in Servers, NEW r \in Requests, Accept(s, r) \/ Finish(s, r)
      PROVE  Data'
  BY <1>8 DEF Accept, Finish, main, sig
<1>9. CASE Main
  <2>1. CASE First
    BY <2>1 DEF First, sig
  <2>2. CASE InterruptSignal \/ Exit
    BY <2>2 DEF InterruptSignal, Exit, main, sig
  <2>3. CASE Shutdown
    BY <2>3 DEF Shutdown, ServerAt, Servers, sig
  <2>4. CASE Drained
    <3>1. turn \in {2, 3}
      BY <2>4 DEF Drained, ShutdownInv
    <3> QED BY <2>4, <3>1 DEF Drained, sig
  <2> QED BY <1>9, <2>1, <2>2, <2>3, <2>4 DEF Main
<1>10. CASE UNCHANGED vars
  BY <1>10 DEF vars, main, sig
<1> QED BY <1>1, <1>2, <1>3, <1>4, <1>5, <1>6, <1>7, <1>8, <1>9, <1>10 DEF Next

LEMMA FlagsKept ==
    ASSUME Flags, [Next]_vars
    PROVE  Flags'
<1>1. CASE Register \/ Wait \/ Catch \/ Signal
  BY <1>1, Zenon DEF Flags, Register, Wait, Catch, Signal, main, sig
<1>2. ASSUME NEW s \in Servers, Serve(s) \/ Fail(s) \/ Close(s)
      PROVE  Flags'
  BY <1>2, Zenon DEF Flags, Serve, Fail, Close, main, sig
<1>3. ASSUME NEW s \in Servers, NEW r \in Requests, Accept(s, r) \/ Finish(s, r)
      PROVE  Flags'
  BY <1>3, Zenon DEF Flags, Accept, Finish, main, sig
<1>4. CASE Main
  BY <1>4, Zenon DEF Flags, Main, First, InterruptSignal, Shutdown, Drained, Exit, main, sig
<1>5. CASE UNCHANGED vars
  BY <1>5, Zenon DEF Flags, vars, main, sig
<1> QED BY <1>1, <1>2, <1>3, <1>4, <1>5, Zenon DEF Next

LEMMA ClosedOnceKept ==
    ASSUME ClosedOnce, Data, [Next]_vars
    PROVE  ClosedOnce'
<1> USE DEF ClosedOnce, Data
<1>1. CASE Main
  <2>1. CASE First
    BY <2>1 DEF First, sig
  <2>2. CASE InterruptSignal
    BY <2>2 DEF InterruptSignal
  <2>3. CASE Shutdown \/ Drained \/ Exit
    <3>1. closed' = closed /\ (turn' = turn \/ turn' = turn + 1)
      BY <2>3 DEF Shutdown, Drained, Exit, main, sig
    <3> QED BY <3>1
  <2> QED BY <1>1, <2>1, <2>2, <2>3 DEF Main
<1>2. CASE ~Main
  <2>1. UNCHANGED <<closed, turn>>
    BY <1>2 DEF Next, vars, Register, Wait, Catch, Signal, Serve, Fail, Close, Accept,
       Finish, main, sig
  <2> QED BY <2>1
<1> QED BY <1>1, <1>2

LEMMA TypeKept ==
    ASSUME TypeOK, [Next]_vars, ShutdownInv
    PROVE  TypeOK'
<1>1. Data /\ Flags /\ ClosedOnce
  BY DEF TypeOK, Data, Flags, ClosedOnce
<1>2. Data' /\ Flags' /\ ClosedOnce'
  BY <1>1, DataKept, FlagsKept, ClosedOnceKept
<1> QED BY <1>2 DEF TypeOK, Data, Flags, ClosedOnce

LEMMA ShutdownKept ==
    ASSUME TypeOK, [Next]_vars, ShutdownInv
    PROVE  ShutdownInv'
<1> USE DEF TypeOK, ShutdownInv, Actors, Servers
<1>1. CASE Register \/ Wait \/ Catch \/ Signal
  BY <1>1 DEF Register, Wait, Catch, Signal, main, sig
<1>2. ASSUME NEW s \in Servers, Serve(s) \/ Fail(s) \/ Close(s)
      PROVE  ShutdownInv'
  BY <1>2 DEF Serve, Fail, Close, main, sig
<1>3. ASSUME NEW s \in Servers, NEW r \in Requests, Accept(s, r) \/ Finish(s, r)
      PROVE  ShutdownInv'
  BY <1>3 DEF Accept, Finish, main, sig
<1>4. CASE Main
  <2>1. CASE First \/ InterruptSignal \/ Exit
    BY <2>1 DEF First, InterruptSignal, Exit, main, sig
  <2>2. CASE Shutdown
    BY <2>2 DEF Shutdown, ServerAt, sig
  <2>3. CASE Drained
    BY <2>3 DEF Drained, ServerAt, sig
  <2> QED BY <1>4, <2>1, <2>2, <2>3 DEF Main
<1>5. CASE UNCHANGED vars
  BY <1>5 DEF vars, main, sig
<1> QED BY <1>1, <1>2, <1>3, <1>4, <1>5 DEF Next

LEMMA ResultKept ==
    ASSUME TypeOK, [Next]_vars, ShutdownInv, ResultInv
    PROVE  ResultInv'
<1> USE DEF TypeOK, ResultInv, Actors, Servers
<1>1. CASE Register \/ Wait \/ Signal
  BY <1>1 DEF Register, Wait, Signal, main, sig
<1>2. CASE Catch
  <2>1. turn = 0 => signals > 0
    BY <1>2 DEF Catch, ShutdownInv
  <2> QED BY <1>2, <2>1 DEF Catch, Return, main
<1>3. ASSUME NEW s \in Servers, Serve(s)
      PROVE  ResultInv'
  BY <1>3 DEF Serve, main, sig
<1>4. ASSUME NEW s \in Servers, Fail(s)
      PROVE  ResultInv'
  BY <1>4 DEF Fail, Return, main, sig
<1>5. ASSUME NEW s \in Servers, Close(s)
      PROVE  ResultInv'
  <2>1. turn > 0
    BY <1>5 DEF Close, ShutdownInv
  <2> QED BY <1>5, <2>1 DEF Close, main, sig
<1>6. ASSUME NEW s \in Servers, NEW r \in Requests, Accept(s, r) \/ Finish(s, r)
      PROVE  ResultInv'
  BY <1>6 DEF Accept, Finish, main, sig
<1>7. CASE Main
  <2>1. CASE First
    BY <2>1 DEF First, sig
  <2>2. CASE InterruptSignal \/ Shutdown \/ Drained \/ Exit
    BY <2>2 DEF InterruptSignal, Shutdown, Drained, Exit, ShutdownInv, main, sig
  <2> QED BY <1>7, <2>1, <2>2 DEF Main
<1>8. CASE UNCHANGED vars
  BY <1>8 DEF vars, main, sig
<1> QED BY <1>1, <1>2, <1>3, <1>4, <1>5, <1>6, <1>7, <1>8 DEF Next

LEMMA ExitKept ==
    ASSUME TypeOK, [Next]_vars, ShutdownInv, ResultInv, ExitInv
    PROVE  ExitInv'
<1> USE DEF TypeOK, ExitInv, Running
<1>0. closed => signals > 0 \/ failed # {}
  BY DEF ShutdownInv, ResultInv
<1>1. CASE Register \/ Wait \/ Catch \/ Signal
  BY <1>0, <1>1 DEF Register, Wait, Catch, Signal, main, sig
<1>2. ASSUME NEW s \in Servers, Serve(s) \/ Fail(s) \/ Close(s)
      PROVE  ExitInv'
  BY <1>2 DEF Serve, Fail, Close, main, sig
<1>3. ASSUME NEW s \in Servers, NEW r \in Requests, Accept(s, r) \/ Finish(s, r)
      PROVE  ExitInv'
  BY <1>3 DEF Accept, Finish, main, sig
<1>4. CASE Main
  BY <1>4 DEF Main, First, InterruptSignal, Shutdown, Drained, Exit, ResultInv, main, sig
<1>5. CASE UNCHANGED vars
  BY <1>5 DEF vars, main, sig
<1> QED BY <1>1, <1>2, <1>3, <1>4, <1>5 DEF Next

LEMMA LInvariance == Spec => []LInv
<1>1. LInv /\ [Next]_vars => LInv'
  BY TypeKept, ShutdownKept, ResultKept, ExitKept DEF LInv
<1> QED BY <1>1, LInit, PTL DEF Spec

(* The state of the process is always well typed. *)
THEOREM LifecycleTyped == Spec => []TypeOK
BY LInvariance, PTL DEF LInv

(* A process that ends by itself has answered every request it accepted.   *)
THEOREM DrainedCorrect == Spec => []DrainedBeforeExit
<1>1. LInv => DrainedBeforeExit
  BY DEF LInv, ShutdownInv, ExitInv, DrainedBeforeExit, Servers
<1> QED BY <1>1, LInvariance, PTL

(* The internal server is told to stop only after the public one drained.  *)
THEOREM InternalCorrect == Spec => []InternalOutlivesPublic
<1>1. LInv => InternalOutlivesPublic
  BY DEF LInv, TypeOK, ShutdownInv, InternalOutlivesPublic
<1> QED BY <1>1, LInvariance, PTL

(* Success means that a signal was sent, failure that a server failed.     *)
THEOREM ExitCorrect == Spec => []ExitTellsWhy
<1>1. LInv => ExitTellsWhy
  BY DEF LInv, ResultInv, ExitInv, ExitTellsWhy
<1> QED BY <1>1, LInvariance, PTL

(* A process that listens for signals is never aborted by the first one.   *)
THEOREM GracefulCorrect == Spec => []OneSignalIsGraceful
<1>1. LInv => OneSignalIsGraceful
  BY DEF LInv, TypeOK, ResultInv, ExitInv, OneSignalIsGraceful
<1> QED BY <1>1, LInvariance, PTL

-----------------------------------------------------------------------------
(* The way out *)

(* How often actor a has returned. *)
Returns(a) == IF actor[a] = "returned" THEN 1 ELSE 0

(* Every actor returns once, the channel is closed as its turn comes, and  *)
(* a signal that did not end the process at once is in the channel or has  *)
(* made the signal actor return.                                           *)
WayOutInv ==
    /\ Len(returned) = Returns("signal") + Returns("http") + Returns("internal")
    /\ turn > 1 => closed
    /\ Running /\ signals > 0 => pending \/ actor["signal"] = "returned"

LEMMA AppendLength ==
    ASSUME NEW s \in Seq({"nil", "error"}), NEW e \in {"nil", "error"}
    PROVE  Len(Append(s, e)) = Len(s) + 1
OBVIOUS

LEMMA ReturnCounted ==
    ASSUME TypeOK, NEW a \in Actors, actor[a] # "returned",
           NEW result \in {"nil", "error"}, Return(a, result),
           Len(returned) = Returns("signal") + Returns("http") + Returns("internal")
    PROVE  Len(returned') =
              (Returns("signal") + Returns("http") + Returns("internal"))'
<1>1. Len(returned') = Len(returned) + 1
  BY AppendLength DEF TypeOK, Return
<1>2. \A b \in Actors : Returns(b)' = IF b = a THEN 1 ELSE Returns(b)
  BY DEF TypeOK, Return, Returns
<1>3. Returns(a) = 0
  BY DEF Returns
<1> QED BY <1>1, <1>2, <1>3 DEF Actors, Servers, Returns

LEMMA WayOutKept ==
    ASSUME TypeOK, [Next]_vars, ShutdownInv, WayOutInv
    PROVE  WayOutInv'
<1> USE DEF WayOutInv, Running
<1>1. CASE Register \/ Wait
  <2>1. actor' \in [Actors -> {"starting", "registered", "up", "returned"}]
        /\ \A a \in Actors : actor'[a] = "returned" <=> actor[a] = "returned"
    BY <1>1 DEF TypeOK, Register, Wait, Actors
  <2>2. \A a \in Actors : Returns(a)' = Returns(a)
    BY <2>1 DEF Returns
  <2>3. UNCHANGED <<returned, turn, closed, pending, signals, exit>>
    BY <1>1 DEF Register, Wait, main, sig
  <2> QED BY <2>1, <2>2, <2>3 DEF Actors, Servers
<1>2. CASE Catch
  <2>1. Return("signal", "nil") /\ "signal" \in Actors /\ actor["signal"] # "returned"
    BY <1>2 DEF Catch, Actors
  <2>2. actor'["signal"] = "returned"
    BY <2>1 DEF Return, TypeOK
  <2>3. UNCHANGED <<turn, closed>>
    BY <1>2 DEF Catch, main
  <2> QED BY <2>1, <2>2, <2>3, ReturnCounted
<1>3. CASE Signal
  <2>1. UNCHANGED <<actor, returned, turn, closed>>
    BY <1>3 DEF Signal, main
  <2>2. exit' = "none" => pending'
    BY <1>3 DEF Signal
  <2> QED BY <2>1, <2>2 DEF Returns
<1>4. ASSUME NEW s \in Servers, Serve(s)
      PROVE  WayOutInv'
  <2>1. \A a \in Actors : actor'[a] = "returned" <=> actor[a] = "returned"
    BY <1>4 DEF TypeOK, Serve, Actors
  <2>2. \A a \in Actors : Returns(a)' = Returns(a)
    BY <2>1 DEF Returns
  <2>3. UNCHANGED <<returned, turn, closed, pending, signals, exit>>
    BY <1>4 DEF Serve, main, sig
  <2> QED BY <2>1, <2>2, <2>3 DEF Actors, Servers
<1>5. ASSUME NEW s \in Servers, Fail(s) \/ Close(s)
      PROVE  WayOutInv'
  <2>1. Return(s, "error") /\ s \in Actors /\ actor[s] # "returned"
    BY <1>5 DEF Fail, Close, Actors
  <2>2. actor'["signal"] = actor["signal"]
    BY <2>1 DEF Return, TypeOK, Servers, Actors
  <2>3. UNCHANGED <<turn, closed, pending, signals, exit>>
    BY <1>5 DEF Fail, Close, main, sig
  <2> QED BY <2>1, <2>2, <2>3, ReturnCounted
<1>6. ASSUME NEW s \in Servers, NEW r \in Requests, Accept(s, r) \/ Finish(s, r)
      PROVE  WayOutInv'
  BY <1>6 DEF Accept, Finish, main, sig, Returns
<1>7. CASE Main
  <2>1. UNCHANGED <<actor, returned, pending, signals>>
    BY <1>7 DEF Main, First, InterruptSignal, Shutdown, Drained, Exit, main, sig
  <2>2. exit' = "none" => exit = "none"
    BY <1>7 DEF Main, First, InterruptSignal, Shutdown, Drained, Exit
  <2>3. turn' > 1 => closed'
    BY <1>7 DEF Main, First, InterruptSignal, Shutdown, Drained, Exit, TypeOK,
                ShutdownInv, main, sig
  <2> QED BY <2>1, <2>2, <2>3 DEF Returns
<1>8. CASE UNCHANGED vars
  BY <1>8 DEF vars, main, sig, Returns
<1> QED BY <1>1, <1>2, <1>3, <1>4, <1>5, <1>6, <1>7, <1>8 DEF Next

LEMMA WayOut == Spec => [](LInv /\ WayOutInv)
<1>1. Init => WayOutInv
  BY DEF Init, WayOutInv, Returns, Actors, Servers
<1>2. LInv /\ WayOutInv /\ [Next]_vars => WayOutInv'
  BY WayOutKept DEF LInv
<1> QED BY <1>1, <1>2, LInvariance, PTL DEF Spec

LEMMA ThreeActors == Cardinality(Actors) = 3
<1>1. IsFiniteSet({"http", "internal"}) /\ Cardinality({"http", "internal"}) = 2
  <2>1. IsFiniteSet({"internal"}) /\ Cardinality({"internal"}) = 1
    BY FS_Singleton
  <2>2. {"http", "internal"} = {"internal"} \cup {"http"}
    OBVIOUS
  <2> QED BY <2>1, <2>2, FS_AddElement
<1>2. Actors = {"http", "internal"} \cup {"signal"}
  BY DEF Actors, Servers
<1> QED BY <1>1, <1>2, FS_AddElement

(* After a signal nothing but requests in flight can hold up the end of    *)
(* the process, however many of them and of further signals there are.     *)
THEOREM OnlyRequestsCorrect == Spec => []OnlyRequestsHoldUp
<1>1. ASSUME LInv, WayOutInv
      PROVE  OnlyRequestsHoldUp
  <2> SUFFICES ASSUME Running, signals > 0
               PROVE  MayGoOn \/ (blocked /\ inflight[ServerAt(turn)] # {})
    BY DEF OnlyRequestsHoldUp
  <2> USE <1>1 DEF LInv, WayOutInv
  <2>1. turn \in 0 .. 4 /\ actor \in [Actors -> {"starting", "registered", "up", "returned"}]
        /\ returned \in Seq({"nil", "error"})
    BY DEF TypeOK
  <2>2. CASE turn = 0
    <3>1. CASE pending
      <4>1. CASE actor["signal"] = "returned"
        <5>1. Len(returned) # 0
          BY <2>1, <4>1 DEF Returns
        <5> QED BY <2>2, <5>1 DEF MayGoOn
      <4>2. CASE actor["signal"] # "returned"
        BY <2>1, <3>1, <4>2 DEF MayGoOn, Actors
      <4> QED BY <4>1, <4>2
    <3>2. CASE actor["signal"] = "returned"
      <4>1. Len(returned) # 0
        BY <2>1, <3>2 DEF Returns
      <4> QED BY <2>2, <4>1 DEF MayGoOn
    <3> QED BY <3>1, <3>2
  <2>3. CASE turn \in {1, 2, 3}
    BY <2>3 DEF MayGoOn
  <2>4. CASE turn = 4
    <3>1. down = Servers /\ closed
      <4>1. "http" \in down /\ "internal" \in down /\ down \subseteq Servers
        BY <2>4 DEF ShutdownInv, TypeOK
      <4>2. turn > 1 /\ (turn > 1 => closed)
        BY <2>4
      <4> QED BY <4>1, <4>2 DEF Servers
    <3>2. CASE \A a \in Actors : actor[a] = "returned"
      <4>1. Len(returned) = 3
        BY <3>2 DEF Returns, Actors, Servers
      <4> QED BY <2>4, <4>1, ThreeActors DEF MayGoOn
    <3>3. CASE actor["signal"] # "returned"
      BY <2>1, <3>1, <3>3 DEF MayGoOn, Actors
    <3>4. CASE \E s \in Servers : actor[s] # "returned"
      BY <3>1, <3>4 DEF MayGoOn
    <3> QED BY <3>2, <3>3, <3>4 DEF Actors
  <2> QED BY <2>1, <2>2, <2>3, <2>4
<1> QED BY <1>1, WayOut, PTL

-----------------------------------------------------------------------------
(* Termination *)

LEMMA StepsTyped ==
    ASSUME TypeOK
    PROVE  \A a \in Actors : StepsOf(actor[a]) \in 0 .. 3
BY DEF TypeOK, StepsOf

LEMMA StepsNatural ==
    ASSUME TypeOK, ShutdownInv
    PROVE  StepsLeft \in Nat
<1>1. StepsOf(actor["signal"]) + StepsOf(actor["http"]) + StepsOf(actor["internal"]) \in Nat
  BY StepsTyped DEF Actors, Servers
<1>2. turn \in 0 .. 4 /\ (blocked => turn \in {2, 3})
  BY DEF TypeOK, ShutdownInv
<1> HIDE DEF StepsOf
<1> QED BY <1>1, <1>2 DEF StepsLeft

(* What an actor's step leaves to do. *)
LEMMA ActorMoves ==
    ASSUME TypeOK, NEW a \in Actors, NEW to \in {"registered", "up", "returned"},
           actor' = [actor EXCEPT ![a] = to],
           StepsOf(to) < StepsOf(actor[a]),
           UNCHANGED <<main, exit>>
    PROVE  StepsLeft' < StepsLeft
<1>1. \A b \in Actors : StepsOf(actor'[b]) = IF b = a THEN StepsOf(to) ELSE StepsOf(actor[b])
  BY DEF TypeOK
<1>2. \A b \in Actors : StepsOf(actor[b]) \in Int
  BY StepsTyped
<1>3. StepsOf(to) \in Int
  BY DEF StepsOf
<1>4. /\ StepsOf(actor'["signal"]) + StepsOf(actor'["http"]) + StepsOf(actor'["internal"])
         < StepsOf(actor["signal"]) + StepsOf(actor["http"]) + StepsOf(actor["internal"])
      /\ StepsOf(actor'["signal"]) + StepsOf(actor'["http"]) + StepsOf(actor'["internal"]) \in Int
      /\ StepsOf(actor["signal"]) + StepsOf(actor["http"]) + StepsOf(actor["internal"]) \in Int
  BY <1>1, <1>2, <1>3 DEF Actors, Servers
<1> HIDE DEF StepsOf
<1> QED BY <1>4 DEF StepsLeft, main, Running, TypeOK

(* A process takes at most eighteen steps of its own, and after each of   *)
(* them fewer are left, whatever requests and signals come in between.     *)
THEOREM EndCorrect == Spec => EndComesCloser
<1> DEFINE Closer ==
             \/ StepsLeft' < StepsLeft
             \/ StepsLeft' = StepsLeft /\ UNCHANGED <<actor, returned, main, down, closed, exit>>
<1>1. ASSUME LInv, [Next]_vars
      PROVE  Closer
  <2>0. TypeOK /\ ShutdownInv
    BY <1>1 DEF LInv
  <2>1. CASE Register
    <3>1. StepsOf("registered") < StepsOf(actor["signal"])
      BY <2>1 DEF Register, StepsOf
    <3> QED BY <2>0, <2>1, <3>1, ActorMoves DEF Register, Actors
  <2>2. CASE Wait
    <3>1. StepsOf("up") < StepsOf(actor["signal"])
      BY <2>2 DEF Wait, StepsOf
    <3> QED BY <2>0, <2>2, <3>1, ActorMoves DEF Wait, Actors
  <2>3. CASE Catch
    <3>1. StepsOf("returned") < StepsOf(actor["signal"])
      BY <2>3 DEF Catch, StepsOf
    <3> QED BY <2>0, <2>3, <3>1, ActorMoves DEF Catch, Return, Actors
  <2>4. CASE Signal
    <3>1. UNCHANGED <<actor, returned, main, down, closed>>
      BY <2>4 DEF Signal
    <3>2. exit = "none"
      BY <2>4 DEF Signal, Running
    <3>3. CASE exit' = "none"
      BY <3>1, <3>2, <3>3 DEF StepsLeft, main, Running
    <3>4. CASE exit' # "none"
      <4>1. StepsOf(actor["signal"]) + StepsOf(actor["http"]) + StepsOf(actor["internal"]) \in Int
        BY <2>0, StepsTyped DEF Actors, Servers
      <4> HIDE DEF StepsOf
      <4> QED BY <2>0, <3>1, <3>2, <3>4, <4>1 DEF StepsLeft, main, Running, TypeOK
    <3> QED BY <3>3, <3>4
  <2>5. ASSUME NEW s \in Servers, Serve(s)
        PROVE  Closer
    <3>1. StepsOf("up") < StepsOf(actor[s])
      BY <2>5 DEF Serve, StepsOf
    <3> QED BY <2>0, <2>5, <3>1, ActorMoves DEF Serve, Actors
  <2>6. ASSUME NEW s \in Servers, Fail(s) \/ Close(s)
        PROVE  Closer
    <3>1. StepsOf("returned") < StepsOf(actor[s])
      BY <2>6 DEF Fail, Close, StepsOf
    <3> QED BY <2>0, <2>6, <3>1, ActorMoves DEF Fail, Close, Return, Actors
  <2>7. ASSUME NEW s \in Servers, NEW r \in Requests, Accept(s, r) \/ Finish(s, r)
        PROVE  Closer
    BY <2>7 DEF Accept, Finish, StepsLeft, main, sig, Running
  <2>8. CASE Main
    <3>1. UNCHANGED actor
      BY <2>8 DEF Main, First, InterruptSignal, Shutdown, Drained, Exit
    <3>2. \/ turn' = turn + 1 /\ (blocked => turn \in {2, 3} /\ ~blocked') /\ exit' = exit
          \/ turn' = turn /\ ~blocked /\ blocked' /\ exit' = exit
          \/ UNCHANGED <<turn, blocked>> /\ exit = "none" /\ exit' # "none"
      BY <2>0, <2>8 DEF Main, First, InterruptSignal, Shutdown, Drained, Exit, ShutdownInv,
                        Running, main
    <3>3. StepsOf(actor["signal"]) + StepsOf(actor["http"]) + StepsOf(actor["internal"]) \in Int
      BY <2>0, StepsTyped DEF Actors, Servers
    <3>4. turn \in 0 .. 4
      BY <2>0 DEF TypeOK
    <3> HIDE DEF StepsOf
    <3> QED BY <3>1, <3>2, <3>3, <3>4 DEF StepsLeft, Running
  <2>9. CASE UNCHANGED vars
    BY <2>9 DEF vars, StepsLeft, main, sig, Running
  <2> QED BY <1>1, <2>1, <2>2, <2>3, <2>4, <2>5, <2>6, <2>7, <2>8, <2>9 DEF Next
<1>2. LInv => StepsLeft \in Nat
  BY StepsNatural DEF LInv
<1>3. ASSUME LInv, [Next]_vars, StepsLeft \in Nat, (StepsLeft \in Nat)'
      PROVE  \/ StepsLeft' \in 0 .. StepsLeft - 1
             \/ StepsLeft' = StepsLeft
                /\ UNCHANGED <<actor, returned, main, down, closed, exit>>
  <2> HIDE DEF Closer
  <2>1. Closer
    BY <1>1, <1>3
  <2> QED BY <1>3, <2>1 DEF Closer
<1> QED BY <1>2, <1>3, LInvariance, PTL DEF Spec, EndComesCloser

-----------------------------------------------------------------------------
(* The process as its clients and its supervisor see it *)

(* The abstract state of the servers, named for the proofs. *)
serverNow == [s \in Servers |-> IF s \in down \/ actor[s] = "returned" THEN "closed"
                                ELSE IF actor[s] = "up" THEN "listening"
                                                        ELSE "starting"]

(* A step that no client and no supervisor sees. *)
LEMMA Unseen ==
    ASSUME UNCHANGED <<serverNow, notified, inflight, signals, failed, exit>>
    PROVE  UNCHANGED Graceful!vars
BY DEF Graceful!vars, serverNow

(* What an actor's step does to the servers. *)
LEMMA ServerMoves ==
    ASSUME TypeOK, NEW a \in Actors, NEW to,
           actor' = [actor EXCEPT ![a] = to], UNCHANGED down
    PROVE  /\ a = "signal" => UNCHANGED serverNow
           /\ a \in Servers => serverNow' =
                 [serverNow EXCEPT ![a] = IF a \in down \/ to = "returned" THEN "closed"
                                          ELSE IF to = "up" THEN "listening"
                                                            ELSE "starting"]
BY DEF TypeOK, serverNow, Actors, Servers

LEMMA SignalMaps ==
    ASSUME LInv, Signal
    PROVE  Graceful!Next
<1>1. closed => signals > 0 \/ failed # {}
  BY DEF LInv, TypeOK, ShutdownInv, ResultInv
<1>2. UNCHANGED serverNow
  BY DEF Signal, serverNow
<1>3. Graceful!Ask
  BY <1>1, <1>2 DEF Signal, Graceful!Ask, serverNow
<1> QED BY <1>3 DEF Signal, Running, Graceful!Next

LEMMA ServerStepsMap ==
    ASSUME LInv, NEW s \in Servers,
           \/ Serve(s) \/ Fail(s) \/ Close(s)
           \/ \E r \in Requests : Accept(s, r) \/ Finish(s, r)
    PROVE  Graceful!Next \/ UNCHANGED Graceful!vars
<1>0. /\ TypeOK /\ exit = "none" /\ UNCHANGED exit /\ s \in Graceful!Servers
      /\ s \in Actors
  BY DEF LInv, Serve, Fail, Close, Accept, Finish, Running, Graceful!Servers, Servers, Actors
<1>1. CASE Serve(s)
  <2>1. serverNow' = [serverNow EXCEPT ![s] = "listening"] /\ serverNow[s] = "starting"
    BY <1>0, <1>1, ServerMoves DEF Serve, serverNow
  <2>2. Graceful!Listen(s)
    BY <1>0, <1>1, <2>1 DEF Serve, Graceful!Listen, serverNow, sig
  <2> QED BY <1>0, <2>2 DEF Graceful!Next
<1>2. CASE Fail(s)
  <2>1. serverNow' = [serverNow EXCEPT ![s] = "closed"] /\ serverNow[s] # "closed"
    BY <1>0, <1>2, ServerMoves DEF Fail, Return, serverNow
  <2>2. Graceful!Break(s)
    BY <1>0, <1>2, <2>1 DEF Fail, Graceful!Break, serverNow, sig
  <2> QED BY <1>0, <2>2 DEF Graceful!Next
<1>3. CASE Close(s)
  <2>1. serverNow' = [serverNow EXCEPT ![s] = "closed"] /\ serverNow[s] = "closed"
    BY <1>0, <1>3, ServerMoves DEF Close, Return, serverNow
  <2>2. UNCHANGED serverNow
    BY <2>1 DEF serverNow
  <2> QED BY <1>0, <1>3, <2>2, Unseen DEF Close, sig
<1>4. ASSUME NEW r \in Requests, Accept(s, r)
      PROVE  Graceful!Next
  <2>1. UNCHANGED serverNow /\ serverNow[s] = "listening"
    BY <1>4 DEF Accept, serverNow
  <2>2. Graceful!Accept(s, r)
    BY <1>0, <1>4, <2>1 DEF Accept, Graceful!Accept, serverNow, sig
  <2> QED BY <1>0, <2>2 DEF Graceful!Next
<1>5. ASSUME NEW r \in Requests, Finish(s, r)
      PROVE  Graceful!Next
  <2>1. UNCHANGED serverNow
    BY <1>5 DEF Finish, serverNow
  <2>2. Graceful!Finish(s, r)
    BY <1>0, <1>5, <2>1 DEF Finish, Graceful!Finish, serverNow, sig
  <2> QED BY <1>0, <2>2 DEF Graceful!Next
<1> QED BY <1>1, <1>2, <1>3, <1>4, <1>5

LEMMA ActorStepsMap ==
    ASSUME LInv, Register \/ Wait \/ Catch
    PROVE  Graceful!Next \/ UNCHANGED Graceful!vars
<1>1. UNCHANGED serverNow
  BY ServerMoves DEF LInv, Register, Wait, Catch, Return, Actors
<1>2. CASE Register
  <2>1. Graceful!GetReady
    BY <1>1, <1>2 DEF Register, Graceful!GetReady, serverNow
  <2> QED BY <1>2, <2>1 DEF Register, Running, Graceful!Next
<1>3. CASE Wait \/ Catch
  BY <1>1, <1>3, Unseen DEF Wait, Catch, sig
<1> QED BY <1>2, <1>3

LEMMA MainMaps ==
    ASSUME LInv, Main
    PROVE  Graceful!Next \/ UNCHANGED Graceful!vars
<1>0. TypeOK /\ ShutdownInv /\ ResultInv /\ Running
  BY DEF LInv, Main, First, InterruptSignal, Shutdown, Drained, Exit
<1>1. CASE First \/ InterruptSignal \/ Drained
  BY <1>1, Unseen DEF First, InterruptSignal, Drained, serverNow, sig
<1>2. CASE Shutdown
  <2>1. PICK s \in Servers : s = ServerAt(turn)
    BY <1>2 DEF Shutdown, ServerAt, Servers
  <2>2. serverNow' = [serverNow EXCEPT ![s] = "closed"]
    BY <1>2, <2>1 DEF Shutdown, serverNow
  <2>3. signals > 0 \/ failed # {}
    BY <1>0, <1>2 DEF TypeOK, ResultInv, Shutdown
  <2>4. s = "internal" => serverNow["http"] = "closed" /\ inflight["http"] = {}
    BY <1>0, <1>2, <2>1 DEF TypeOK, ShutdownInv, Shutdown, ServerAt, serverNow, Servers
  <2>5. Graceful!Stop(s)
    BY <1>2, <2>2, <2>3, <2>4 DEF Shutdown, Graceful!Stop, serverNow, sig
  <2>6. s \in Graceful!Servers
    BY DEF Servers, Graceful!Servers
  <2> QED BY <1>0, <2>5, <2>6 DEF Running, Graceful!Next
<1>3. CASE Exit
  <2>1. turn = 4 /\ UNCHANGED serverNow
    BY <1>3 DEF Exit, serverNow
  <2>2. \A s \in Graceful!Servers : serverNow[s] = "closed" /\ inflight[s] = {}
    BY <1>0, <2>1 DEF ShutdownInv, serverNow, Servers, Graceful!Servers
  <2>3. \/ signals > 0 /\ exit' = "ok"
        \/ failed # {} /\ exit' = "fatal"
    BY <1>0, <1>3, <2>1 DEF Exit, TypeOK, ResultInv
  <2>4. Graceful!End
    BY <1>3, <2>1, <2>2, <2>3 DEF Exit, Graceful!End, serverNow, sig
  <2> QED BY <1>0, <2>4 DEF Running, Graceful!Next
<1> QED BY <1>1, <1>2, <1>3 DEF Main

(* The process closes its servers in order and for a reason, never listens *)
(* again, and ends by itself only when every request is answered.          *)
THEOREM GracefulImplemented == Spec => ImplementsGraceful
<1>1. Init => Graceful!Init
  <2> SUFFICES ASSUME Init PROVE Graceful!Init
    OBVIOUS
  <2>1. serverNow = [s \in Servers |-> "starting"]
    BY DEF Init, serverNow, Actors, Servers
  <2> QED BY <2>1 DEF Init, Graceful!Init, Graceful!Servers, Servers, serverNow
<1>2. LInv /\ [Next]_vars => [Graceful!Next]_(Graceful!vars)
  <2>1. CASE UNCHANGED vars
    BY <2>1, Unseen DEF vars, sig, serverNow
  <2> QED BY <2>1, ActorStepsMap, SignalMaps, ServerStepsMap, MainMaps DEF Next
<1> QED BY <1>1, <1>2, LInvariance, PTL DEF Spec, ImplementsGraceful, Graceful!Spec

=============================================================================
