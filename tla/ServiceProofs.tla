--------------------------- MODULE ServiceProofs ---------------------------
(***************************************************************************)
(* Proof that Service is both Authorizer and Lifecycle, so that all that   *)
(* is proved about either holds of the running service.                    *)
(***************************************************************************)
EXTENDS Service, RefinementProofs

(* The requests in flight, as Lifecycle sees them. *)
served == [s \in {"http", "internal"} |->
              IF s = "http" THEN {c \in Conns : InFlight(c)} ELSE {}]

-----------------------------------------------------------------------------
(* The request path *)

LEMMA RequestStep == [ServiceNext]_allVars => [Next]_vars
BY DEF ServiceNext, allVars, Take, Work, Signal, Fail, Start, Register, Wait, Catch,
       Main, Close, Next

(* Inside the process the request path does what it does on its own.       *)
THEOREM RequestPathKept == ServiceSpec => Spec
<1>1. ServiceInit => Init
  BY DEF ServiceInit
<1> QED BY <1>1, RequestStep, PTL DEF ServiceSpec, Spec

-----------------------------------------------------------------------------
(* The process *)

LEMMA TakeMaps ==
    ASSUME TypeOK, NEW c \in Conns, Take(c)
    PROVE  Process!Next \/ UNCHANGED Process!vars
<1>0. /\ pc \in [Conns -> PCs] /\ UNCHANGED process /\ Process!Running
      /\ actor["http"] = "up" /\ "http" \notin down
  BY DEF Take, Accepting, TypeOK
<1>1. ASSUME NEW q \in Inputs, Admit(c, q)
      PROVE  Process!Next
  <2>1. \A d \in Conns : InFlight(d)' <=> InFlight(d) \/ d = c
    BY <1>0, <1>1 DEF Admit, InFlight
  <2>2. served' = [served EXCEPT !["http"] = @ \cup {c}]
    BY <2>1 DEF served
  <2>3. Process!Accept("http", c)
    BY <1>0, <2>2 DEF Process!Accept, Process!main, Process!sig, process, served
  <2> QED BY <2>3 DEF Process!Next, Process!Servers
<1>2. ASSUME NEW q \in Inputs, Reject(c, q)
      PROVE  UNCHANGED Process!vars
  <2>1. \A d \in Conns : InFlight(d)' <=> InFlight(d)
    BY <1>0, <1>2 DEF Reject, Free, InFlight
  <2>2. served' = served
    BY <2>1 DEF served
  <2> QED BY <1>0, <2>2 DEF Process!vars, Process!main, Process!sig, process, served
<1> QED BY <1>1, <1>2 DEF Take, Receive

LEMMA WorkMaps ==
    ASSUME TypeOK, NEW c \in Conns, Work(c)
    PROVE  Process!Next \/ UNCHANGED Process!vars
<1>0. /\ UNCHANGED process /\ Process!Running /\ InFlight(c)
      /\ \A d \in Conns \ {c} : InFlight(d)' <=> InFlight(d)
  BY HandleFrame DEF Work, Same, InFlight
<1>1. CASE InFlight(c)'
  <2>1. served' = served
    BY <1>0, <1>1 DEF served
  <2> QED BY <1>0, <2>1 DEF Process!vars, Process!main, Process!sig, process, served
<1>2. CASE ~InFlight(c)'
  <2>1. served' = [served EXCEPT !["http"] = @ \ {c}] /\ c \in served["http"]
    BY <1>0, <1>2 DEF served
  <2>2. Process!Finish("http", c)
    BY <1>0, <2>1 DEF Process!Finish, Process!main, Process!sig, process, served
  <2> QED BY <2>2 DEF Process!Next, Process!Servers
<1> QED BY <1>1, <1>2

LEMMA ProcessStep ==
    TypeOK /\ [ServiceNext]_allVars => [Process!Next]_(Process!vars)
<1> SUFFICES ASSUME TypeOK, [ServiceNext]_allVars
             PROVE  Process!Next \/ UNCHANGED Process!vars
  OBVIOUS
<1>1. ASSUME UNCHANGED process, UNCHANGED pc
      PROVE  UNCHANGED Process!vars
  <2>1. served' = served
    BY <1>1 DEF served, InFlight
  <2> QED BY <1>1, <2>1 DEF Process!vars, Process!main, Process!sig, process, served
<1>2. CASE UNCHANGED allVars
  BY <1>1, <1>2 DEF allVars, vars
<1>3. CASE Environment /\ UNCHANGED process
  BY <1>1, <1>3 DEF Environment
<1>4. CASE Signal \/ Fail \/ Start \/ Register \/ Wait \/ Catch \/ Main
  BY <1>4 DEF Signal, Fail, Start, Register, Wait, Catch, Main, Process!Next
<1>5. ASSUME NEW s \in Process!Servers, Close(s)
      PROVE  Process!Next
  BY <1>5 DEF Close, Process!Next
<1> QED BY <1>2, <1>3, <1>4, <1>5, TakeMaps, WorkMaps DEF ServiceNext

LEMMA ProcessInit == ServiceInit => Process!Init
BY DEF ServiceInit

(* With the request path inside it the process does what it does with      *)
(* requests that just come and go.                                         *)
THEOREM ProcessKept == ServiceSpec => BehavesAsProcess
<1>1. ServiceSpec => []TypeOK
  BY RequestPathKept, TypeCorrect, PTL
<1>2. ServiceSpec => Process!Spec
  BY <1>1, ProcessInit, ProcessStep, PTL DEF ServiceSpec, Process!Spec
<1> QED BY <1>2 DEF BehavesAsProcess

-----------------------------------------------------------------------------
(* What follows *)

(* What is proved about Lifecycle holds of the process of the service. *)
Proved == INSTANCE LifecycleProofs WITH
    Requests <- Conns,
    inflight <- [s \in {"http", "internal"} |->
                    IF s = "http" THEN {c \in Conns : InFlight(c)} ELSE {}]

LEMMA SameCount ==
    Process!Cardinality(Process!Actors) = Proved!Cardinality(Proved!Actors)
<1>1. Process!Actors = Proved!Actors
  BY Zenon DEF Process!Actors, Proved!Actors, Process!Servers, Proved!Servers
<1> QED BY <1>1, Zenon DEF Process!Cardinality, Proved!Cardinality

LEMMA SameStep == [Process!Next]_(Process!vars) => [Proved!Next]_(Proved!vars)
<1> USE DEF Process!main, Proved!main, Process!sig, Proved!sig, Process!Running,
            Proved!Running, Process!Return, Proved!Return
<1>1. Process!Servers = Proved!Servers
  BY DEF Process!Servers, Proved!Servers
<1>2. /\ Process!Register => Proved!Register
      /\ Process!Wait => Proved!Wait
      /\ Process!Catch => Proved!Catch
      /\ Process!Signal => Proved!Signal
  BY DEF Process!Register, Proved!Register, Process!Wait, Proved!Wait,
         Process!Catch, Proved!Catch, Process!Signal, Proved!Signal
<1>3. \A s : /\ Process!Serve(s) => Proved!Serve(s)
             /\ Process!Fail(s) => Proved!Fail(s)
             /\ Process!Close(s) => Proved!Close(s)
  BY DEF Process!Serve, Proved!Serve, Process!Fail, Proved!Fail,
         Process!Close, Proved!Close
<1>4. \A s, r : /\ Process!Accept(s, r) => Proved!Accept(s, r)
                /\ Process!Finish(s, r) => Proved!Finish(s, r)
  BY DEF Process!Accept, Proved!Accept, Process!Finish, Proved!Finish
<1>5. Process!Main => Proved!Main
  <2>1. \A i : Process!ServerAt(i) = Proved!ServerAt(i)
    BY DEF Process!ServerAt, Proved!ServerAt
  <2>2. /\ Process!First => Proved!First
        /\ Process!InterruptSignal => Proved!InterruptSignal
    BY DEF Process!First, Proved!First, Process!InterruptSignal, Proved!InterruptSignal
  <2>3. Process!Exit => Proved!Exit
    BY SameCount DEF Process!Exit, Proved!Exit
  <2>4. /\ Process!Shutdown => Proved!Shutdown
        /\ Process!Drained => Proved!Drained
    BY <2>1, Zenon DEF Process!Shutdown, Proved!Shutdown, Process!Drained, Proved!Drained
  <2> QED BY <2>2, <2>3, <2>4 DEF Process!Main, Proved!Main
<1>6. Process!Next => Proved!Next
  BY <1>1, <1>2, <1>3, <1>4, <1>5 DEF Process!Next, Proved!Next
<1>7. UNCHANGED Process!vars => UNCHANGED Proved!vars
  BY DEF Process!vars, Proved!vars
<1> QED BY <1>6, <1>7

LEMMA SameProcess == ServiceSpec => Proved!Spec
<1>1. Process!Init => Proved!Init
  BY DEF Process!Init, Proved!Init, Process!Actors, Proved!Actors, Process!Servers,
         Proved!Servers
<1> QED BY <1>1, SameStep, ProcessKept, PTL DEF BehavesAsProcess, Process!Spec, Proved!Spec

(* A process that ends by itself leaves no evaluation behind.              *)
THEOREM NothingLost == ServiceSpec => []NothingCutOff
<1>1. Proved!DrainedBeforeExit => NothingCutOff
  BY DEF Proved!DrainedBeforeExit, Proved!Servers, NothingCutOff
<1> QED BY <1>1, SameProcess, Proved!DrainedCorrect, PTL

(* To clients and supervisor the service closes its servers in order and   *)
(* for a reason, and ends by itself only when every request is answered.   *)
THEOREM ServiceGraceful == ServiceSpec => Proved!ImplementsGraceful
BY SameProcess, Proved!GracefulImplemented, PTL

(* Whatever the process does by itself brings it closer to its end, while  *)
(* evaluations begin, go on and end.                                       *)
THEOREM ServiceEndComesCloser == ServiceSpec => Proved!EndComesCloser
BY SameProcess, Proved!EndCorrect, PTL

(* The exit status of the service tells why it ended.                      *)
THEOREM ServiceExit == ServiceSpec => []Process!ExitTellsWhy
<1>1. Proved!ExitTellsWhy => Process!ExitTellsWhy
  BY DEF Proved!ExitTellsWhy, Process!ExitTellsWhy
<1> QED BY <1>1, SameProcess, Proved!ExitCorrect, PTL

(* Once a signal was sent, only evaluations can hold up its end.           *)
THEOREM ServiceWayOut == ServiceSpec => []OnlyEvaluationsHoldUp
<1>1. Proved!OnlyRequestsHoldUp => OnlyEvaluationsHoldUp
  <2> SUFFICES ASSUME Proved!OnlyRequestsHoldUp, Process!Running, signals > 0
               PROVE  \/ Process!MayGoOn
                      \/ blocked /\ turn = 2 /\ \E c \in Conns : InFlight(c)
    BY DEF OnlyEvaluationsHoldUp
  <2>1. CASE Proved!MayGoOn
    <3>1. Proved!Servers = Process!Servers
      BY DEF Proved!Servers, Process!Servers
    <3>2. \A i : Proved!ServerAt(i) = Process!ServerAt(i)
      BY DEF Proved!ServerAt, Process!ServerAt
    <3> QED BY <2>1, <3>1, <3>2, SameCount DEF Proved!MayGoOn, Process!MayGoOn
  <2>2. CASE blocked /\ served[Proved!ServerAt(turn)] # {}
    BY <2>2 DEF served, Proved!ServerAt
  <2> QED BY <2>1, <2>2 DEF Proved!OnlyRequestsHoldUp, Proved!Running, Process!Running, served
<1> QED BY <1>1, SameProcess, Proved!OnlyRequestsCorrect, PTL

(* Nobody is told "yes" unjustified while the process starts or drains.    *)
THEOREM ServiceAllows == ServiceSpec => []AllowsAreJustified
BY RequestPathKept, AllowsCorrect, PTL

(* Nor does the process change what the service is to its clients: an      *)
(* oracle that gives each request it takes one answer, which is an error   *)
(* or what the API server's recent past justifies.                         *)
THEOREM ServiceImplementsOracle == ServiceSpec => ImplementsOracle
BY RequestPathKept, OracleImplemented, PTL

(* However the shutdown falls into an evaluation, it goes on where it was. *)
THEOREM ServiceAdvances == ServiceSpec => EvaluationsAdvance
BY RequestPathKept, AdvanceCorrect, PTL

=============================================================================
