------------------------------ MODULE Service ------------------------------
(***************************************************************************)
(* The running service: the request path of Authorizer inside the process  *)
(* of Lifecycle.  A connection is served while the public server accepts,  *)
(* its goroutine is what Shutdown waits for, and it is gone when the       *)
(* process is.  The internal server's probes are left to Lifecycle.        *)
(***************************************************************************)
EXTENDS AuthorizerInvariant

CONSTANT MaxSignals   \* bound: how often SIGINT or SIGTERM is sent

VARIABLES
    actor, returned, first, turn, blocked, down, notified, pending, closed,
    signals, failed, exit   \* as in Lifecycle

process == <<actor, returned, first, turn, blocked, down, notified, pending, closed,
             signals, failed, exit>>

Process == INSTANCE Lifecycle WITH
    Requests <- Conns,
    inflight <- [s \in {"http", "internal"} |->
                    IF s = "http" THEN {c \in Conns : InFlight(c)} ELSE {}]

-----------------------------------------------------------------------------

ServiceInit == Init /\ Process!Init

(* A plausible mistake: the listener stays open until the process ends. *)
AcceptingToTheEnd == Process!Running /\ actor["http"] # "starting"

(* The public server takes requests. *)
Accepting == Process!Running /\ actor["http"] = "up" /\ "http" \notin down

Take(c) == Accepting /\ Receive(c) /\ UNCHANGED process

(* The goroutine of a request goes on as long as the process exists. *)
Work(c) == Process!Running /\ Handle(c) /\ UNCHANGED process

Signal == UNCHANGED vars /\ Process!Signal

Fail == UNCHANGED vars /\ \E s \in Process!Servers : Process!Fail(s)

Start == UNCHANGED vars /\ \E s \in Process!Servers : Process!Serve(s)

Register == UNCHANGED vars /\ Process!Register

Wait == UNCHANGED vars /\ Process!Wait

Catch == UNCHANGED vars /\ Process!Catch

Close(s) == UNCHANGED vars /\ Process!Close(s)

Main == UNCHANGED vars /\ Process!Main

ServiceNext ==
    \/ Environment /\ UNCHANGED process
    \/ \E c \in Conns : Take(c) \/ Work(c)
    \/ Signal \/ Fail \/ Start \/ Register \/ Wait \/ Catch \/ Main
    \/ \E s \in Process!Servers : Close(s)

allVars == <<vars, process>>

ServiceSpec == ServiceInit /\ [][ServiceNext]_allVars

(* Go schedules every goroutine, and every call to the API server or to the *)
(* cache returns.  That requests end is a consequence here.                *)
FairServiceSpec ==
    /\ ServiceSpec
    /\ \A c \in Conns : WF_allVars(Work(c))
    /\ WF_allVars(Register) /\ WF_allVars(Wait) /\ WF_allVars(Catch) /\ WF_allVars(Main)
    /\ \A s \in Process!Servers : WF_allVars(Close(s))

-----------------------------------------------------------------------------
(* Properties *)

(* To its supervisor the service behaves as Lifecycle says: a request is   *)
(* accepted and finished only when a server may, whatever its evaluation   *)
(* does in between (main.go: the public server's Handler is handler.New).  *)
BehavesAsProcess == Process!Spec

(* A process that ends by itself leaves no evaluation behind, neither one  *)
(* between two reviews nor one that is about to save its answer            *)
(* (main.go: Shutdown; authorizer.go Authorize).                           *)
NothingCutOff ==
    exit \in {"ok", "fatal"} => \A c \in Conns : ~InFlight(c)

(* Once a signal was sent, nothing but evaluations of the public server    *)
(* can hold up the end of the process: never the signal, the internal      *)
(* server or two parties that wait for each other (main.go: run.Group).    *)
OnlyEvaluationsHoldUp ==
    Process!Running /\ signals > 0 =>
        \/ Process!MayGoOn
        \/ blocked /\ turn = 2 /\ \E c \in Conns : InFlight(c)

(* A signal ends the process because every evaluation comes to an end:     *)
(* nothing but the calls it makes can hold up the shutdown (main.go:       *)
(* Shutdown without a deadline; authorizer.go authorizeInner).             *)
SignalEndsService == Process!SignalEndsProcess

(* Whoever is admitted is answered, even when the shutdown begins before   *)
(* the first review, unless the process is aborted (main.go: Shutdown and  *)
(* run.Group; handler.go New).                                             *)
AdmittedAreAnswered ==
    \A c \in Conns :
        pc[c] = "lookup" ~> pc[c] = "answered" \/ exit \in {"killed", "panic"}

=============================================================================
