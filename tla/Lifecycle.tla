------------------------------ MODULE Lifecycle ------------------------------
(***************************************************************************)
(* The life of the process after start-up: main.go's run.Group of three    *)
(* actors (the signal handler, the public server and the internal server), *)
(* their interrupt functions, and the way the process ends.                *)
(*                                                                         *)
(* run.Group (github.com/oklog/run) is external: Run waits for the first   *)
(* actor to return, calls every interrupt function in the order of Add,    *)
(* waits for the other actors and returns what the first one returned.     *)
(* http.Server is external: Shutdown closes the listener, at which         *)
(* ListenAndServe returns, and then waits until no request is in flight.   *)
(***************************************************************************)
EXTENDS Integers, Sequences, FiniteSets

CONSTANTS
    Requests,    \* requests that a server may be handling
    MaxSignals   \* bound: how often SIGINT or SIGTERM is sent

Servers == {"http", "internal"}
Actors == {"signal"} \cup Servers

VARIABLES
    actor,      \* how far each actor's goroutine is
    returned,   \* the group's channel of errors: actors that have returned
    first,      \* what the first one returned, once Run has taken it
    turn,       \* the interrupt function being called; 0: none, 4: all done
    blocked,    \* that function is inside Shutdown
    down,       \* servers told to shut down
    notified,   \* signal.Notify was called
    pending,    \* the channel sig holds a signal
    closed,     \* the channel sig is closed
    signals,    \* signals sent so far
    failed,     \* history: servers that failed by themselves
    inflight,   \* requests each server is handling
    exit        \* how the process ended

main == <<first, turn, blocked>>
sig == <<notified, pending, closed, signals>>
vars == <<actor, returned, main, down, sig, failed, inflight, exit>>

(* Type invariant.  The channel of signals is closed by its interrupt      *)
(* function and by nobody before it, which would make that function panic  *)
(* (main.go:144).                                                          *)
TypeOK ==
    /\ actor \in [Actors -> {"starting", "registered", "up", "returned"}]
    /\ returned \in Seq({"nil", "error"})
    /\ first \in {"none", "nil", "error"}
    /\ turn \in 0 .. 4
    /\ down \subseteq Servers
    /\ failed \subseteq Servers
    /\ blocked \in BOOLEAN /\ notified \in BOOLEAN
    /\ pending \in BOOLEAN /\ closed \in BOOLEAN
    /\ closed => turn > 1
    /\ signals \in Nat
    /\ inflight \in [Servers -> SUBSET Requests]
    /\ exit \in {"none", "ok", "fatal", "panic", "killed"}

Init ==
    /\ actor = [a \in Actors |-> "starting"]
    /\ returned = <<>>
    /\ first = "none" /\ turn = 0 /\ blocked = FALSE
    /\ down = {} /\ failed = {}
    /\ notified = FALSE /\ pending = FALSE /\ closed = FALSE
    /\ signals = 0
    /\ inflight = [s \in Servers |-> {}]
    /\ exit = "none"

Running == exit = "none"

Return(a, result) ==
    /\ actor' = [actor EXCEPT ![a] = "returned"]
    /\ returned' = Append(returned, result)

-----------------------------------------------------------------------------
(* The signal actor *)

Register ==
    /\ Running /\ actor["signal"] = "starting"
    /\ actor' = [actor EXCEPT !["signal"] = "registered"]
    /\ notified' = TRUE
    /\ UNCHANGED <<returned, main, down, pending, closed, signals, failed, inflight, exit>>

Wait ==
    /\ Running /\ actor["signal"] = "registered"
    /\ actor' = [actor EXCEPT !["signal"] = "up"]
    /\ UNCHANGED <<returned, main, down, sig, failed, inflight, exit>>

(* A plausible mistake: the actor closes the channel when it returns. *)
CatchClosing ==
    /\ Running /\ actor["signal"] = "up"
    /\ pending \/ closed
    /\ pending' = FALSE /\ closed' = TRUE
    /\ Return("signal", "nil")
    /\ UNCHANGED <<main, down, notified, signals, failed, inflight, exit>>

(* The receive from sig succeeds: it holds a signal or is closed. *)
Catch ==
    /\ Running /\ actor["signal"] = "up"
    /\ pending \/ closed
    /\ pending' = FALSE
    /\ Return("signal", "nil")
    /\ UNCHANGED <<main, down, notified, closed, signals, failed, inflight, exit>>

(* A plausible mistake: an unbuffered channel, on which a signal is lost   *)
(* unless the actor is already waiting for it.                             *)
SignalUnbuffered ==
    /\ Running /\ signals < MaxSignals
    /\ signals' = signals + 1
    /\ pending' = (pending \/ (notified /\ ~closed /\ actor["signal"] = "up"))
    /\ exit' = IF ~notified THEN "killed" ELSE IF closed THEN "panic" ELSE exit
    /\ UNCHANGED <<actor, returned, main, down, notified, closed, failed, inflight>>

(* Somebody sends SIGINT or SIGTERM.  Until Notify the default action ends *)
(* the process; the runtime drops a signal that finds the buffer full, and *)
(* panics on a channel that was closed and never unregistered.             *)
Signal ==
    /\ Running /\ signals < MaxSignals
    /\ signals' = signals + 1
    /\ pending' = (pending \/ (notified /\ ~closed))
    /\ exit' = IF ~notified THEN "killed" ELSE IF closed THEN "panic" ELSE exit
    /\ UNCHANGED <<actor, returned, main, down, notified, closed, failed, inflight>>

-----------------------------------------------------------------------------
(* The servers *)

Serve(s) ==
    /\ Running /\ actor[s] = "starting" /\ s \notin down
    /\ actor' = [actor EXCEPT ![s] = "up"]
    /\ UNCHANGED <<returned, main, down, sig, failed, inflight, exit>>

(* The address is taken, or the listener breaks. *)
Fail(s) ==
    /\ Running /\ actor[s] \in {"starting", "up"} /\ s \notin down
    /\ Return(s, "error")
    /\ failed' = failed \cup {s}
    /\ UNCHANGED <<main, down, sig, inflight, exit>>

(* ErrServerClosed, at once or instead of starting to listen. *)
Close(s) ==
    /\ Running /\ actor[s] \in {"starting", "up"} /\ s \in down
    /\ Return(s, "error")
    /\ UNCHANGED <<main, down, sig, failed, inflight, exit>>

Accept(s, r) ==
    /\ Running /\ actor[s] = "up" /\ s \notin down
    /\ inflight' = [inflight EXCEPT ![s] = @ \cup {r}]
    /\ UNCHANGED <<actor, returned, main, down, sig, failed, exit>>

(* The handler returns, with an answer or an error. *)
Finish(s, r) ==
    /\ Running /\ r \in inflight[s]
    /\ inflight' = [inflight EXCEPT ![s] = @ \ {r}]
    /\ UNCHANGED <<actor, returned, main, down, sig, failed, exit>>

-----------------------------------------------------------------------------
(* The goroutine of main: Group.Run and what follows it *)

(* A plausible mistake: every result of an actor is taken for the first. *)
FirstOfEach ==
    /\ Running /\ returned # <<>>
    /\ first' = Head(returned) /\ turn' = 1
    /\ UNCHANGED <<actor, returned, blocked, down, sig, failed, inflight, exit>>

First ==
    /\ Running /\ turn = 0 /\ returned # <<>>
    /\ first' = Head(returned) /\ turn' = 1
    /\ UNCHANGED <<actor, returned, blocked, down, sig, failed, inflight, exit>>

InterruptSignal ==
    /\ Running /\ turn = 1
    /\ closed' = TRUE /\ turn' = 2
    /\ UNCHANGED <<actor, returned, first, blocked, down, notified, pending, signals,
                   failed, inflight, exit>>

(* A plausible mistake: the internal server is added to the group first. *)
ServerAtInternalFirst(i) == IF i = 2 THEN "internal" ELSE "http"

(* The servers in the order of their interrupt functions. *)
ServerAt(i) == IF i = 2 THEN "http" ELSE "internal"

Shutdown ==
    /\ Running /\ turn \in {2, 3} /\ ~blocked
    /\ down' = down \cup {ServerAt(turn)}
    /\ blocked' = TRUE
    /\ UNCHANGED <<actor, returned, first, turn, sig, failed, inflight, exit>>

(* A plausible mistake: Close instead of Shutdown, which does not wait. *)
DrainedAtOnce ==
    /\ Running /\ blocked
    /\ blocked' = FALSE /\ turn' = turn + 1
    /\ UNCHANGED <<actor, returned, first, down, sig, failed, inflight, exit>>

(* Shutdown returns when no request is in flight; its context never ends. *)
Drained ==
    /\ Running /\ blocked /\ inflight[ServerAt(turn)] = {}
    /\ blocked' = FALSE /\ turn' = turn + 1
    /\ UNCHANGED <<actor, returned, first, down, sig, failed, inflight, exit>>

(* A plausible mistake: the last result of an actor decides. *)
ExitWithLast ==
    /\ Running /\ turn = 4 /\ Len(returned) = Cardinality(Actors)
    /\ exit' = IF returned[Len(returned)] = "nil" THEN "ok" ELSE "fatal"
    /\ UNCHANGED <<actor, returned, main, down, sig, failed, inflight>>

(* All actors have returned; an error of the first is fatal. *)
Exit ==
    /\ Running /\ turn = 4 /\ Len(returned) = Cardinality(Actors)
    /\ exit' = IF first = "nil" THEN "ok" ELSE "fatal"
    /\ UNCHANGED <<actor, returned, main, down, sig, failed, inflight>>

-----------------------------------------------------------------------------

Main == First \/ InterruptSignal \/ Shutdown \/ Drained \/ Exit

Next ==
    \/ Register \/ Wait \/ Catch \/ Signal
    \/ \E s \in Servers :
          \/ Serve(s) \/ Fail(s) \/ Close(s)
          \/ \E r \in Requests : Accept(s, r) \/ Finish(s, r)
    \/ Main

Spec == Init /\ [][Next]_vars

(* Go schedules every goroutine, and every request in flight is answered   *)
(* (what RequestsAnswered of Authorizer says of the public server).        *)
FairSpec ==
    /\ Spec
    /\ WF_vars(Register) /\ WF_vars(Wait) /\ WF_vars(Catch) /\ WF_vars(Main)
    /\ \A s \in Servers :
          /\ WF_vars(Close(s))
          /\ \A r \in Requests : WF_vars(Finish(s, r))

-----------------------------------------------------------------------------
(* Properties *)

(* A process that ends by itself cuts off no request (main.go: the         *)
(* interrupt functions call Shutdown, not Close, and Run waits for them).  *)
DrainedBeforeExit ==
    exit \in {"ok", "fatal"} => \A s \in Servers : inflight[s] = {}

(* Health and metrics stay available until the public server has answered  *)
(* its last request (main.go: the order in which actors are added).        *)
InternalOutlivesPublic ==
    "internal" \in down => "http" \in down /\ inflight["http"] = {}

(* The exit status tells why: success after a signal, failure because a    *)
(* server failed, whatever the servers return when they are shut down.     *)
ExitTellsWhy ==
    /\ exit = "ok" => signals > 0
    /\ exit = "fatal" => failed # {}

(* With no server failing, one signal never aborts a process that          *)
(* listens for it; a second one while requests drain does.                 *)
OneSignalIsGraceful ==
    signals <= 1 /\ failed = {} /\ notified => exit \in {"none", "ok"}

(* Somebody can go on: an actor, or the goroutine of main. *)
MayGoOn ==
    \/ actor["signal"] \in {"starting", "registered"}
    \/ actor["signal"] = "up" /\ (pending \/ closed)
    \/ \E s \in Servers : actor[s] # "returned" /\ s \in down
    \/ turn = 0 /\ returned # <<>>
    \/ turn = 1
    \/ turn \in {2, 3} /\ (blocked => inflight[ServerAt(turn)] = {})
    \/ turn = 4 /\ Len(returned) = Cardinality(Actors)

(* Once a signal was sent, nothing but requests in flight can hold up the  *)
(* end of the process: no signal is lost, and no two of the actors, the    *)
(* interrupt functions and main wait for each other (main.go: the channel  *)
(* is buffered, every actor has an interrupt function that stops it).      *)
OnlyRequestsHoldUp ==
    Running /\ signals > 0 =>
        MayGoOn \/ (blocked /\ inflight[ServerAt(turn)] # {})

(* How many steps are left at most, requests and signals not counted. *)
StepsOf(state) == CASE state = "starting"   -> 3
                    [] state = "registered" -> 2
                    [] state = "up"         -> 1
                    [] OTHER                -> 0

StepsLeft ==
    StepsOf(actor["signal"]) + StepsOf(actor["http"]) + StepsOf(actor["internal"])
    + 2 * (4 - turn) - (IF blocked THEN 1 ELSE 0) + (IF Running THEN 1 ELSE 0)

(* Whatever the process does by itself brings it closer to its end:        *)
(* nothing is started again, no result is taken twice and no shutdown is   *)
(* repeated, in whatever order actors return (main.go: run.Group).         *)
EndComesCloser ==
    [][\/ StepsLeft' \in 0 .. StepsLeft - 1
       \/ StepsLeft' = StepsLeft /\ UNCHANGED <<actor, returned, main, down, closed, exit>>]_vars

Graceful == INSTANCE GracefulProcess WITH
    ready  <- notified,
    server <- [s \in Servers |-> IF s \in down \/ actor[s] = "returned" THEN "closed"
                                 ELSE IF actor[s] = "up" THEN "listening"
                                                         ELSE "starting"],
    asked  <- signals,
    broken <- failed

(* Seen from outside, the group of actors, its interrupt functions and the *)
(* channels between them are a process that closes its servers in order    *)
(* and for a reason, never listens again and ends when all is answered     *)
(* (main.go: run.Group, Shutdown, signal.Notify).                          *)
ImplementsGraceful == Graceful!Spec

(* A signal ends the process (main.go: the channel of signals is buffered, *)
(* no interrupt function blocks on anything but requests).                 *)
SignalEndsProcess == signals > 0 ~> exit # "none"

=============================================================================
