--------------------------- MODULE GracefulProcess ---------------------------
(***************************************************************************)
(* What the process promises its clients and its supervisor: two servers   *)
(* that are closed in order and for a reason, and an end that cuts off no  *)
(* request and says why it came.  There is no group of actors here, no     *)
(* channel and no call that waits.                                         *)
(***************************************************************************)
EXTENDS Integers

CONSTANT Requests   \* requests that a server may be handling

Servers == {"http", "internal"}

VARIABLES
    ready,      \* signals are heard
    server,     \* "starting", "listening" or "closed", for ever
    inflight,   \* requests each server is handling
    asked,      \* how often the process was asked to stop
    broken,     \* servers that failed by themselves
    exit        \* how the process ended

vars == <<ready, server, inflight, asked, broken, exit>>

Init ==
    /\ ready = FALSE
    /\ server = [s \in Servers |-> "starting"]
    /\ inflight = [s \in Servers |-> {}]
    /\ asked = 0 /\ broken = {}
    /\ exit = "none"

-----------------------------------------------------------------------------

GetReady == ready' = TRUE /\ UNCHANGED <<server, inflight, asked, broken, exit>>

Listen(s) ==
    /\ server[s] = "starting"
    /\ server' = [server EXCEPT ![s] = "listening"]
    /\ UNCHANGED <<ready, inflight, asked, broken, exit>>

Break(s) ==
    /\ server[s] # "closed"
    /\ server' = [server EXCEPT ![s] = "closed"]
    /\ broken' = broken \cup {s}
    /\ UNCHANGED <<ready, inflight, asked, exit>>

Accept(s, r) ==
    /\ server[s] = "listening"
    /\ inflight' = [inflight EXCEPT ![s] = @ \cup {r}]
    /\ UNCHANGED <<ready, server, asked, broken, exit>>

Finish(s, r) ==
    /\ r \in inflight[s]
    /\ inflight' = [inflight EXCEPT ![s] = @ \ {r}]
    /\ UNCHANGED <<ready, server, asked, broken, exit>>

(* The first reason to stop may come before anybody hears it, which ends   *)
(* the process, and one that comes during the shutdown may cut it short.   *)
Ask ==
    /\ asked' = asked + 1
    /\ \/ exit' = exit
       \/ ~ready /\ exit' = "killed"
       \/ (asked > 0 \/ broken # {}) /\ exit' = "panic"
    /\ UNCHANGED <<ready, server, inflight, broken>>

(* Health and metrics are served until the last request is answered.       *)
Stop(s) ==
    /\ asked > 0 \/ broken # {}
    /\ s = "internal" => server["http"] = "closed" /\ inflight["http"] = {}
    /\ server' = [server EXCEPT ![s] = "closed"]
    /\ UNCHANGED <<ready, inflight, asked, broken, exit>>

End ==
    /\ \A s \in Servers : server[s] = "closed" /\ inflight[s] = {}
    /\ \/ asked > 0 /\ exit' = "ok"
       \/ broken # {} /\ exit' = "fatal"
    /\ UNCHANGED <<ready, server, inflight, asked, broken>>

Next ==
    /\ exit = "none"
    /\ \/ GetReady \/ Ask \/ End
       \/ \E s \in Servers :
             \/ Listen(s) \/ Break(s) \/ Stop(s)
             \/ \E r \in Requests : Accept(s, r) \/ Finish(s, r)

Spec == Init /\ [][Next]_vars

=============================================================================
