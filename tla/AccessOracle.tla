---------------------------- MODULE AccessOracle ----------------------------
(***************************************************************************)
(* What opa-openshift promises whoever asks it: a request is turned down,  *)
(* fails, or is answered by what the API server has said since one moment  *)
(* that is recent enough, of its own question or of one whose namespaces   *)
(* have the same text when they are joined.  There is no cache here, no    *)
(* matcher, no order of calls.                                             *)
(***************************************************************************)
EXTENDS Verdict

CONSTANTS
    Conns,      \* connections
    Bounded,    \* answers have an age limit
    MaxStale    \* and this is how long an answer may be kept

VARIABLES
    busy,       \* connections that wait for an answer
    req,        \* the input a connection asked about, or asks about
    answer,     \* what it was told
    since,      \* when it asked, zero when it does not wait
    longest     \* the longest time an answer took so far

asking == <<busy, req, answer, since, longest>>
vars == <<api, asking>>

-----------------------------------------------------------------------------

Init ==
    /\ APIInit
    /\ busy = {}
    /\ req = [c \in Conns |-> CHOOSE q \in Inputs : TRUE]
    /\ answer = [c \in Conns |-> Pending]
    /\ since = [c \in Conns |-> 0]
    /\ longest = 0

(* Only a valid request is worth an answer. *)
Ask(c, q) ==
    /\ c \notin busy
    /\ Valid(q)
    /\ busy' = busy \cup {c}
    /\ req' = [req EXCEPT ![c] = q]
    /\ answer' = [answer EXCEPT ![c] = Pending]
    /\ since' = [since EXCEPT ![c] = now]
    /\ UNCHANGED <<api, longest>>

TurnDown(c, q) ==
    /\ c \notin busy
    /\ req' = [req EXCEPT ![c] = q]
    /\ \E status \in {400, 500} : answer' = [answer EXCEPT ![c] = Failure(status)]
    /\ UNCHANGED <<api, busy, since, longest>>

(* The answer ends the wait. *)
Say(c, a) ==
    /\ c \in busy
    /\ busy' = busy \ {c}
    /\ answer' = [answer EXCEPT ![c] = a]
    /\ since' = [since EXCEPT ![c] = 0]
    /\ longest' = IF now - since[c] > longest THEN now - since[c] ELSE longest
    /\ UNCHANGED <<api, req>>

Fail(c) == \E status \in {401, 500} : Say(c, Failure(status))

Tell(c) ==
    \E a \in Answer :
        /\ Say(c, a)
        /\ \E t \in 0 .. now :
            /\ Fits(req[c], a, t)
            /\ Bounded => t >= now - MaxStale - longest'

(* Access changes as it likes. *)
Environment ==
    /\ \/ Tick
       \/ \E f \in Facts : Flip(f)
    /\ UNCHANGED asking

Next ==
    \/ Environment
    \/ \E c \in Conns :
        \/ \E q \in Inputs : Ask(c, q) \/ TurnDown(c, q)
        \/ Fail(c) \/ Tell(c)

Spec == Init /\ [][Next]_vars

=============================================================================
