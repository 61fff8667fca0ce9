------------------------------ MODULE Rollout ------------------------------
(***************************************************************************)
(* Several opa-openshift processes over one memcached, which outlives them *)
(* all: processes crash, are stopped and are started with other flags, as  *)
(* a rollout does, at any moment and without regard to what they evaluate. *)
(*                                                                         *)
(* What Authorizer says about the evaluation of one request is left out:   *)
(* an answer is what the flags of its process put into it, that is the     *)
(* label keys and their operator, and which kind of review it rests on.    *)
(***************************************************************************)
EXTENDS Matcher, ResponseCache

CONSTANTS
    Flags,   \* the flags in use: keys (--opa.matcher), op and ssar
    Procs,   \* processes
    Down     \* instead of flags: the process does not run

VARIABLES
    runs,        \* the flags a process runs with, or Down
    pc,          \* where its request is
    req,         \* the input it handles, or handled last
    answer,      \* what it answers: the keys, and the flags they come with
    answeredAt,  \* history: when it did
    lastRun      \* history: when a process last ran with some flags

procs == <<runs, pc, req, answer, answeredAt, lastRun>>
vars == <<api, cache, procs>>

(* Requests name no namespaces, whose order would be part of the key, and  *)
(* no migration is going on.                                               *)
ASSUME RolloutAssumption ==
    /\ Flags # {} /\ Down \notin Flags
    /\ \A f \in Flags : f.keys \subseteq Labels
    /\ \A q \in Inputs : Requested(q) = {}
    /\ ~ViaQToOTELMigration
    /\ Backend = "memcached"

-----------------------------------------------------------------------------

(* The answer of a process with flags f to request q. *)
AnswerOf(f, q) == [keys |-> ForRequest(f.keys, q).keys, by |-> f]

Key(p) == CacheKey(req[p], <<>>, ForRequest(runs[p].keys, req[p]).keys)

Init ==
    /\ APIInit
    /\ cache = [k \in {} |-> {}]
    /\ runs = [p \in Procs |-> Down]
    /\ pc = [p \in Procs |-> "idle"]
    /\ req = [p \in Procs |-> CHOOSE q \in Inputs : TRUE]
    /\ answer = [p \in Procs |-> [keys |-> {}, by |-> CHOOSE f \in Flags : TRUE]]
    /\ answeredAt = [p \in Procs |-> 0]
    /\ lastRun = [f \in Flags |-> -1]

Start(p, f) ==
    /\ runs[p] = Down
    /\ runs' = [runs EXCEPT ![p] = f]
    /\ UNCHANGED <<api, cache, pc, req, answer, answeredAt, lastRun>>

(* A crash, a kill or the end of a shutdown.  What the process has saved   *)
(* stays in memcached, and what it was about to save is lost.              *)
Stop(p) ==
    /\ runs[p] # Down
    /\ lastRun' = [lastRun EXCEPT ![runs[p]] = now]
    /\ runs' = [runs EXCEPT ![p] = Down]
    /\ pc' = [pc EXCEPT ![p] = "idle"]
    /\ UNCHANGED <<api, cache, req, answer, answeredAt>>

Receive(p, q) ==
    /\ runs[p] # Down /\ pc[p] \in {"idle", "answered"}
    /\ Valid(q)
    /\ req' = [req EXCEPT ![p] = q]
    /\ pc' = [pc EXCEPT ![p] = "lookup"]
    /\ UNCHANGED <<api, cache, runs, answer, answeredAt, lastRun>>

Reply(p, a) ==
    /\ answer' = [answer EXCEPT ![p] = a]
    /\ answeredAt' = [answeredAt EXCEPT ![p] = now]
    /\ pc' = [pc EXCEPT ![p] = "answered"]
    /\ UNCHANGED <<api, runs, req, lastRun>>

(* A plausible mistake: an answer is saved again whenever it is found. *)
HitSavingAgain(p) ==
    /\ pc[p] = "lookup"
    /\ Live(Key(p))
    /\ answer' = [answer EXCEPT ![p] = cache[Key(p)].answer]
    /\ pc' = [pc EXCEPT ![p] = "store"]
    /\ UNCHANGED <<api, cache, runs, req, answeredAt, lastRun>>

Hit(p) ==
    /\ pc[p] = "lookup"
    /\ Live(Key(p))
    /\ Reply(p, cache[Key(p)].answer)
    /\ cache' = AfterHit(Key(p))

Evaluate(p) ==
    /\ pc[p] = "lookup"
    /\ ~Live(Key(p))
    /\ answer' = [answer EXCEPT ![p] = AnswerOf(runs[p], req[p])]
    /\ pc' = [pc EXCEPT ![p] = "store"]
    /\ UNCHANGED <<api, cache, runs, req, answeredAt, lastRun>>

(* A failure to save is only logged. *)
Store(p) ==
    /\ pc[p] = "store"
    /\ Reply(p, answer[p])
    /\ \/ cache' = Saved(Key(p), answer[p], now)
       \/ SaveMayFail /\ UNCHANGED cache

(* Any call fails: the request ends with an error. *)
Fail(p) ==
    /\ pc[p] = "lookup"
    /\ pc' = [pc EXCEPT ![p] = "idle"]
    /\ UNCHANGED <<api, cache, runs, req, answer, answeredAt, lastRun>>

Next ==
    \/ Tick /\ UNCHANGED <<cache, procs>>
    \/ \E k \in DOMAIN cache : Evict(k) /\ UNCHANGED <<api, procs>>
    \/ \E p \in Procs :
        \/ \E f \in Flags : Start(p, f)
        \/ \E q \in Inputs : Receive(p, q)
        \/ Stop(p) \/ Hit(p) \/ Evaluate(p) \/ Store(p) \/ Fail(p)

Spec == Init /\ [][Next]_vars

-----------------------------------------------------------------------------
(* Properties *)

(* A process ran with flags f at or after time t. *)
RanSince(f, t) == (\E p \in Procs : runs[p] = f) \/ lastRun[f] >= t

(* Type invariant.  A process that is down evaluates nothing, and what one *)
(* saves comes from its own flags, never from the cache (authorizer.go     *)
(* Authorize returns what it finds there and saves only what it evaluated). *)
TypeOK ==
    /\ APITypeOK
    /\ \A k \in DOMAIN cache :
          cache[k] \in [answer : [keys : SUBSET Labels, by : Flags],
                        setAt : Nat, since : Nat]
    /\ runs \in [Procs -> Flags \cup {Down}]
    /\ pc \in [Procs -> {"idle", "lookup", "store", "answered"}]
    /\ \A p \in Procs : /\ runs[p] = Down => pc[p] = "idle"
                        /\ pc[p] = "store" => answer[p].by = runs[p]
    /\ req \in [Procs -> Inputs]
    /\ answer \in [Procs -> [keys : SUBSET Labels, by : Flags]]
    /\ answeredAt \in [Procs -> Nat]
    /\ lastRun \in [Flags -> Nat \cup {-1}]

(* A change of --opa.matcher takes effect with the restart: what was saved *)
(* under the old keys answers no request of the new process (cache.go      *)
(* hashMatcher), wherever the old one was when it ended.                   *)
KeysAreCurrent ==
    \A p \in Procs : pc[p] = "answered" =>
        answer[p].keys = ForRequest(runs[p].keys, req[p]).keys

(* Where entries expire, a rollout of other flags is over one TTL after    *)
(* the last process with the old ones has ended: no answer carries an      *)
(* operator, or rests on a kind of review, that none has run with since    *)
(* (cache.go generateCacheKey, memcached.go).                              *)
OldFlagsEndWithTTL ==
    Expires => \A p \in Procs : pc[p] = "answered" =>
        RanSince(answer[p].by, answeredAt[p] - MaxAge)

(* config.go:117 "When several matchers are supplied (coma-separated       *)
(* string), this is the logical operation to perform": the operator of an  *)
(* answer is the one of the process that gives it.                         *)
OperatorIsCurrent ==
    \A p \in Procs : pc[p] = "answered" => answer[p].by.op = runs[p].op

=============================================================================
