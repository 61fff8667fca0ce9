# A TLA+ model of opa-openshift

opa-openshift answers one question over HTTP, in the form of the OPA Data API:
may this user read or write this resource of this tenant, and if so, for which
namespaces?  It asks the OpenShift API server (access reviews and the project
list), translates the result into a label matcher, and caches the answer.

The modules here follow the Go code of `internal/` and `main.go`.  TLC checks
them on small instances; TLAPS proves the safety properties of the passing runs for
all values of the constants, and that the request path and the process each implement
an abstract specification, apart and together.

    tlc -config Staleness.cfg MCAuthorizer.tla     # any run of the table below
    tlapm AuthorizerProofs.tla                     # the proofs

## The system

| Part | Code | State it keeps | Operations |
|---|---|---|---|
| HTTP handler | `internal/handler/handler.go` | the shared matcher (closure), nothing else | one per request: validate, select the matcher, migrate, collect namespaces, authorize, reply |
| Authorizer | `internal/authorizer/authorizer.go` | per request only | look up the cache; cluster-wide review; list projects; review namespaces; build the answer; save it |
| Cache key | `internal/authorizer/cache.go` | none | hash caller and matcher, join the rest |
| Matcher | `internal/config/matcher.go` | keys, operator, exempt tenants and groups; shared by all requests | `ToMatcher`, `ForRequest` (clone), `ViaQToOTELMigration` (in place) |
| Answer cache | `internal/cache` | key -> answer with a TTL; in memory or memcached | `Get`, `Set` |
| OpenShift client | `internal/openshift/client.go` | the token (for SSAR and projects) | `AccessReview`, `ListNamespaces` |
| API server | external | RBAC rules and projects, which administrators change | |
| Start-up | `internal/config/config.go`, `main.go` | `Config` | `ParseFlags`, choice of the cache |
| Process | `main.go` | three actors of a `run.Group`, the signal channel | signal, serve, shut down, exit |
| TLS | `internal/config/tls.go`, `main.go` | a `tls.Config` per server, the health check's client | `NewServerConfig`, liveness probe |
| Metrics, instrumentation, fakes | `metrics.go`, `instrument.go`, `*fakes` | counters | not modelled |

A request runs in its own goroutine.  It shares with the others the matcher, the
cache and the API server; there are no locks in this code, and between any two
calls everything but the shared matcher may change.  What is hard about it:

* a cached answer is reused for whoever computes the same key, so everything an
  answer depends on has to be in the key, and any string is a name: blank names and
  names with colons join to the same text as other lists of names;
* one evaluation makes several calls, between which access changes, and any of
  them can fail;
* answers outlive the access they report, by the TTL and by the time an
  evaluation takes, and a late `Set` overwrites a newer entry;
* the matcher is one object for the whole process, and the migration modifies
  matchers in place;
* an *empty* matcher means "no constraint": whatever empties a matcher by
  accident opens up a tenant;
* memcached outlives the process: a new one with other flags finds the old one's
  answers, and a crash may come between any two calls;
* TLS and the health check are configured from flags that may be given by halves,
  and the two servers by two copies of one block of code;
* at the end of the process, signals, failing servers and draining requests race,
  and the requests that drain are evaluations in the middle of their reviews.

What makes each part correct:

* **Handler and authorizer**: nobody is allowed or denied anything the API server
  did not say about that request, or one that the cache's key does not tell from it;
  answers never exceed what such a request asked for; every request is answered.
* **Matcher**: each request gets the keys the flags promise it, whatever the
  others do; only exempt requests go unconstrained.
* **Cache**: answers are reused only for the same question and for a bounded time,
  across restarts too.
* **Start-up**: what is accepted cannot leave requests without a key, unless the flag
  begins with a comma, nor a server without the TLS it was given files for; what is
  refused is refused before anybody is served.
* **Process**: a signal ends it, without dropping requests, with the right status.

`PROJECT.json` lists the hazards with their lines, and the properties about each.

## The modules

    Input ─┬─ Matcher ────────────────────┐
           └─ OpenShift ── NameLists ─┬─ Verdict ┴┬── AccessOracle
                                      │           │      ·· (INSTANCE) ·· AuthorizerRefinement
                                      ├─ ResponseCache ── Authorizer ── AuthorizerInvariant
                                      └─ NameListsProofs ── AuthorizerProofs
    AuthorizerInvariant ─┬─ AuthorizerProofs ─┬─ RefinementProofs
                         ├─ AuthorizerRefinement ── MCAuthorizer
                         └─ Service ·· (INSTANCE) ·· Lifecycle
    GracefulProcess ·· (INSTANCE) ·· Lifecycle ─┬─ LifecycleProofs
                                                └─ MCLifecycle
    Service ─┬─ ServiceProofs (with RefinementProofs; LifecycleProofs ·· (INSTANCE))
             └─ MCService
    Matcher, ResponseCache ── Rollout ─┬─ RolloutProofs
                                       └─ MCRollout
    Matcher ·· (INSTANCE) ·· Config ─┬─ ConfigProofs      Servers ─┬─ ServersProofs
                                     └─ MCConfig                   └─ MCServers

**Input** is the document a client sends and the handler's checks.  Names are
opaque.  `selectors` is total: an absent label has no values, which the code does
not tell from an empty list.  Every value of every selector counts as a
namespace (`Requested`), as in the code.

**Matcher** describes matchers as sets of keys.  `ForRequest` says whether the
caller got the process-wide matcher or one of its own; when the configured matcher
is empty the code returns the shared one, otherwise a clone or a new empty one.
`PromisedKeys` is the reference the properties compare with: what the flags say,
stated without looking at how the code gets there.

**OpenShift** is the API server as the client sees it.  A *fact* is an access
rule or the visibility of a project to a token; facts flip at any time, and
`flipped` remembers when a fact last changed, so that "was true at or after time
t" can be stated.  A cluster-wide rule also holds in each namespace.  The blank name
(`ClusterWide`) may be asked for like any other one: the handler does not refuse it, and
the review of it *is* the cluster-wide one.

**NameLists** is the list of a request's namespaces, in any order, and the text that
`strings.Join(namespaces, ":")` makes of it.  A text is the sequence of its pieces between
colons, so no names and the blank one have the same text, and so have the name `a:b` and
the names `a` and `b`.  `Pieces`, a constant, says which names have colons.

**Verdict** has the forms of an answer and what justifies one: which of the things
the API server said, at or after some moment, lead to it.  It knows nothing of how an
evaluation proceeds, so that Authorizer and AccessOracle can share it.  `Twins(q)` are the
requests that ask the same as q of namespaces with the same joined text: q itself and,
with blank names or colons, others.  `Fits` is the best the code guarantees of a cached
answer: it is right for q *or one of its twins*.

**ResponseCache** has the key, with the joined text of the namespaces in it, the TTL and
the two backends: memcached may lose an entry at any time, the in-memory cache never drops
one before its time.

**Authorizer** is the request path.  `Conns` are connections, each handling one
request after the other:

| Action | Code |
|---|---|
| `Admit`, `Reject` | `handler.New` up to `a.Authorize` |
| `Hit`, `Miss`, `LookupFails` | `Authorize`, the cache read |
| `ReviewCluster` | `authorizeInner` up to the branch on its result; `IsEmpty` in `authorizeClusterWide` |
| `ListForCluster` | `authorizeClusterWide` |
| `ListForMetadata` | `authorizeInner`, metadata requests without namespaces |
| `ReviewNamespace`, `Decide` | the loop over namespaces and what follows it |
| `CallFails`, `AnswerFails` | each error path between them |
| `Store` | the cache write, which may fail, and the reply |
| `Environment` | time passes, facts flip, memcached evicts |

Every call to the API server or the cache is one step, so all interleavings of
calls are there.  The code in between touches nothing shared, except the migration
of the shared matcher when the configured one is empty, which is part of `Admit`.
The loop reviews namespaces in any order; the code uses the order of the key.
Three history variables serve the properties only: `asOf` (when the request
arrived whose reviews an answer rests on), `answeredAt` and `longest`.

**AccessOracle** is the abstract specification of the request path: a request is
turned down, fails, or is answered once, by what the API server has said *since one
moment* that is recent enough.  It has no cache, no matcher and no order of calls.
**AuthorizerRefinement** instantiates it: a connection is `busy` while its request is
in flight, its answer shows when it is given, and `since` is when it arrived.  It gives
answers that fit, i.e. it may take one request for its twin, as the code does.  Every
step of Authorizer is then a step of the oracle or leaves it as it is; the moment the
oracle needs is `asOf`.

**Rollout** is several processes over one memcached.  A process is started with some
flags, crashes or is stopped at any moment, and is started again with others.  Of an
evaluation only what the flags put into the answer is kept: the keys, their operator
and the kind of review.

**Service** puts the request path inside the process: `Take` is `Receive` while the
public server accepts, `Work` is `Handle` while the process exists, and everything
else is an action of Lifecycle, whose requests in flight *are* the connections in
flight.  Internal requests (probes, metrics) are left to Lifecycle.

**Config** goes from the command line to a request's keys: the checks of
`ParseFlags` in order, `ToMatcher`, `prepareMap`, the choice of the cache, and
matchers as *sequences* that may repeat a key, because `slices.Delete` takes one
occurrence only.  It instantiates `Matcher` and compares with it.

**Servers** goes from parsed flags to two listening servers: the health check's client
with its CA (`AddHealthcheck`), `NewServerConfig` with the files it is given and each
error in the order of the code, the two blocks of `main` that call it (`AddPublicServer`,
`AddInternalServer`, each with the files it names), the actors' tests for a nil
configuration (`Listen`, one action for both: the closures differ in nothing but their own
block's variables), what a server listens with, and what the liveness endpoint says until
the listeners are closed.  Versions, suites, key pairs and what a CA vouches for are
external and given as constants.

**Lifecycle** is the `run.Group` of `main.go`.  Group and `http.Server` are
external: `Run` takes the first result, calls the interrupt functions in the order
of `Add` and waits for all actors; `Shutdown` closes the listener at once and
returns when no request is in flight.

**GracefulProcess** is the abstract specification of the process: two servers that
listen once and are closed for ever, requests in flight, how often the process was
asked to stop, which servers broke, and an end.  It has no group, channel or interrupt
function.  Lifecycle instantiates it: a server is `closed` once its listener is down or
its actor has returned, and signals are what `asked` counts.

## What is checked

| Run | Instance | Shows |
|---|---|---|
| staleness | two equal reads, one rule, memcached, TTL 1, clock to 2, fair | `TypeOK`, `AllowsAreJustified`, `DenialsAreJustified`, `BoundedStaleness`, `AnswersAreCurrent`, `ImplementsOracle`, `EvaluationsAdvance`, `RequestsAnswered` |
| isolation | two users, one and two namespaces, one with a colon in its name that joins like the two, in memory | `NeverWidened`, `AllowsAreJustified` |
| migration | both labels, admin, skipped tenant, wildcard, invalid requests, SSAR | `UnconstrainedOnlyIfExempt`, `MatcherApplied`, `EntriesCanBeFound` |
| metadata | read, metadata read, write, of no namespace and of the blank one, TTL 0 | `AllowsAreJustified`, `DenialsAreJustified` |
| rollout | two processes, three sets of flags, TTL 1, clock to 2 | `TypeOK`, `KeysAreCurrent`, `OldFlagsEndWithTTL` |
| service | one connection, every path of the evaluation, two signals, failing servers, fair | `NothingCutOff`, `OnlyEvaluationsHoldUp`, `BehavesAsProcess`, `SignalEndsService`, `AdmittedAreAnswered` |
| lifecycle | two requests, two signals, failing servers, fair | `TypeOK`, `DrainedBeforeExit`, `InternalOutlivesPublic`, `ExitTellsWhy`, `OneSignalIsGraceful`, `OnlyRequestsHoldUp`, `EndComesCloser`, `ImplementsGraceful`, `SignalEndsProcess` |
| servers | every combination of good, missing and mismatched files, CAs, versions and suites | `TypeOK`, `ListensAsTold`, `RefusedBeforeServing`, `LivenessFollowsPublic` |
| config | every matcher flag of up to three pieces, exemptions, faulty flags | `TypeOK`, `FlagsFitMatcher`, `EmptyMatcherHasAReason`, `SetsAreFaithful` |
| partial_access | violated | authorizer.go:165: access "for the namespaces where the SAR was successful" |
| both_labels | violated | config.go:21: the matcher "must contain both" labels |
| old_operator | violated | config.go:117: "this is the logical operation to perform" |

*Justified* is the central notion.  An allowing answer is justified since t if, at
or after t, the API server would have granted the request cluster-wide access (and
shown each listed project to the token), or, for reads, access to each listed
namespace.  A denying answer needs a refusal for each thing refused.  For a cached
answer the request and t are different things: the answer must fit the request
that *receives* it, from the time of the request that *caused* it, and
`BoundedStaleness` bounds the distance.  To fit means to be right for the request or a
twin of it (`Fits`): with the properties restricted to the request itself, TLC finds
`NeverWidened` violated in *isolation* and `DenialsAreJustified` in *metadata*, by the
collisions described under Findings.  Where no name is blank or holds a colon, the two
are the same (`PlainAnswersExact`).

`AnswersAreCurrent` is the other side of it: once everything an answer rests on has
stayed as it is for the TTL and the longest request, the answer agrees with it.

`EntriesCanBeFound` says that the cache in memory holds at most one entry per question
that can be asked and order of its namespaces.  That is no bound on its growth: nothing in
the code bounds what callers ask.

`EmptyMatcherHasAReason` lists all reasons for a request without keys: an exempt tenant or
group, or a blank first piece of `--opa.matcher`, which is the flag's absence or a leading
comma.  `ListensAsTold` compares each server with the flags of that server, its
certificate and whether it speaks TLS.

The type invariants of Rollout and Lifecycle also say one thing about state that types do
not: what a process is about to save is an evaluation of its own, and the signal channel
is open until the first interrupt function was called.

**Bounds.**  Two connections are enough for any one request to be overtaken, and
to hit what another saved; three would only add further overtaking.  Two namespaces
are the fewest for a partial result.  The clock (`MaxTime`) runs to 2 with a TTL of
1 in *staleness* and *rollout*: an entry can be saved late, hit, expire, and be
replaced.  The other runs stop the clock, because they are about keys, partial results
and the end of the process, which the TTL only weakens.  Each run has the inputs its
question needs, since the state space grows with the square of their number: in
*metadata*, for instance, no rule ever allows writes, which are there to be told from reads.
*service* has one connection: what two requests do to each other is the business of the
other runs, and what is new here is where the one is when the process ends.  Its
metadata read takes every path of the evaluation, since a cluster-wide rule may come
and go between the reviews.  `MaxSignals` is 2: the second signal is the interesting
one.  Two processes and three sets of flags are enough for a rollout to overlap and to
be rolled back.  The proofs need none of these bounds.

**Fairness.**  `FairSpec` of Authorizer is weak fairness of each connection's
steps: Go schedules every goroutine, and *every call returns*, with a result or an
error.  The code sets no timeout (`context.TODO()`), so that is an assumption about
the API server and the transport.  `FairSpec` of Lifecycle is weak fairness of the
goroutines and of each request in flight; servers need never fail or start, and nobody
need send a signal.  `FairServiceSpec` no longer assumes that requests in flight end:
it has the fairness of their evaluations, and that they end follows.

**Deadlock** is checked in the runs of Authorizer and of Rollout.  It is off in *config*,
*servers*, *service* and *lifecycle*, where the start-up or the process ends.

Each property of a passing run has a mutant in `PROJECT.json`: a plausible bug of
the mapped definition, kept beside it as "A plausible mistake", that violates it.

## What is proved

All theorems hold for any values of the constants that meet the named ASSUMEs of the
modules, which TLC evaluates for the instances; Lifecycle, GracefulProcess and Servers
have none, and Service adds none to those of the request path.  They are of the form
`Spec => []Inv` or `Spec => [][A]_vars`, except where a specification implies another one.

**The request path** (`AuthorizerProofs`).  `TypeOK`, `AllowsAreJustified`,
`DenialsAreJustified`, `MatcherApplied`, `UnconstrainedOnlyIfExempt`, `NeverWidened`,
`BoundedStaleness`, `AnswersAreCurrent`, `EntriesCanBeFound` and the action property
`EvaluationsAdvance`, for any inputs, facts, flags, TTL, backend
and number of connections.  Assumed are well-formed inputs, finite selectors,
that a name without a colon is its own only piece, and that during the migration neither
label is the only key, which `ConfigProofs` proves of what `ParseFlags` accepts.

None of the properties is inductive: they speak of answers given, and an answer
depends on what an evaluation has seen before and on what others have cached.
`IInv` (in `AuthorizerInvariant`) adds

* `RequestsOK`: the shared matcher is never modified, and a request in flight has the
  keys and namespaces its input asks for;
* `StageOK`: what each stage knows.  A request in the review loop, for instance, has
  been refused cluster-wide access, was granted each namespace in `allowed`, and was
  refused each that is in neither `allowed` nor `todo`;
* `EntriesOK`: a cache entry is a right answer to some valid request that computes its
  key.  This is where the key matters: that requests with equal keys are twins
  (`SameKeySameQuestion`), so that the answer fits whoever finds it, is what each
  incomplete key breaks;
* `AgesOK` and `ClockOK`: entries are saved after the evaluation they rest on began, at most
  `longest` later, and nothing is from the future.

Justifications only ever look further back as time goes on, and a flip at time `now`
preserves "held at or after t" for t <= now: that is why the environment's steps
preserve all of it.

How much "or a twin" concedes is proved as well.  Twins differ in their namespaces only,
and lists of names without blanks and colons can be read off their text
(`PlainListsToldApart` in `NameListsProofs`).  So as long as no name in any input is blank
or holds a colon, each answer is right for the very request that gets it
(`PlainAnswersExact`).

`EvaluationsAdvance` needs less: of an evaluation under way, each step of its own either
comes to a later stage or takes a namespace off the list of reviews, and no step of
anybody else touches it.  The stage and the list bound the calls of an evaluation.

**The abstract specification** (`RefinementProofs`).  `Spec => ImplementsOracle`: every
step of Authorizer maps to a step of AccessOracle or to a stutter.  The steps between
lookup and reply stutter.  A reply is the oracle's `Tell` with `asOf` as its moment, which
`EntriesOK` shows to fit if the answer comes from the cache and `StageOK` if it does not.

**Restarts** (`RolloutProofs`).  `TypeOK`, `KeysAreCurrent` and `OldFlagsEndWithTTL` for
any number of processes and flags.  The invariant says of memcached what outlives a
process: an entry has the keys it is looked up with, and a process with the flags in it
ran when it was saved or later.

**The service** (`ServiceProofs`).  `ServiceSpec` implies both `Authorizer!Spec`
(`RequestPathKept`) and, with the connections in flight as the public server's requests,
`Lifecycle!Spec` (`ProcessKept`).  So whatever is proved of either holds of the running
service, and the theorems of Lifecycle are cited for it through an instance (`Proved`)
with the connections in flight for the public server's requests.  Of the service as a
whole, starting, serving and draining:

* it implements both abstract specifications, AccessOracle (`ServiceImplementsOracle`)
  and GracefulProcess (`ServiceGraceful`);
* `AllowsAreJustified` and `EvaluationsAdvance` (`ServiceAllows`, `ServiceAdvances`): a
  shutdown neither hurries an evaluation into another answer nor throws it back;
* `NothingCutOff` (`NothingLost`) and the exit status (`ServiceExit`);
* `OnlyEvaluationsHoldUp` (`ServiceWayOut`) and `EndComesCloser` of its process
  (`ServiceEndComesCloser`).

**The process** (`LifecycleProofs`).  `TypeOK`, `DrainedBeforeExit`,
`InternalOutlivesPublic`, `ExitTellsWhy` and `OneSignalIsGraceful` for any requests and
number of signals, from an invariant that ties the interrupt functions called so far to
the servers that are down and drained (`ShutdownInv`), results to their reasons
(`ResultInv`), and the exit to the first result (`ExitInv`).  The same invariant makes
each step of Lifecycle a step of GracefulProcess or a stutter (`GracefulImplemented`): an
interrupt function that closes a listener is its `Stop`, which is allowed because a
first result has a reason and because the public server was drained before.

`OnlyRequestsHoldUp` says that the process is never stuck: after a signal, somebody
can take a step (`MayGoOn`), or a Shutdown waits for requests.  It needs a second invariant
(`WayOutInv`): every actor returns exactly once, the channel is closed as its turn comes,
and a signal is in the channel or has made the signal actor return.  `EndComesCloser` says
that those steps are finite: each leaves fewer of at most eighteen (`StepsLeft`).

**The start-up** (`ServersProofs`, `ConfigProofs`).  All properties of both modules.
`SetUp` says that nothing listens before everything was set up, and that each server got
the configuration the flags tell, from its own files, and listens accordingly.  `Wired`
says that what serves was accepted and what requests are given comes from it.
`ConfigProofs` first proves what `slices.Delete` of a found element does to a sequence
(`Removed`): it takes nothing else, and everything equal to it only if the sequence has no
duplicates.  Assumed (`ConfigAssumption`) is that neither label's name occurs in the
other's.

**Model-checked only** are the liveness properties (`RequestsAnswered`,
`SignalEndsProcess`, `SignalEndsService`, `AdmittedAreAnswered`).  They rest on fairness,
i.e. on ENABLED, which is out of the prover's reach.  The rest of the argument for them
is proved: somebody can go on (`OnlyRequestsHoldUp`, `OnlyEvaluationsHoldUp`), and whoever
does leaves fewer steps (`EndComesCloser`, `EvaluationsAdvance`).  That `MayGoOn` describes
when a step is possible is not proved but shown by the run *lifecycle*, whose
`SignalEndsProcess` would fail otherwise.

## Findings

Each of these contradicts a document or a comment, and a run shows it:

* Without a matcher, one positive review out of several namespaces allows the query
  unchanged.  The comment says access is for the namespaces that were granted.
* `--opa.viaq-to-otel-migration` looks for the two labels as substrings of the flag.
  A longer name passes, and so does a flag that begins with a comma, which leaves the
  matcher without any key, i.e. without any constraint.
* The cache key has the matcher's keys but not `--opa.matcher-op`: after a restart with
  another operator, memcached goes on answering with the old one until entries expire.
  `OldFlagsEndWithTTL` says when that ends.

Two more differ from README.md by the code alone: writes, denials and exempt requests
get a plain boolean even with `--opa.matcher` set (README.md:30 shows a structured
answer), and `--memcached.expire` defaults to 60 (README.md:118 says 3600).

Two more things the models show, which no document speaks against: a second signal
while requests drain panics, since the channel is closed but still registered
(`OneSignalIsGraceful` is about the first for that reason), and a key that is given
twice in `--opa.matcher` survives the migration once (`SetsAreFaithful` excludes it).

And the cache's key takes some requests for others, since it joins namespaces with colons
and the handler accepts any string as a name:

* a request for the blank namespace has the key of one for none.  From a cached answer to
  the latter it gets every project or namespace that one was given, and the other way
  round: where there is a matcher, a cluster-wide reader who asks for the blank one is
  denied, because no project has that name, and his next request for no namespace gets
  the denial from the cache;
* a request for `a:b` has the key of one for `a` and `b`.

`Twins` is exactly this, and the properties are stated up to it.

## Abstractions

* SHA-256 does not collide.  Of what could make two keys look alike, the colons between
  namespaces are modelled and two things are not: commas in names, which separate the
  parts of the key (cache.go:21), and groups or matcher keys that are hashed one after the
  other without a separator (cache.go:30-36, 52-55), as `ab`, `c` and `a`, `bc` are.  A key
  is the tuple of its parts, with groups and matcher keys as sets.  All that is said about
  answers from the cache holds of names without commas, and of groups and keys that are
  hashed to be told apart.
* `MatcherOp` is a constant of a process.  Authorizer leaves it out of answers; Rollout,
  where processes differ in it, has it there.
* Answers keep the verdict, keys and namespaces; their JSON layout is left out.
* A kubeconfig is usable or not, chosen per request (`Reject` with status 500).
* JSON encoding of answers never fails; writing the reply to a lost client is not
  told from writing it to a present one.
* In the in-memory cache, memory is unlimited, as in the code.
* TTLs are ticks; memcached's reading of more than 30 days as a date is left out.

## Not modelled

* **Cache metrics** (`metrics.go`) and **instrumentation** (`instrument.go`): they count
  what happens and change none of it.
* **Fakes** (`*fakes`): generated test doubles.
* **memcached's client and server** beyond `Get`, `Set`, expiry and loss: the refresh of
  its addresses, and TTLs of more than 30 days, which it reads as dates.
* **How a kubeconfig is found**: `NewClient` works or fails.
* **Flags that are only passed on**: addresses, names, log format and level.
