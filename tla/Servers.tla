------------------------------ MODULE Servers ------------------------------
(***************************************************************************)
(* From parsed flags to two servers: the health check, NewServerConfig     *)
(* (internal/config/tls.go) for the public and the internal server in the  *)
(* order of main.go, and what the servers then listen with, until they are *)
(* told to shut down.  The rest of their lives is Lifecycle's part.        *)
(*                                                                         *)
(* A *tls.Config is a set: {} is nil, {c} is a configuration.  A blank     *)
(* flag is "".  Files do not change while the process starts.              *)
(* "scheme" is that of --web.healthchecks.url, which is taken to name the  *)
(* public server; it is "" for a blank URL.                                *)
(***************************************************************************)
EXTENDS Integers

CONSTANTS
    CommandLines,   \* the flags the process may be started with
    Certificate,    \* certificate file -> the key pair it belongs to
    PrivateKey,     \* key file -> the key pair it belongs to
    Authority,      \* readable file -> key pairs whose certificates it vouches for
    SystemTrust,    \* key pairs that the system's certificates vouch for
    KnownSuites     \* names of cipher suites

Names == {"public", "internal"}

VARIABLES
    flags,       \* the command line
    step,        \* what main does next, or the error that ended it
    trusted,     \* key pairs that the health check's client accepts
    tlsConfig,   \* server -> its *tls.Config
    serves,      \* server -> what its listener speaks
    down,        \* servers told to shut down
    live         \* what the liveness endpoint said last

vars == <<flags, step, trusted, tlsConfig, serves, down, live>>

(* The servers that listen. *)
up == {s \in Names : serves[s] # "nothing"}

-----------------------------------------------------------------------------
(* k8s.io/component-base/cli/flag and crypto/tls *)

Version ==
    [n \in {"", "VersionTLS10", "VersionTLS11", "VersionTLS12", "VersionTLS13"} |->
        IF n = "VersionTLS10" THEN 10
        ELSE IF n = "VersionTLS11" THEN 11
        ELSE IF n = "VersionTLS13" THEN 13 ELSE 12]

KnownVersion(n) == n \in DOMAIN Version

IsKeyPair(cert, key) ==
    /\ cert \in DOMAIN Certificate
    /\ key \in DOMAIN PrivateKey
    /\ Certificate[cert] = PrivateKey[key]

-----------------------------------------------------------------------------
(* NewServerConfig, for the files that its caller names. *)

Disabled(cert, key) == cert = "" /\ key = ""

(* A plausible mistake: the error of TLSCipherSuites is not looked at. *)
ConfigErrorButSuites(f, cert, key) ==
    CASE Disabled(cert, key)               -> "none"
      [] ~IsKeyPair(cert, key)             -> "server credentials"
      [] ~KnownVersion(f.minVersion)       -> "TLS version invalid"
      [] OTHER                             -> "none"

(* The error that NewServerConfig returns; the first problem counts. *)
ConfigError(f, cert, key) ==
    CASE Disabled(cert, key)               -> "none"
      [] ~IsKeyPair(cert, key)             -> "server credentials"
      [] ~KnownVersion(f.minVersion)       -> "TLS version invalid"
      [] ~(f.suites \subseteq KnownSuites) -> "TLS cipher suite"
      [] OTHER                             -> "none"

ServerConfig(f, cert, key) ==
    IF Disabled(cert, key) THEN {}
    ELSE {[pair |-> Certificate[cert], min |-> Version[f.minVersion],
           suites |-> f.suites]}

-----------------------------------------------------------------------------
(* main *)

(* A plausible mistake: the pool with the CA is not given to the client. *)
TrustIgnoringCA(f) == SystemTrust

(* The certificates of the CA file replace the system's; a file without    *)
(* any leaves the client with nobody to trust.                             *)
Trust(f) == IF f.ca = "" THEN SystemTrust ELSE Authority[f.ca]

(* The health check is set up unless its URL is blank. *)
HealthcheckError(f) ==
    CASE f.scheme = ""                            -> "none"
      [] ~KnownVersion(f.minVersion)              -> "TLS min version"
      [] f.ca # "" /\ f.ca \notin DOMAIN Authority -> "healthcheck server TLS CA"
      [] OTHER                                    -> "none"

AddHealthcheck ==
    /\ step = "healthcheck"
    /\ LET e == HealthcheckError(flags)
       IN IF e # "none"
          THEN step' = e /\ UNCHANGED trusted
          ELSE /\ step' = "public"
               /\ trusted' = IF flags.scheme = "" THEN {} ELSE Trust(flags)
    /\ UNCHANGED <<flags, tlsConfig, serves, down, live>>

(* What a block of main does with what NewServerConfig returns for the     *)
(* files it passes.  Each block has a tlsConfig of its own.                *)
Configure(s, next, cert, key) ==
    /\ LET e == ConfigError(flags, cert, key)
       IN IF e # "none"
          THEN step' = e /\ UNCHANGED tlsConfig
          ELSE /\ step' = next
               /\ tlsConfig' = [tlsConfig EXCEPT ![s] = ServerConfig(flags, cert, key)]
    /\ UNCHANGED <<flags, trusted, down, live>>

(* A plausible mistake: the public server is started as soon as it is set  *)
(* up, not by run.Group.                                                   *)
AddPublicServerListening ==
    /\ step = "public"
    /\ Configure("public", "internal", flags.cert["public"], flags.key["public"])
    /\ serves' = IF step' # "internal" THEN serves
                 ELSE [serves EXCEPT !["public"] =
                         IF tlsConfig'["public"] # {} THEN "https" ELSE "http"]

AddPublicServer ==
    /\ step = "public"
    /\ Configure("public", "internal", flags.cert["public"], flags.key["public"])
    /\ UNCHANGED serves

(* A plausible mistake: the block is copied and so are the names of files. *)
AddInternalServerCopied ==
    /\ step = "internal"
    /\ Configure("internal", "run", flags.cert["public"], flags.key["public"])
    /\ UNCHANGED serves

AddInternalServer ==
    /\ step = "internal"
    /\ Configure("internal", "run", flags.cert["internal"], flags.key["internal"])
    /\ UNCHANGED serves

(* ListenAndServeTLS if the block's tlsConfig is not nil, ListenAndServe   *)
(* otherwise.                                                              *)
Listen(s) ==
    /\ step = "run" /\ s \notin up \cup down
    /\ serves' = [serves EXCEPT ![s] = IF tlsConfig[s] # {} THEN "https" ELSE "http"]
    /\ UNCHANGED <<flags, step, trusted, tlsConfig, down, live>>

(* Shutdown closes the listener before it waits for requests, and the      *)
(* public server's interrupt function comes first.                         *)
ShutDown(s) ==
    /\ step = "run" /\ s \notin down
    /\ s = "internal" => "public" \in down
    /\ serves' = [serves EXCEPT ![s] = "nothing"] /\ down' = down \cup {s}
    /\ UNCHANGED <<flags, step, trusted, tlsConfig, live>>

(* The check's client gets its 404 from the public server. *)
Reached ==
    /\ "public" \in up
    /\ serves["public"] = flags.scheme
    /\ \/ flags.scheme = "http"
       \/ \E c \in tlsConfig["public"] : c.pair \in trusted

(* Somebody asks the internal server whether the process is alive. *)
Probe ==
    /\ "internal" \in up
    /\ live' = IF flags.scheme = "" \/ Reached THEN "alive" ELSE "dead"
    /\ UNCHANGED <<flags, step, trusted, tlsConfig, serves, down>>

Init ==
    /\ flags \in CommandLines
    /\ step = "healthcheck"
    /\ trusted = {}
    /\ tlsConfig = [s \in Names |-> {}]
    /\ serves = [s \in Names |-> "nothing"] /\ down = {}
    /\ live = "unknown"

Next ==
    \/ AddHealthcheck \/ AddPublicServer \/ AddInternalServer
    \/ \E s \in Names : Listen(s) \/ ShutDown(s)
    \/ Probe

Spec == Init /\ [][Next]_vars

-----------------------------------------------------------------------------
(* Properties *)

Refusals == {"TLS min version", "healthcheck server TLS CA", "server credentials",
             "TLS version invalid", "TLS cipher suite"}

Pairs == {Certificate[f] : f \in DOMAIN Certificate}

TypeOK ==
    /\ flags \in CommandLines
    /\ step \in {"healthcheck", "public", "internal", "run"} \cup Refusals
    /\ trusted \subseteq SystemTrust \cup UNION {Authority[f] : f \in DOMAIN Authority}
    /\ tlsConfig \in [Names -> SUBSET [pair : Pairs, min : 10 .. 13,
                                       suites : SUBSET KnownSuites]]
    /\ serves \in [Names -> {"nothing", "http", "https"}] /\ down \subseteq Names
    /\ live \in {"unknown", "alive", "dead"}

(* What the flags say about a server: TLS if either file was named, with   *)
(* its own key pair and the flags' version and suites.                     *)
Told(s) ==
    IF flags.cert[s] = "" /\ flags.key[s] = "" THEN {}
    ELSE {[pair |-> PrivateKey[flags.key[s]], min |-> Version[flags.minVersion],
           suites |-> flags.suites \cap KnownSuites]}

(* A server listens in the way the flags say or not at all: never in the   *)
(* clear with only one of its files named, never with the other server's   *)
(* certificate, which may have been good when its own is not (tls.go:14    *)
(* NewServerConfig; main.go:147-221: two near copies of one block, each    *)
(* with the files it passes and its actor's test for nil).                 *)
ListensAsTold ==
    \A s \in up : /\ tlsConfig[s] = Told(s)
                   /\ serves[s] = IF Told(s) = {} THEN "http" ELSE "https"

(* A command line is refused before anybody was served: no server listens  *)
(* yet when the other one turns out to be misconfigured (main.go: both are *)
(* set up before run.Group starts either).                                 *)
RefusedBeforeServing == step \in Refusals => up = {}

(* The check's URL fits how the public server listens, and the CA vouches  *)
(* for that server.                                                        *)
Fitting(f) ==
    \/ f.scheme = "http" /\ f.cert["public"] = "" /\ f.key["public"] = ""
    \/ /\ f.scheme = "https" /\ f.cert["public"] # ""
       /\ PrivateKey[f.key["public"]] \in (IF f.ca = "" THEN SystemTrust ELSE Authority[f.ca])

(* With fitting flags, the liveness endpoint says whether the public       *)
(* server takes requests at that moment: it never mistakes an untrusted    *)
(* certificate for a dead server, nor the internal server for the public   *)
(* one, and it says "dead" while requests drain (main.go:98-129, 178).     *)
LivenessFollowsPublic ==
    [][Probe /\ Fitting(flags) => (live' = "alive" <=> "public" \in up)]_vars

=============================================================================
