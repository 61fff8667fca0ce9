--------------------------- MODULE ServersProofs ---------------------------
(***************************************************************************)
(* Proofs about Servers for any flags, files and cipher suites.            *)
(***************************************************************************)
EXTENDS Servers, TLAPS

(* Servers listen only once everything was set up. *)
SetUp ==
    /\ up # {} => step = "run"
    /\ \A s \in up : serves[s] = IF tlsConfig[s] # {} THEN "https" ELSE "http"
    /\ step \in {"internal", "run"} => tlsConfig["public"] = Told("public")
    /\ step = "run" => tlsConfig["internal"] = Told("internal")
    /\ step \in {"public", "internal", "run"} =>
          trusted = IF flags.scheme = "" THEN {} ELSE Trust(flags)

SInv == TypeOK /\ SetUp

TLSConfigs == [pair : Pairs, min : 10 .. 13, suites : SUBSET KnownSuites]

-----------------------------------------------------------------------------

LEMMA VersionRange == \A n \in DOMAIN Version : Version[n] \in 10 .. 13
<1> TAKE n \in DOMAIN Version
<1>1. Version[n] = 10 \/ Version[n] = 11 \/ Version[n] = 12 \/ Version[n] = 13
  BY DEF Version
<1> QED BY <1>1

(* What NewServerConfig returns without an error for a server's own files  *)
(* is what the flags say of that server.                                   *)
LEMMA ConfigAsTold ==
    ASSUME NEW s \in Names, ConfigError(flags, flags.cert[s], flags.key[s]) = "none"
    PROVE  /\ ServerConfig(flags, flags.cert[s], flags.key[s]) = Told(s)
           /\ ServerConfig(flags, flags.cert[s], flags.key[s]) \subseteq TLSConfigs
<1> DEFINE cert == flags.cert[s]
           key == flags.key[s]
<1>1. CASE Disabled(cert, key)
  BY <1>1 DEF Disabled, ServerConfig, Told
<1>2. CASE ~Disabled(cert, key)
  <2>1. /\ IsKeyPair(cert, key)
        /\ KnownVersion(flags.minVersion)
        /\ flags.suites \subseteq KnownSuites
    BY <1>2 DEF ConfigError
  <2>2. /\ Certificate[cert] = PrivateKey[key]
        /\ Certificate[cert] \in Pairs
    BY <2>1 DEF IsKeyPair, Pairs
  <2>3. Version[flags.minVersion] \in 10 .. 13
    BY <2>1, VersionRange DEF KnownVersion
  <2>4. flags.suites \cap KnownSuites = flags.suites
    BY <2>1
  <2>5. ServerConfig(flags, cert, key) = Told(s)
    BY <1>2, <2>2, <2>4 DEF Disabled, ServerConfig, Told
  <2>6. [pair |-> Certificate[cert], min |-> Version[flags.minVersion],
         suites |-> flags.suites] \in TLSConfigs
    BY <2>1, <2>2, <2>3 DEF TLSConfigs
  <2>7. ServerConfig(flags, cert, key) \subseteq TLSConfigs
    BY <1>2, <2>6 DEF ServerConfig
  <2> QED BY <2>5, <2>7
<1> QED BY <1>1, <1>2

LEMMA ConfigErrors ==
    ASSUME NEW cert, NEW key
    PROVE  ConfigError(flags, cert, key) \in Refusals \cup {"none"}
BY DEF ConfigError, Refusals

LEMMA ConfigureKept ==
    ASSUME SInv, NEW s \in Names, NEW next,
           \/ s = "public" /\ next = "internal"
           \/ s = "internal" /\ next = "run",
           step = s, Configure(s, next, flags.cert[s], flags.key[s]), UNCHANGED serves
    PROVE  SInv'
<1>0. /\ TypeOK /\ SetUp /\ step = s /\ UNCHANGED <<flags, trusted, down, live, serves>>
      /\ up = {} /\ up' = {}
  BY DEF SInv, SetUp, Configure, up
<1>1. CASE ConfigError(flags, flags.cert[s], flags.key[s]) # "none"
  <2>1. step' \in Refusals /\ UNCHANGED tlsConfig
    BY <1>1, ConfigErrors DEF Configure
  <2> QED BY <1>0, <2>1 DEF SInv, TypeOK, SetUp, Refusals
<1>2. CASE ConfigError(flags, flags.cert[s], flags.key[s]) = "none"
  <2> DEFINE c == ServerConfig(flags, flags.cert[s], flags.key[s])
  <2>1. /\ step' = next
        /\ tlsConfig' = [tlsConfig EXCEPT ![s] = c]
    BY <1>2 DEF Configure
  <2>2. c = Told(s) /\ c \subseteq TLSConfigs
    BY <1>2, ConfigAsTold
  <2>3. Told("public")' = Told("public") /\ Told("internal")' = Told("internal")
    BY <1>0 DEF Told
  <2> HIDE DEF c
  <2>4. TypeOK'
    BY <1>0, <2>1, <2>2 DEF TypeOK, TLSConfigs, Refusals
  <2>5. tlsConfig'[s] = Told(s) /\ \A t \in Names \ {s} : tlsConfig'[t] = tlsConfig[t]
    BY <1>0, <2>1, <2>2 DEF TypeOK
  <2>6. SetUp'
    BY <1>0, <2>1, <2>3, <2>5 DEF SetUp, Names, Trust
  <2> QED BY <2>4, <2>6 DEF SInv
<1> QED BY <1>1, <1>2

LEMMA HealthcheckKept == SInv /\ AddHealthcheck => SInv'
<1> SUFFICES ASSUME SInv, AddHealthcheck PROVE SInv'
  OBVIOUS
<1>0. /\ TypeOK /\ SetUp /\ up = {}
      /\ UNCHANGED <<flags, tlsConfig, serves, down, live>> /\ up' = {}
  BY DEF SInv, SetUp, AddHealthcheck, up
<1>1. CASE HealthcheckError(flags) # "none"
  <2>1. step' \in Refusals /\ UNCHANGED trusted
    BY <1>1 DEF AddHealthcheck, HealthcheckError, Refusals
  <2> QED BY <1>0, <2>1 DEF SInv, TypeOK, SetUp, Refusals
<1>2. CASE HealthcheckError(flags) = "none"
  <2>1. /\ step' = "public"
        /\ trusted' = IF flags.scheme = "" THEN {} ELSE Trust(flags)
    BY <1>2 DEF AddHealthcheck
  <2>2. flags.scheme # "" /\ flags.ca # "" => flags.ca \in DOMAIN Authority
    BY <1>2 DEF HealthcheckError
  <2>3. trusted' \subseteq SystemTrust \cup UNION {Authority[f] : f \in DOMAIN Authority}
    BY <2>1, <2>2 DEF Trust
  <2>4. Trust(flags)' = Trust(flags)
    BY <1>0 DEF Trust
  <2> QED BY <1>0, <2>1, <2>3, <2>4 DEF SInv, TypeOK, SetUp, Refusals
<1> QED BY <1>1, <1>2

LEMMA RunKept ==
    ASSUME SInv, (\E s \in Names : Listen(s) \/ ShutDown(s)) \/ Probe \/ UNCHANGED vars
    PROVE  SInv'
<1>1. /\ UNCHANGED <<flags, step, trusted, tlsConfig>>
      /\ serves' \in [Names -> {"nothing", "http", "https"}] /\ down' \subseteq Names
      /\ live' \in {"unknown", "alive", "dead"}
  BY DEF SInv, TypeOK, Listen, ShutDown, Probe, vars
<1>3. /\ up' # {} => step = "run"
      /\ \A s \in up' : serves'[s] = IF tlsConfig[s] # {} THEN "https" ELSE "http"
  BY DEF SInv, TypeOK, SetUp, Listen, ShutDown, Probe, vars, up
<1>2. /\ Told("public")' = Told("public") /\ Told("internal")' = Told("internal")
      /\ Trust(flags)' = Trust(flags)
  BY <1>1 DEF Told, Trust
<1> QED BY <1>1, <1>2, <1>3 DEF SInv, TypeOK, SetUp

LEMMA SInvariance == Spec => []SInv
<1>1. Init => SInv
  BY DEF Init, SInv, TypeOK, SetUp, up
<1>2. SInv /\ [Next]_vars => SInv'
  <2>1. SInv /\ (AddPublicServer \/ AddInternalServer) => SInv'
    BY ConfigureKept DEF AddPublicServer, AddInternalServer, Names
  <2> QED BY <2>1, HealthcheckKept, RunKept DEF Next
<1> QED BY <1>1, <1>2, PTL DEF Spec

-----------------------------------------------------------------------------

(* The state of the start-up is always well typed. *)
THEOREM ServersTyped == Spec => []TypeOK
BY SInvariance, PTL DEF SInv

(* Servers listen in the way the flags say, whatever the files hold.       *)
THEOREM ListensCorrect == Spec => []ListensAsTold
<1>1. SInv => ListensAsTold
  BY DEF SInv, TypeOK, SetUp, ListensAsTold, Names, up
<1> QED BY <1>1, SInvariance, PTL

(* Nobody is served by a process whose flags are refused.                  *)
THEOREM RefusalsCorrect == Spec => []RefusedBeforeServing
<1>1. SInv => RefusedBeforeServing
  BY DEF SInv, SetUp, RefusedBeforeServing, Refusals
<1> QED BY <1>1, SInvariance, PTL

(* With fitting flags the check finds the public server while it listens.  *)
THEOREM LivenessCorrect == Spec => LivenessFollowsPublic
<1>1. ASSUME SInv, Probe, Fitting(flags), "public" \in up
      PROVE  live' = "alive"
  <2>1. /\ step = "run" /\ tlsConfig["public"] = Told("public")
        /\ serves["public"] = IF Told("public") # {} THEN "https" ELSE "http"
        /\ trusted = IF flags.scheme = "" THEN {} ELSE Trust(flags)
    BY <1>1 DEF SInv, SetUp
  <2>2. CASE flags.scheme = "http" /\ flags.cert["public"] = "" /\ flags.key["public"] = ""
    BY <1>1, <2>1, <2>2 DEF Probe, Reached, Told
  <2>3. CASE flags.scheme = "https" /\ flags.cert["public"] # ""
    <3>1. PrivateKey[flags.key["public"]] \in trusted
      BY <1>1, <2>1, <2>3 DEF Fitting, Trust
    <3> DEFINE c == [pair |-> PrivateKey[flags.key["public"]],
                     min |-> Version[flags.minVersion],
                     suites |-> flags.suites \cap KnownSuites]
    <3>2. c \in tlsConfig["public"]
      BY <2>1, <2>3, Zenon DEF Told
    <3>3. c.pair = PrivateKey[flags.key["public"]]
      OBVIOUS
    <3>4. serves["public"] = "https"
      BY <2>1, <3>2
    <3> HIDE DEF c
    <3> QED BY <1>1, <2>3, <3>1, <3>2, <3>3, <3>4 DEF Probe, Reached
  <2> QED BY <1>1, <2>2, <2>3 DEF Fitting
<1>2. ASSUME Probe, Fitting(flags), "public" \notin up
      PROVE  live' = "dead"
  BY <1>2 DEF Probe, Reached, Fitting
<1>3. SInv => (Probe /\ Fitting(flags) => (live' = "alive" <=> "public" \in up))
  BY <1>1, <1>2
<1> QED BY <1>3, SInvariance, PTL DEF Spec, LivenessFollowsPublic

=============================================================================
