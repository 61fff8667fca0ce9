---------------------------- MODULE ConfigProofs ----------------------------
(***************************************************************************)
(* Proofs about Config for any command lines and requests.                 *)
(***************************************************************************)
EXTENDS Config, SequenceTheorems, WellFoundedInduction, TLAPS

-----------------------------------------------------------------------------
(* The library's searches and removals *)

LEMMA MinIsMember ==
    ASSUME NEW I \in SUBSET Nat, I # {}
    PROVE  Min(I) \in I /\ \A i \in I : Min(I) <= i
<1>1. PICK m \in I : \A i \in I : ~(<<i, m>> \in OpToRel(<, Nat))
  BY NatLessThanWellFounded, WFMin
<1>2. ASSUME NEW i \in I, i < m
      PROVE  <<i, m>> \in OpToRel(<, Nat)
  <2>1. <<i, m>> \in Nat \X Nat
    OBVIOUS
  <2>2. OpToRel(<, Nat) = {ss \in Nat \X Nat : ss[1] < ss[2]}
    BY Zenon DEF OpToRel
  <2> QED BY <1>2, <2>1, <2>2
<1>3. \A i \in I : ~(i < m)
  BY <1>1, <1>2, Zenon
<1>4. \A i \in I : m <= i
  BY <1>3
<1> QED BY <1>4 DEF Min

LEMMA FirstIndex ==
    ASSUME NEW S, NEW s \in Seq(S), NEW e, NEW n \in 1 .. Len(s), s[n] = e
    PROVE  \E i \in 1 .. Len(s) :
              RemoveFirst(s, e) = RemoveAt(s, i) /\ s[i] = e
<1> DEFINE I == {i \in 1 .. Len(s) : s[i] = e}
<1>1. I \in SUBSET Nat /\ I # {}
  OBVIOUS
<1>2. Min(I) \in I
  BY <1>1, MinIsMember
<1>3. SelectInSeq(s, LAMBDA v : v = e) = Min(I)
  BY <1>1 DEF SelectInSeq
<1>4. RemoveFirst(s, e) = RemoveAt(s, Min(I))
  BY <1>3 DEF RemoveFirst
<1> QED BY <1>2, <1>4

LEMMA RemoveAtElements ==
    ASSUME NEW S, NEW s \in Seq(S), NEW i \in 1 .. Len(s)
    PROVE  /\ RemoveAt(s, i) \in Seq(S)
           /\ Len(RemoveAt(s, i)) = Len(s) - 1
           /\ \A j \in 1 .. Len(s) - 1 :
                 RemoveAt(s, i)[j] = IF j < i THEN s[j] ELSE s[j + 1]
<1> DEFINE s1 == SubSeq(s, 1, i - 1)
           s2 == SubSeq(s, i + 1, Len(s))
<1>0. Len(s) \in Nat /\ \A j \in 1 .. Len(s) : s[j] \in S
  BY LenProperties
<1>1. /\ s1 \in Seq(S) /\ Len(s1) = i - 1
      /\ \A j \in 1 .. i - 1 : s1[j] = s[j]
  <2>1. \A j \in 1 .. i - 1 : s[j] \in S
    BY <1>0
  <2> QED BY <1>0, <2>1, SubSeqProperties
<1>2. /\ s2 \in Seq(S) /\ Len(s2) = Len(s) - i
      /\ \A j \in 1 .. Len(s) - i : s2[j] = s[i + j]
  <2>1. \A j \in i + 1 .. Len(s) : s[j] \in S
    BY <1>0
  <2>2. i + 1 \in Int /\ Len(s) \in Int
    BY <1>0
  <2>3. /\ SubSeq(s, i + 1, Len(s)) \in Seq(S)
        /\ Len(SubSeq(s, i + 1, Len(s))) =
              IF i + 1 <= Len(s) THEN Len(s) - (i + 1) + 1 ELSE 0
        /\ \A j \in 1 .. Len(s) - (i + 1) + 1 :
              SubSeq(s, i + 1, Len(s))[j] = s[i + 1 + j - 1]
    BY <2>1, <2>2, SubSeqProperties
  <2> QED BY <1>0, <2>3
<1>3. /\ s1 \o s2 \in Seq(S)
      /\ Len(s1 \o s2) = Len(s) - 1
      /\ \A j \in 1 .. Len(s) - 1 :
            (s1 \o s2)[j] = IF j <= i - 1 THEN s1[j] ELSE s2[j - (i - 1)]
  <2> HIDE DEF s1, s2
  <2>1. Len(s1) + Len(s2) = Len(s) - 1
    BY <1>0, <1>1, <1>2
  <2>2. /\ s1 \o s2 \in Seq(S)
        /\ Len(s1 \o s2) = Len(s1) + Len(s2)
        /\ \A j \in 1 .. Len(s1) + Len(s2) :
              (s1 \o s2)[j] = IF j <= Len(s1) THEN s1[j] ELSE s2[j - Len(s1)]
    BY <1>1, <1>2, ConcatProperties
  <2> QED BY <1>1, <2>1, <2>2
<1>4. RemoveAt(s, i) = s1 \o s2
  BY DEF RemoveAt
<1>5. ASSUME NEW j \in 1 .. Len(s) - 1
      PROVE  (s1 \o s2)[j] = IF j < i THEN s[j] ELSE s[j + 1]
  <2> HIDE DEF s1, s2
  <2>1. CASE j < i
    BY <1>0, <1>1, <1>3, <2>1
  <2>2. CASE ~(j < i)
    <3>1. j - (i - 1) \in 1 .. Len(s) - i /\ i + (j - (i - 1)) = j + 1
      BY <1>0, <2>2
    <3> QED BY <1>0, <1>2, <1>3, <2>2, <3>1
  <2> QED BY <2>1, <2>2
<1> QED BY <1>3, <1>4, <1>5

(* slices.Delete of the first occurrence: it takes nothing but e, and all  *)
(* of e if e occurs once.                                                  *)
LEMMA Removed ==
    ASSUME NEW S, NEW s \in Seq(S), NEW e
    PROVE  /\ ToSet(RemoveFirst(s, e)) \subseteq ToSet(s)
           /\ ToSet(s) \ {e} \subseteq ToSet(RemoveFirst(s, e))
           /\ IsInjective(s) => e \notin ToSet(RemoveFirst(s, e))
<1>0. Len(s) \in Nat /\ DOMAIN s = 1 .. Len(s)
  BY LenProperties
<1>1. CASE \A n \in 1 .. Len(s) : s[n] # e
  <2>1. RemoveFirst(s, e) = s
    BY <1>1 DEF RemoveFirst
  <2>2. e \notin ToSet(s)
    BY <1>0, <1>1 DEF ToSet
  <2> QED BY <2>1, <2>2
<1>2. CASE \E n \in 1 .. Len(s) : s[n] = e
  <2>1. PICK i \in 1 .. Len(s) : RemoveFirst(s, e) = RemoveAt(s, i) /\ s[i] = e
    BY <1>2, FirstIndex
  <2> DEFINE r == RemoveAt(s, i)
  <2>2. /\ r \in Seq(S) /\ Len(r) = Len(s) - 1
        /\ \A j \in 1 .. Len(s) - 1 : r[j] = IF j < i THEN s[j] ELSE s[j + 1]
    BY RemoveAtElements
  <2> HIDE DEF r
  <2>3. DOMAIN r = 1 .. Len(s) - 1
    BY <2>2, LenProperties
  <2>4. ASSUME NEW j \in DOMAIN r
        PROVE  \E k \in DOMAIN s : r[j] = s[k] /\ k # i
    <3>1. CASE j < i
      BY <1>0, <2>2, <2>3, <3>1
    <3>2. CASE ~(j < i)
      <4>1. j + 1 \in DOMAIN s /\ j + 1 # i
        BY <1>0, <2>3, <3>2
      <4> QED BY <2>2, <2>3, <3>2, <4>1
    <3> QED BY <3>1, <3>2
  <2>5. ASSUME NEW k \in DOMAIN s, k # i
        PROVE  \E j \in DOMAIN r : r[j] = s[k]
    <3>1. CASE k < i
      BY <1>0, <2>2, <2>3, <3>1
    <3>2. CASE k > i
      <4>1. k - 1 \in DOMAIN r /\ ~(k - 1 < i) /\ k - 1 + 1 = k
        BY <1>0, <2>3, <3>2
      <4> QED BY <2>2, <2>3, <4>1
    <3> QED BY <1>0, <2>5, <3>1, <3>2
  <2>6. ToSet(r) \subseteq ToSet(s)
    BY <2>4 DEF ToSet
  <2>7. ToSet(s) \ {e} \subseteq ToSet(r)
    BY <2>1, <2>5 DEF ToSet
  <2>8. IsInjective(s) => e \notin ToSet(r)
    BY <1>0, <2>1, <2>4 DEF ToSet, IsInjective
  <2> QED BY <2>1, <2>6, <2>7, <2>8 DEF r
<1> QED BY <1>1, <1>2

-----------------------------------------------------------------------------
(* The invariant *)

Accepted(f) == f.migration => ~LacksLabels(f)

KeysOf(q) == IF flags.migration THEN Migrate(ForRequest(q), q) ELSE ForRequest(q)

(* What was accepted is what is served, and what requests are given.       *)
Wired ==
    /\ result = "parsed" \/ Serving => Accepted(flags)
    /\ Serving => matcher = ToMatcher(flags)
    /\ ~Serving => matcher = NoMatcher
    /\ result # "selected" => requestKeys = <<>>
    /\ result = "selected" => requestKeys = KeysOf(request)

CInv == TypeOK /\ Wired

(* A command line that is not refused has passed every check. *)
LEMMA ParseErrors ==
    ASSUME ParseFlags
    PROVE  \/ result' \in ToSet(Errors) /\ UNCHANGED <<mappings, expire>>
           \/ /\ result' = "parsed" /\ Accepted(flags)
              /\ mappings' = MappingsOf(flags)
              /\ expire' = IF flags.expireGiven THEN flags.expire ELSE 60
<1> DEFINE P == Problems(flags)
           I == {i \in 1 .. Len(P) : P[i]}
           first == SelectInSeq(P, LAMBDA p : p)
<1>1. Len(P) = 6 /\ P[6] = (flags.migration /\ LacksLabels(flags))
  BY DEF Problems
<1>2. first = IF I # {} THEN Min(I) ELSE 0
  BY DEF SelectInSeq
<1>3. I \in SUBSET Nat /\ I \subseteq 1 .. 6
  BY <1>1
<1> HIDE DEF I, P
<1>4. CASE I = {}
  <2>1. ~(first > 0)
    BY <1>2, <1>4
  <2>2. ~P[6]
    BY <1>1, <1>4 DEF I
  <2>3. Accepted(flags)
    BY <1>1, <2>2, Zenon DEF Accepted
  <2> QED BY <2>1, <2>3 DEF ParseFlags, P
<1>5. CASE I # {}
  <2>1. first \in 1 .. 6
    BY <1>2, <1>3, <1>5, MinIsMember
  <2>2. result' = Errors[first] /\ UNCHANGED <<mappings, expire>>
    BY <2>1 DEF ParseFlags, P
  <2>3. DOMAIN Errors = 1 .. 6
    BY DEF Errors
  <2> QED BY <2>1, <2>2, <2>3 DEF ToSet
<1> QED BY <1>4, <1>5

LEMMA ParseKept == CInv /\ ParseFlags => CInv'
<1> SUFFICES ASSUME CInv, ParseFlags PROVE CInv'
  OBVIOUS
<1>0. /\ TypeOK /\ Wired /\ result = "started" /\ ~Serving
      /\ UNCHANGED <<flags, backend, matcher, request, requestKeys>>
      /\ requestKeys = <<>> /\ matcher = NoMatcher
  BY DEF CInv, Wired, ParseFlags, Serving
<1>1. CASE result' \in ToSet(Errors) /\ UNCHANGED <<mappings, expire>>
  <2>1. \A e \in ToSet(Errors) : e \notin {"started", "parsed", "serving", "selected"}
    <3>1. DOMAIN Errors = 1 .. 6
      BY DEF Errors
    <3>2. \A i \in 1 .. 6 : Errors[i] \notin {"started", "parsed", "serving", "selected"}
      <4> TAKE i \in 1 .. 6
      <4>1. i = 1 \/ i = 2 \/ i = 3 \/ i = 4 \/ i = 5 \/ i = 6
        OBVIOUS
      <4>2. /\ Errors[1] = "invalid log level" /\ Errors[2] = "errInvalidOPAPackage"
            /\ Errors[3] = "errInvalidOPARule" /\ Errors[4] = "missing tenant mappings"
            /\ Errors[5] = "errInvalidMapping" /\ Errors[6] = "errViaQOTELMatcher"
        BY DEF Errors
      <4> QED BY <4>1, <4>2
    <3> QED BY <3>1, <3>2 DEF ToSet
  <2> QED BY <1>0, <1>1, <2>1 DEF CInv, TypeOK, Wired, Serving
<1>2. CASE /\ result' = "parsed" /\ Accepted(flags)
           /\ mappings' = MappingsOf(flags)
           /\ expire' = IF flags.expireGiven THEN flags.expire ELSE 60
  <2>1. expire' \in Int
    <3>1. flags.expire \in Int
      BY <1>0, ConfigAssumption DEF TypeOK
    <3>2. expire' = flags.expire \/ expire' = 60
      BY <1>2, Zenon
    <3> QED BY <3>1, <3>2
  <2>2. DOMAIN mappings' = {m[1] : m \in ToSet(flags.mappings)}
    BY <1>2 DEF MappingsOf
  <2>3. Accepted(flags)'
    BY <1>0, <1>2 DEF Accepted, LacksLabels
  <2> QED BY <1>0, <1>2, <2>1, <2>2, <2>3 DEF CInv, TypeOK, Wired, Serving
<1> QED BY <1>1, <1>2, ParseErrors

LEMMA MatcherTyped ==
    ASSUME NEW f \in CommandLines
    PROVE  /\ ToMatcher(f).keys \in Seq(DOMAIN Mentions)
           /\ ToSet(ToMatcher(f).keys) \subseteq DOMAIN Mentions
           /\ ToMatcher(f).skipTenants \cup ToMatcher(f).adminGroups \subseteq STRING \ {""}
<1>1. \A S : \A s \in Seq(S) : ToSet(s) \subseteq S
  BY LenProperties DEF ToSet
<1>2. ToMatcher(f).keys \in Seq(DOMAIN Mentions)
  <2>1. ToMatcher(f).keys = <<>> \/ ToMatcher(f).keys = f.matcher
    BY DEF ToMatcher
  <2>2. <<>> \in Seq(DOMAIN Mentions) /\ f.matcher \in Seq(DOMAIN Mentions)
    BY EmptySeq, ConfigAssumption
  <2> QED BY <2>1, <2>2
<1>3. ToSet(f.skipTenants) \subseteq STRING /\ ToSet(f.adminGroups) \subseteq STRING
  BY <1>1, ConfigAssumption
<1> QED BY <1>1, <1>2, <1>3 DEF ToMatcher, PrepareMap

LEMMA WireKept == CInv /\ Wire => CInv'
<1> SUFFICES ASSUME CInv, Wire PROVE CInv'
  OBVIOUS
<1>0. /\ TypeOK /\ Wired /\ result = "parsed" /\ result' = "serving"
      /\ UNCHANGED <<flags, mappings, expire, request, requestKeys>>
      /\ requestKeys = <<>> /\ matcher' = ToMatcher(flags)
      /\ backend' \in {"inmemory", "memcached"} /\ Accepted(flags)
  BY DEF CInv, Wired, Wire
<1>1. flags \in CommandLines
  BY <1>0 DEF TypeOK
<1>2. /\ ToSet(matcher'.keys) \subseteq DOMAIN Mentions
      /\ matcher'.skipTenants \cup matcher'.adminGroups \subseteq STRING \ {""}
  BY <1>0, <1>1, MatcherTyped
<1>3. ToSet(requestKeys') = {}
  BY <1>0 DEF ToSet
<1>4. Accepted(flags)' /\ ToMatcher(flags)' = ToMatcher(flags)
  BY <1>0 DEF Accepted, LacksLabels, ToMatcher, PrepareMap
<1> QED BY <1>0, <1>2, <1>3, <1>4 DEF CInv, TypeOK, Wired, Serving

LEMMA KeysConfigured ==
    ASSUME TypeOK, Wired, Serving, NEW q
    PROVE  ToSet(KeysOf(q)) \subseteq ToSet(matcher.keys)
<1>1. matcher.keys \in Seq(DOMAIN Mentions)
  BY MatcherTyped DEF TypeOK, Wired
<1>2. ForRequest(q) \in Seq(DOMAIN Mentions) /\ ToSet(ForRequest(q)) \subseteq ToSet(matcher.keys)
  <2>1. ForRequest(q) = <<>> \/ ForRequest(q) = matcher.keys
    BY DEF ForRequest
  <2>2. <<>> \in Seq(DOMAIN Mentions) /\ ToSet(<<>>) = {}
    BY EmptySeq DEF ToSet
  <2> QED BY <1>1, <2>1, <2>2
<1> QED BY <1>2, Removed DEF KeysOf, Migrate

LEMMA SelectKept ==
    ASSUME CInv, NEW q \in Requests, Select(q)
    PROVE  CInv'
<1>0. /\ TypeOK /\ Wired /\ Serving /\ result' = "selected" /\ request' = q
      /\ UNCHANGED <<flags, mappings, expire, backend, matcher>>
      /\ requestKeys' = KeysOf(q)
  BY DEF CInv, Select, KeysOf
<1>1. ToSet(requestKeys') \subseteq ToSet(matcher.keys)
  BY <1>0, KeysConfigured
<1>2. Accepted(flags)' = Accepted(flags) /\ ToMatcher(flags)' = ToMatcher(flags)
  BY <1>0 DEF Accepted, LacksLabels, ToMatcher, PrepareMap
<1>3. KeysOf(request)' = KeysOf(q)
  BY <1>0 DEF KeysOf, Migrate, ForRequest
<1> QED BY <1>0, <1>1, <1>2, <1>3 DEF CInv, TypeOK, Wired, Serving

LEMMA CInvariance == Spec => []CInv
<1>1. Init => CInv
  <2> SUFFICES ASSUME Init PROVE CInv
    OBVIOUS
  <2>1. request \in Requests
    BY ConfigAssumption DEF Init
  <2>2. ToSet(requestKeys) = {} /\ ToSet(matcher.keys) = {}
    BY DEF Init, NoMatcher, ToSet
  <2>3. DOMAIN mappings = {}
    BY DEF Init
  <2> QED BY <2>1, <2>2, <2>3 DEF Init, CInv, TypeOK, Wired, Serving, NoMatcher
<1>2. CInv /\ UNCHANGED vars => CInv'
  BY DEF vars, CInv, TypeOK, Wired, Serving, Accepted, LacksLabels, KeysOf, Migrate,
         ForRequest, ToMatcher, PrepareMap
<1>3. CInv /\ [Next]_vars => CInv'
  BY <1>2, ParseKept, WireKept, SelectKept DEF Next
<1> QED BY <1>1, <1>3, PTL DEF Spec

-----------------------------------------------------------------------------

(* Blank names never reach the matcher, and a refused command line has no  *)
(* effect.                                                                 *)
THEOREM ConfigTyped == Spec => []TypeOK
BY CInvariance, PTL DEF CInv

LEMMA BothMentioned ==
    ASSUME CInv, Serving, flags.migration
    PROVE  ToSet(matcher.keys) # {ViaQLabel} /\ ToSet(matcher.keys) # {OTELLabel}
<1>1. matcher = ToMatcher(flags) /\ ~LacksLabels(flags) /\ flags \in CommandLines
  BY DEF CInv, Wired, TypeOK, Accepted
<1>2. PICK i \in DOMAIN flags.matcher : ViaQLabel \in Mentions[flags.matcher[i]]
  BY <1>1 DEF LacksLabels
<1>3. PICK j \in DOMAIN flags.matcher : OTELLabel \in Mentions[flags.matcher[j]]
  BY <1>1 DEF LacksLabels
<1>4. matcher.keys = <<>> \/ matcher.keys = flags.matcher
  BY <1>1 DEF ToMatcher
<1>5. CASE matcher.keys = <<>>
  BY <1>5 DEF ToSet
<1>6. CASE matcher.keys = flags.matcher
  <2>1. flags.matcher[i] \in ToSet(matcher.keys) /\ flags.matcher[j] \in ToSet(matcher.keys)
    BY <1>6 DEF ToSet
  <2>2. flags.matcher[i] # OTELLabel /\ flags.matcher[j] # ViaQLabel
    BY <1>2, <1>3, ConfigAssumption
  <2> QED BY <2>1, <2>2
<1> QED BY <1>4, <1>5, <1>6

(* What Matcher assumes of its constants holds of every accepted command   *)
(* line, whatever its pieces.                                              *)
THEOREM FlagsCorrect == Spec => []FlagsFitMatcher
<1>1. CInv => FlagsFitMatcher
  BY BothMentioned DEF FlagsFitMatcher
<1> QED BY <1>1, CInvariance, PTL

(* Only a blank first piece of --opa.matcher, whatever the other flags and *)
(* pieces are, leaves requests without keys that are not exempt by name.   *)
THEOREM EmptyCorrect == Spec => []EmptyMatcherHasAReason
<1>0. ASSUME CInv, result = "selected", flags.matcher[1] # ""
      PROVE  matcher.keys # <<>>
  <2>1. matcher = ToMatcher(flags) /\ flags \in CommandLines
    BY <1>0 DEF CInv, TypeOK, Wired, Serving
  <2>2. matcher.keys = flags.matcher
    BY <1>0, <2>1 DEF ToMatcher
  <2> QED BY <2>1, <2>2, ConfigAssumption
<1>1. ASSUME CInv, result = "selected", matcher.keys # <<>>, requestKeys = <<>>
      PROVE  \/ request.tenant \in ToSet(flags.skipTenants) \ {""}
             \/ request.groups \cap (ToSet(flags.adminGroups) \ {""}) # {}
  <2>1. /\ Serving /\ matcher = ToMatcher(flags) /\ KeysOf(request) = <<>>
        /\ matcher.keys \in Seq(DOMAIN Mentions)
    BY <1>1, MatcherTyped DEF CInv, TypeOK, Wired, Serving
  <2>2. SUFFICES ASSUME ForRequest(request) = matcher.keys
                 PROVE  FALSE
    BY <2>1 DEF ForRequest, ToMatcher, PrepareMap
  <2>3. flags.migration
    BY <1>1, <2>1, <2>2 DEF KeysOf
  <2>4. PICK l \in {ViaQLabel, OTELLabel} : RemoveFirst(matcher.keys, l) = <<>>
    BY <2>1, <2>2, <2>3 DEF KeysOf, Migrate
  <2>5. ToSet(matcher.keys) \subseteq {l}
    <3>1. ToSet(matcher.keys) \ {l} \subseteq ToSet(<<>>)
      BY <2>1, <2>4, Removed
    <3>2. ToSet(<<>>) = {}
      BY DEF ToSet
    <3> QED BY <3>1, <3>2
  <2>6. ToSet(matcher.keys) # {}
    <3>1. 1 \in DOMAIN matcher.keys
      BY <1>1, <2>1, EmptySeq, LenProperties
    <3> QED BY <3>1 DEF ToSet
  <2> QED BY <1>1, <2>1, <2>3, <2>5, <2>6, BothMentioned
<1>2. CInv => EmptyMatcherHasAReason
  BY <1>0, <1>1 DEF EmptyMatcherHasAReason
<1> QED BY <1>2, CInvariance, PTL

(* For keys that are given once, sets of keys say what sequences do: what  *)
(* is proved about requests with Matcher holds of the sequences.           *)
THEOREM SetsCorrect == Spec => []SetsAreFaithful
<1>1. ASSUME CInv, result = "selected", IsInjective(matcher.keys)
      PROVE  ToSet(requestKeys) =
                LET promised == Sets!ForRequest(ToSet(matcher.keys), request).keys
                IN IF flags.migration THEN Sets!Migrate(promised, request) ELSE promised
  <2> DEFINE k == ForRequest(request)
  <2>1. /\ requestKeys = KeysOf(request)
        /\ matcher.keys \in Seq(DOMAIN Mentions)
    BY <1>1, MatcherTyped DEF CInv, TypeOK, Wired, Serving
  <2>2. /\ k \in Seq(DOMAIN Mentions) /\ IsInjective(k)
        /\ ToSet(k) = Sets!ForRequest(ToSet(matcher.keys), request).keys
    <3>1. <<>> \in Seq(DOMAIN Mentions) /\ ToSet(<<>>) = {} /\ IsInjective(<<>>)
      BY EmptySeq DEF ToSet, IsInjective
    <3> QED BY <1>1, <2>1, <3>1 DEF ForRequest, Sets!ForRequest, Sets!Exempt
  <2>3. \A e : ToSet(RemoveFirst(k, e)) = ToSet(k) \ {e}
    BY <2>2, Removed
  <2> HIDE DEF k
  <2>4. ToSet(Migrate(k, request)) = Sets!Migrate(ToSet(k), request)
    BY <2>3 DEF Migrate, Sets!Migrate, Sets!ViaQLabel, Sets!OTELLabel, ViaQLabel, OTELLabel
  <2> QED BY <2>1, <2>2, <2>4 DEF KeysOf, k
<1>2. CInv => SetsAreFaithful
  BY <1>1 DEF SetsAreFaithful
<1> QED BY <1>2, CInvariance, PTL

=============================================================================
