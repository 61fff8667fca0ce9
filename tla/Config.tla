------------------------------- MODULE Config -------------------------------
(***************************************************************************)
(* From command line to matcher: ParseFlags (internal/config/config.go),   *)
(* the choice of the cache in main.go, ToMatcher and prepareMap, and the   *)
(* order-sensitive form of what Matcher describes with sets: the keys of a *)
(* matcher are a sequence here, which may repeat a key.                    *)
(*                                                                         *)
(* A flag with commas is the sequence of its pieces: an absent or empty    *)
(* one is <<"">>, a leading comma makes the first piece empty.             *)
(***************************************************************************)
EXTENDS Integers, Sequences, SequencesExt

CONSTANTS
    CommandLines,   \* the flags the process may be started with
    Requests,       \* the requests it may get: tenant, groups, selectors
    Mentions        \* piece of --opa.matcher -> the labels it has as substrings

VARIABLES
    flags,       \* the command line
    result,      \* how far start-up came, or the error that ended it
    mappings,    \* Config.Mappings
    expire,      \* Config.Memcached.Expire
    backend,     \* the Cacher that main chose
    matcher,     \* the matcher of handler.New: keys, skipTenants, adminGroups
    request,     \* the request handled last
    requestKeys  \* the keys of its matcher

vars == <<flags, result, mappings, expire, backend, matcher, request, requestKeys>>

ViaQLabel == "kubernetes_namespace_name"
OTELLabel == "k8s_namespace_name"

(* Pieces of flags are names, and neither label has the other one in it.   *)
ASSUME ConfigAssumption ==
    /\ DOMAIN Mentions \subseteq STRING
    /\ OTELLabel \notin Mentions[ViaQLabel] /\ ViaQLabel \notin Mentions[OTELLabel]
    /\ Requests # {}
    /\ \A f \in CommandLines :
          /\ f.matcher \in Seq(DOMAIN Mentions) /\ f.matcher # <<>>
          /\ f.skipTenants \in Seq(STRING) /\ f.adminGroups \in Seq(STRING)
          /\ f.expire \in Int

Serving == result \in {"serving", "selected"}

NoMatcher == [keys |-> <<>>, skipTenants |-> {}, adminGroups |-> {}]

(* The matcher as Matcher sees it: sets, and the same requests. *)
Sets == INSTANCE Matcher WITH
    MatcherKeys <- ToSet(matcher.keys),
    SkipTenants <- matcher.skipTenants,
    AdminGroups <- matcher.adminGroups,
    ViaQToOTELMigration <- flags.migration,
    Inputs <- Requests, Namespaces <- {}, Labels <- {}, Tokens <- {},
    Users <- {}, Groups <- {}, Tenants <- {}, Resources <- {}, NoToken <- "",
    NoResource <- "", DebugToken <- "", Mappings <- <<>>

-----------------------------------------------------------------------------
(* ParseFlags *)

(* A plausible mistake: one of the two labels is enough. *)
LacksLabelsBoth(f) ==
    \A l \in {ViaQLabel, OTELLabel} :
        \A i \in DOMAIN f.matcher : l \notin Mentions[f.matcher[i]]

(* strings.Contains on the whole flag, for each of the labels. *)
LacksLabels(f) ==
    \E l \in {ViaQLabel, OTELLabel} :
        \A i \in DOMAIN f.matcher : l \notin Mentions[f.matcher[i]]

Errors == <<"invalid log level", "errInvalidOPAPackage", "errInvalidOPARule",
            "missing tenant mappings", "errInvalidMapping", "errViaQOTELMatcher">>

(* The checks in the order of the code; the first that fails counts. *)
Problems(f) ==
    <<~f.logLevelOK, ~f.packageOK, ~f.ruleOK,
      ~f.mappingsGiven,
      \E i \in DOMAIN f.mappings : Len(f.mappings[i]) # 2,
      f.migration /\ LacksLabels(f)>>

(* A later mapping of the same tenant replaces an earlier one. *)
MappingsOf(f) ==
    [t \in {m[1] : m \in ToSet(f.mappings)} |->
        LET i == SelectLastInSeq(f.mappings, LAMBDA m : m[1] = t)
        IN f.mappings[i][2]]

ParseFlags ==
    /\ result = "started"
    /\ LET i == SelectInSeq(Problems(flags), LAMBDA p : p)
       IN IF i > 0
          THEN result' = Errors[i] /\ UNCHANGED <<mappings, expire>>
          ELSE /\ result' = "parsed"
               /\ mappings' = MappingsOf(flags)
               /\ expire' = IF flags.expireGiven THEN flags.expire ELSE 60
    /\ UNCHANGED <<flags, backend, matcher, request, requestKeys>>

-----------------------------------------------------------------------------
(* main and handler.New *)

(* A plausible mistake: empty pieces count as names. *)
PrepareMapWithBlanks(pieces) == ToSet(pieces)

PrepareMap(pieces) == ToSet(pieces) \ {""}

(* All pieces become keys, empty ones too, unless the first one is empty. *)
ToMatcher(f) ==
    [keys        |-> IF f.matcher[1] = "" THEN <<>> ELSE f.matcher,
     skipTenants |-> PrepareMap(f.skipTenants),
     adminGroups |-> PrepareMap(f.adminGroups)]

Wire ==
    /\ result = "parsed"
    /\ result' = "serving"
    /\ backend' = IF flags.servers # {} THEN "memcached" ELSE "inmemory"
    /\ matcher' = ToMatcher(flags)
    /\ UNCHANGED <<flags, mappings, expire, request, requestKeys>>

-----------------------------------------------------------------------------
(* A request selects its matcher: ForRequest, then ViaQToOTELMigration. *)

ForRequest(q) ==
    IF \/ q.tenant \in matcher.skipTenants
       \/ q.groups \cap matcher.adminGroups # {}
    THEN <<>>
    ELSE matcher.keys

(* A plausible mistake: after the first label the second one is dropped, too. *)
MigrateFallingThrough(s, q) ==
    RemoveFirst(IF q.selectors[OTELLabel] # {} THEN RemoveFirst(s, ViaQLabel) ELSE s,
                OTELLabel)

(* slices.Delete at slices.Index: only the first occurrence goes. *)
Migrate(s, q) ==
    IF q.selectors[OTELLabel] # {} THEN RemoveFirst(s, ViaQLabel)
                                   ELSE RemoveFirst(s, OTELLabel)

Select(q) ==
    /\ Serving
    /\ result' = "selected"
    /\ request' = q
    /\ requestKeys' = IF flags.migration THEN Migrate(ForRequest(q), q)
                                         ELSE ForRequest(q)
    /\ UNCHANGED <<flags, mappings, expire, backend, matcher>>

-----------------------------------------------------------------------------

Init ==
    /\ flags \in CommandLines
    /\ result = "started"
    /\ mappings = <<>>
    /\ expire = 0
    /\ backend = "none"
    /\ matcher = NoMatcher
    /\ request = CHOOSE q \in Requests : TRUE
    /\ requestKeys = <<>>

Next ==
    \/ ParseFlags
    \/ Wire
    \/ \E q \in Requests : Select(q)

Spec == Init /\ [][Next]_vars

-----------------------------------------------------------------------------
(* Properties *)

(* Type invariant: blank names never reach the sets, and nothing of a      *)
(* command line that was refused is used.                                  *)
TypeOK ==
    /\ flags \in CommandLines /\ request \in Requests
    /\ result \in {"started", "parsed", "serving", "selected"} \cup ToSet(Errors)
    /\ DOMAIN mappings = IF result \in {"parsed", "serving", "selected"}
                          THEN {m[1] : m \in ToSet(flags.mappings)} ELSE {}
    /\ expire \in Int
    /\ backend \in {"none", "inmemory", "memcached"}
    /\ backend = "none" <=> ~Serving
    /\ ToSet(matcher.keys) \subseteq DOMAIN Mentions
    /\ matcher.skipTenants \cup matcher.adminGroups \subseteq STRING \ {""}
    /\ ToSet(requestKeys) \subseteq ToSet(matcher.keys)

(* Wherever the process serves, the assumption that Matcher makes about    *)
(* the flags holds: during a migration neither label is the only key       *)
(* (config.go ParseFlags, matcher.go ToMatcher).                           *)
FlagsFitMatcher ==
    Serving /\ flags.migration =>
        ToSet(matcher.keys) \notin {{ViaQLabel}, {OTELLabel}}

(* A request goes without keys only when its tenant or one of its groups   *)
(* is exempted by name, or when the whole process has none: because        *)
(* --opa.matcher is absent, or because it begins with a comma, whatever    *)
(* keys come after it.  No other flag, blank name or migration leaves it   *)
(* unconstrained (matcher.go ToMatcher, prepareMap, ForRequest,            *)
(* ViaQToOTELMigration).                                                   *)
EmptyMatcherHasAReason ==
    result = "selected" /\ requestKeys = <<>> =>
        \/ flags.matcher[1] = ""
        \/ request.tenant \in ToSet(flags.skipTenants) \ {""}
        \/ request.groups \cap (ToSet(flags.adminGroups) \ {""}) # {}

(* As long as no key is given twice, the sequence of a request's keys has  *)
(* exactly the elements that Matcher computes with sets (matcher.go        *)
(* ForRequest, ViaQToOTELMigration).                                       *)
SetsAreFaithful ==
    LET promised == Sets!ForRequest(ToSet(matcher.keys), request).keys
    IN result = "selected" /\ IsInjective(matcher.keys) =>
          ToSet(requestKeys) = IF flags.migration THEN Sets!Migrate(promised, request)
                                                  ELSE promised

(* config.go:21 "OPA matcher must contain both ... when ViaQ to OTel       *)
(* migration is enabled": with the migration, both labels are keys.  The   *)
(* check looks at the text of the flag, not at its keys.                   *)
BothLabelsAreKeys ==
    Serving /\ flags.migration =>
        {ViaQLabel, OTELLabel} \subseteq ToSet(matcher.keys)

=============================================================================
