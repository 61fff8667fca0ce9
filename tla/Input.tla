------------------------------- MODULE Input -------------------------------
(***************************************************************************)
(* The OPA input document of internal/handler/handler.go and the checks    *)
(* the handler makes on it before anything else happens.                   *)
(*                                                                         *)
(* Names (tenants, users, tokens, namespaces, ...) are opaque values.  The *)
(* selectors map is total here: a label the client did not mention has the *)
(* empty set of values, which the code does not tell from an absent label. *)
(***************************************************************************)
EXTENDS Integers

CONSTANTS
    Inputs,       \* the input documents clients may send
    Namespaces,   \* values that may appear as a namespace
    Labels,       \* label names that may appear in selectors
    Tokens, Users, Groups, Tenants, Resources,
    NoToken,      \* the X-Forwarded-Access-Token header is absent or empty
    NoResource,   \* "resource" is absent or empty
    DebugToken,   \* --debug.token, NoToken when the flag is not set
    Mappings      \* --openshift.mappings: tenant -> API group

(* What arrives over HTTP: "form" says how far the handler can decode it.  *)
InputType ==
    [form         : {"ok", "notPost", "undecodable"},
     permission   : {"read", "write", "other"},
     tenant       : Tenants,
     resource     : Resources \cup {NoResource},
     token        : Tokens \cup {NoToken},
     user         : Users,
     groups       : SUBSET Groups,
     selectors    : [Labels -> SUBSET Namespaces],
     wildcard     : BOOLEAN,
     metadataOnly : BOOLEAN]

ASSUME InputAssumption ==
    /\ Inputs # {}
    /\ Inputs \subseteq InputType
    /\ DOMAIN Mappings \subseteq Tenants
    /\ NoToken \notin Tokens
    /\ DebugToken \in Tokens \cup {NoToken}

-----------------------------------------------------------------------------

Token(q) == IF q.token = NoToken THEN DebugToken ELSE q.token

Verb(q) == IF q.permission = "read" THEN "get" ELSE "create"

APIGroup(q) == Mappings[q.tenant]

(* Every value of every selector counts as a namespace, whatever its label. *)
Requested(q) == UNION {q.selectors[l] : l \in Labels}

Valid(q) ==
    /\ q.form = "ok"
    /\ q.tenant \in DOMAIN Mappings
    /\ q.resource # NoResource
    /\ q.permission \in {"read", "write"}
    /\ Token(q) # NoToken

(* The first failing check decides the status. *)
InvalidStatus(q) ==
    IF /\ q.form # "notPost"
       /\ q.form = "undecodable" \/ q.tenant \notin DOMAIN Mappings
    THEN 500
    ELSE 400

=============================================================================
