----------------------------- MODULE NameLists -----------------------------
(***************************************************************************)
(* The namespaces of a request as a list, and the text that                *)
(* internal/authorizer/cache.go joins it to, with ":" in between.          *)
(*                                                                         *)
(* Any string may be in a selector, so a name can hold a colon or be       *)
(* blank.  A text is modelled by its pieces between colons: two texts are  *)
(* equal when their pieces are, and the blank text, which joining no names *)
(* gives, has one blank piece.                                             *)
(***************************************************************************)
EXTENDS OpenShift, FiniteSets, SequencesExt

CONSTANT Pieces   \* a namespace's name -> the sequence of its pieces

(* A name without a colon is its own and only piece. *)
ASSUME NameListsAssumption ==
    \A n \in Namespaces :
        n = ClusterWide \/ Len(Pieces[n]) = 1 => Pieces[n] = <<n>>

-----------------------------------------------------------------------------

(* sets.UnsortedList: any order. *)
Orders(S) ==
    {s \in [1 .. Cardinality(S) -> S] : {s[i] : i \in DOMAIN s} = S}

(* strings.Join(namespaces, ":"). *)
Joined(order) ==
    IF order = <<>> THEN <<ClusterWide>>
                    ELSE FlattenSeq([i \in DOMAIN order |-> Pieces[order[i]]])

(* A request whose namespaces can be read off the joined text. *)
Plain(q) == \A n \in Requested(q) : n # ClusterWide /\ Pieces[n] = <<n>>

=============================================================================
