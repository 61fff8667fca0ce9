--------------------------- MODULE NameListsProofs ---------------------------
(***************************************************************************)
(* What can be read off the text that a list of namespaces is joined to.   *)
(***************************************************************************)
EXTENDS NameLists, WellFoundedInduction, TLAPS

(* The one function that flattens a list of one-piece names step by step   *)
(* gives the beginnings of the list.                                       *)
LEMMA FlattenUnique ==
    ASSUME NEW S, NEW o \in Seq(S), NEW n, n = Len(o), NEW f,
           \A i \in 1 .. n : f[i] = IF i = 1 THEN <<o[i]>> ELSE f[i - 1] \o <<o[i]>>
    PROVE  \A i \in 1 .. n : f[i] = SubSeq(o, 1, i)
<1> DEFINE Bad == {i \in 1 .. n : f[i] # SubSeq(o, 1, i)}
<1> SUFFICES ASSUME Bad # {} PROVE FALSE
  OBVIOUS
<1>1. PICK m \in Bad : \A j \in Bad : ~(<<j, m>> \in OpToRel(<, Nat))
  <2>1. Bad \subseteq Nat
    OBVIOUS
  <2> QED BY <2>1, NatLessThanWellFounded, WFMin
<1>2. \A j \in Bad : ~(j < m)
  <2> SUFFICES ASSUME NEW j \in Bad, j < m
               PROVE  <<j, m>> \in OpToRel(<, Nat)
    BY <1>1
  <2>1. j \in Nat /\ m \in Nat
    OBVIOUS
  <2> HIDE DEF Bad
  <2> QED BY <2>1 DEF OpToRel
<1>3. m \in 1 .. n /\ f[m] # SubSeq(o, 1, m)
  OBVIOUS
<1>4. CASE m = 1
  <2>1. f[m] = <<o[1]>>
    BY <1>3, <1>4
  <2>2. 1 <= Len(o)
    BY <1>3, <1>4
  <2> HIDE DEF Bad
  <2>3. SubSeq(o, 1, 1) = <<o[1]>>
    <3>1. SubSeq(o, 1, 1) \in Seq(S) /\ Len(SubSeq(o, 1, 1)) = 1
      BY <2>2
    <3>2. SubSeq(o, 1, 1)[1] = o[1]
      BY <2>2
    <3>3. \A s \in Seq(S) : Len(s) = 1 => s = <<s[1]>>
      OBVIOUS
    <3> QED BY <3>1, <3>2, <3>3
  <2> QED BY <1>3, <1>4, <2>1, <2>3
<1>5. CASE m # 1
  <2>1. m - 1 \in 1 .. n /\ m - 1 < m
    BY <1>3, <1>5
  <2>2. f[m - 1] = SubSeq(o, 1, m - 1)
    BY <1>2, <2>1
  <2>3. f[m] = f[m - 1] \o <<o[m]>>
    BY <1>3, <1>5
  <2>4. SubSeq(o, 1, m) = SubSeq(o, 1, m - 1) \o <<o[m]>>
    BY <1>3, <2>1
  <2> QED BY <1>3, <2>2, <2>3, <2>4
<1> QED BY <1>4, <1>5

LEMMA FlattenSingles ==
    ASSUME NEW S, NEW o \in Seq(S), o # <<>>
    PROVE  FlattenSeq([i \in DOMAIN o |-> <<o[i]>>]) = o
<1> DEFINE n == Len(o)
           s == [i \in DOMAIN o |-> <<o[i]>>]
           Step(f) == [i \in 1 .. Len(s) |-> IF i = 1 THEN s[i] ELSE f[i - 1] \o s[i]]
           g == [i \in 1 .. n |-> SubSeq(o, 1, i)]
<1>1. n \in Nat /\ n # 0 /\ DOMAIN o = 1 .. n
  OBVIOUS
<1>2. s = [i \in 1 .. n |-> <<o[i]>>] /\ Len(s) = n
  BY <1>1
<1>3. g = Step(g)
  <2>1. \A i \in 1 .. n : g[i] = IF i = 1 THEN s[i] ELSE g[i - 1] \o s[i]
    <3> SUFFICES ASSUME NEW i \in 1 .. n
                 PROVE  g[i] = IF i = 1 THEN s[i] ELSE g[i - 1] \o s[i]
      OBVIOUS
    <3>1. s[i] = <<o[i]>>
      BY <1>1
    <3>2. CASE i = 1
      BY <3>1, <3>2
    <3>3. CASE i # 1
      <4>1. g[i - 1] = SubSeq(o, 1, i - 1)
        BY <3>3
      <4>2. SubSeq(o, 1, i) = SubSeq(o, 1, i - 1) \o <<o[i]>>
        BY <3>3
      <4> QED BY <3>1, <3>3, <4>1, <4>2
    <3> QED BY <3>2, <3>3
  <2> QED BY <1>2, <2>1
<1> QED
  <2> DEFINE h == CHOOSE f : f = Step(f)
  <2>1. h = Step(h)
    BY <1>3, Zenon
  <2>2. FlattenSeq(s) = h[Len(s)]
    BY <1>1, <1>2 DEF FlattenSeq
  <2>3. h[n] = SubSeq(o, 1, n)
    <3>1. \A i \in 1 .. n :
              h[i] = IF i = 1 THEN <<o[i]>> ELSE h[i - 1] \o <<o[i]>>
      <4> HIDE DEF h
      <4>1. \A i \in 1 .. n : h[i] = IF i = 1 THEN s[i] ELSE h[i - 1] \o s[i]
        BY <1>2, <2>1
      <4> QED BY <1>1, <4>1
    <3>2. n \in 1 .. n /\ n = Len(o)
      BY <1>1
    <3> HIDE DEF h, s, n
    <3>3. \A i \in 1 .. n : h[i] = SubSeq(o, 1, i)
      BY <3>1, <3>2, FlattenUnique
    <3> QED BY <3>2, <3>3
  <2>4. SubSeq(o, 1, n) = o
    OBVIOUS
  <2> QED BY <1>2, <2>2, <2>3, <2>4

(* A list of names without blanks and colons is what it is joined to. *)
LEMMA JoinedPlain ==
    ASSUME NEW o \in Seq(Namespaces),
           \A i \in DOMAIN o : o[i] # ClusterWide /\ Pieces[o[i]] = <<o[i]>>
    PROVE  Joined(o) = IF o = <<>> THEN <<ClusterWide>> ELSE o
<1>1. [i \in DOMAIN o |-> Pieces[o[i]]] = [i \in DOMAIN o |-> <<o[i]>>]
  OBVIOUS
<1> QED BY <1>1, FlattenSingles DEF Joined

(* Two lists of such names with one text are one list. *)
THEOREM PlainListsToldApart ==
    ASSUME NEW o \in Seq(Namespaces),
           \A i \in DOMAIN o : o[i] # ClusterWide /\ Pieces[o[i]] = <<o[i]>>,
           NEW r \in Seq(Namespaces),
           \A i \in DOMAIN r : r[i] # ClusterWide /\ Pieces[r[i]] = <<r[i]>>,
           Joined(o) = Joined(r)
    PROVE  o = r
<1>1. \A s \in Seq(Namespaces) :
          (\A i \in DOMAIN s : s[i] # ClusterWide) => s # <<ClusterWide>>
  <2> SUFFICES ASSUME NEW s \in Seq(Namespaces), s = <<ClusterWide>>
               PROVE  \E i \in DOMAIN s : s[i] = ClusterWide
    OBVIOUS
  <2> QED BY 1 \in DOMAIN s
<1> QED BY <1>1, JoinedPlain

=============================================================================
