----------------------------- MODULE FixerProofs -----------------------------
(***************************************************************************)
(* Theorems about Fixer, for every stream of trees and every name.         *)
(***************************************************************************)
EXTENDS Fixer, FiniteSetTheorems, FunctionTheorems, SequenceTheorems, WellFoundedInduction, TLAPS

(***************************************************************************)
(* Positions and their prefixes.                                           *)
(***************************************************************************)
Pos == Seq(Texts)

LEMMA Singleton ==
  ASSUME NEW S, NEW e \in S
  PROVE  <<e>> \in Seq(S) /\ Len(<<e>>) = 1 /\ <<e>>[1] = e
  OBVIOUS

LEMMA SeqGrows ==
  ASSUME NEW S, NEW R, NEW s
  PROVE  /\ s \in Seq(S) => s \in Seq(S \cup R)
         /\ s \in Seq(R) => s \in Seq(S \cup R)
  BY SeqMonotonic

\* The tokens of the paths, one by one.
LEMMA TokenTexts ==
  ASSUME TextsOfPaths
  PROVE  \A k \in {"containers", "*", "name", "-", "securityContext", "runAsNonRoot",
                   "allowPrivilegeEscalation", "capabilities", "drop", "readOnlyRootFilesystem"} :
           k \in Texts /\ \A i \in 0..MaxItems : ToString(i) # k
<1>1. Tokens \subseteq Texts /\ \A k \in Tokens : \A i \in 0..MaxItems : ToString(i) # k
  BY DEF TextsOfPaths
<1>2. {"containers", "*", "name", "-"} \subseteq Tokens
  BY DEF Tokens, AllContainers, ToSet
<1>3. \A rule \in DOMAIN Fixes : \A i \in DOMAIN Fixes[rule] : ToSet(Fixes[rule][i].path) \subseteq Tokens
  BY DEF Tokens
<1>4. /\ {"securityContext", "runAsNonRoot"} \subseteq ToSet(Fixes[1][1].path)
      /\ {"securityContext", "allowPrivilegeEscalation"} \subseteq ToSet(Fixes[2][1].path)
      /\ {"securityContext", "capabilities", "drop"} \subseteq ToSet(Fixes[2][2].path)
      /\ {"securityContext", "readOnlyRootFilesystem"} \subseteq ToSet(Fixes[3][1].path)
  BY DEF Fixes, ToSet
<1>5. /\ DOMAIN Fixes = {1, 2, 3} /\ 1 \in DOMAIN Fixes[1] /\ 1 \in DOMAIN Fixes[2] /\ 2 \in DOMAIN Fixes[2]
      /\ 1 \in DOMAIN Fixes[3]
  BY DEF Fixes
<1> QED
  BY <1>1, <1>2, <1>3, <1>4, <1>5

LEMMA PrefixIs ==
  ASSUME NEW a \in Pos, NEW p \in Pos
  PROVE  IsPrefix(a, p) <=> Len(a) <= Len(p) /\ \A i \in 1..Len(a) : a[i] = p[i]
<1> DEFINE n == Len(a)
<1>1. n \in Nat /\ Len(p) \in Nat /\ SubSeq(a, 1, n) = a
  BY DEF Pos
<1>2. CASE n <= Len(p)
  <2>1. SubSeq(p, 1, n) \in Pos /\ Len(SubSeq(p, 1, n)) = n
        /\ \A i \in 1..n : SubSeq(p, 1, n)[i] = p[i]
    BY <1>1, <1>2 DEF Pos
  <2>2. ASSUME \A i \in 1..n : a[i] = p[i] PROVE SubSeq(p, 1, n) = a
    BY <2>1, <2>2, <1>1, SeqEqual DEF Pos
  <2> QED
    BY <1>1, <1>2, <2>1, <2>2 DEF IsPrefix
<1>3. CASE ~(n <= Len(p))
  BY <1>3 DEF IsPrefix
<1> QED
  BY <1>2, <1>3

LEMMA PrefixOrder ==
  ASSUME NEW a \in Pos, NEW b \in Pos, NEW p \in Pos
  PROVE  /\ IsPrefix(a, a)
         /\ IsPrefix(a, b) /\ IsPrefix(b, p) => IsPrefix(a, p)
         /\ IsPrefix(a, b) /\ IsPrefix(b, a) => a = b
         /\ IsPrefix(a, p) /\ IsPrefix(b, p) => IsPrefix(a, b) \/ IsPrefix(b, a)
<1>1. Len(a) \in Nat /\ Len(b) \in Nat /\ Len(p) \in Nat
  BY DEF Pos
<1>2. ASSUME IsPrefix(a, b), IsPrefix(b, a) PROVE a = b
  <2>1. Len(a) = Len(b) /\ \A i \in 1..Len(a) : a[i] = b[i]
    BY <1>1, <1>2, PrefixIs
  <2> QED
    BY <2>1, SeqEqual DEF Pos
<1>3. IsPrefix(a, a)
  BY <1>1, PrefixIs
<1>4. ASSUME IsPrefix(a, b), IsPrefix(b, p) PROVE IsPrefix(a, p)
  <2>1. /\ Len(a) <= Len(b) /\ \A i \in 1..Len(a) : a[i] = b[i]
        /\ Len(b) <= Len(p) /\ \A i \in 1..Len(b) : b[i] = p[i]
    BY <1>4, PrefixIs
  <2> QED
    BY <2>1, <1>1, PrefixIs
<1>5. ASSUME IsPrefix(a, p), IsPrefix(b, p) PROVE IsPrefix(a, b) \/ IsPrefix(b, a)
  <2>1. /\ Len(a) <= Len(p) /\ \A i \in 1..Len(a) : a[i] = p[i]
        /\ Len(b) <= Len(p) /\ \A i \in 1..Len(b) : b[i] = p[i]
    BY <1>5, PrefixIs
  <2>2. CASE Len(a) <= Len(b)
    BY <2>1, <2>2, <1>1, PrefixIs
  <2>3. CASE Len(b) <= Len(a)
    BY <2>1, <2>3, <1>1, PrefixIs
  <2> QED
    BY <2>2, <2>3, <1>1
<1> QED
  BY <1>2, <1>3, <1>4, <1>5

\* What is below a position.
LEMMA PrefixSplit ==
  ASSUME NEW a \in Pos, NEW q \in Pos
  PROVE  /\ a \o q \in Pos
         /\ IsPrefix(a, a \o q)
         /\ Below(a, a \o q) = q
<1>1. /\ Len(a) \in Nat /\ Len(q) \in Nat /\ a \o q \in Pos /\ Len(a \o q) = Len(a) + Len(q)
      /\ \A i \in 1..Len(a) : (a \o q)[i] = a[i]
      /\ \A i \in 1..Len(q) : (a \o q)[Len(a) + i] = q[i]
  BY DEF Pos
<1> DEFINE p == a \o q
<1> HIDE DEF p
<1>2. p \in Pos /\ Len(p) = Len(a) + Len(q)
  BY <1>1 DEF p
<1>3. /\ SubSeq(p, Len(a) + 1, Len(p)) \in Pos
      /\ Len(SubSeq(p, Len(a) + 1, Len(p))) = Len(q)
      /\ \A i \in 1..Len(q) : SubSeq(p, Len(a) + 1, Len(p))[i] = p[Len(a) + i]
  BY <1>1, <1>2 DEF Pos
<1>4. SubSeq(p, Len(a) + 1, Len(p)) = q
  BY <1>1, <1>3, SeqEqual DEF Pos, p
<1>5. IsPrefix(a, p)
  <2>1. Len(a) <= Len(p) /\ \A i \in 1..Len(a) : a[i] = p[i]
    BY <1>1, <1>2 DEF p
  <2> QED
    BY <1>2, <2>1, PrefixIs
<1> QED
  BY <1>1, <1>4, <1>5 DEF Below, p

LEMMA PrefixBelow ==
  ASSUME NEW a \in Pos, NEW p \in Pos, IsPrefix(a, p)
  PROVE  Below(a, p) \in Pos /\ p = a \o Below(a, p) /\ Len(p) = Len(a) + Len(Below(a, p))
<1>1. Len(a) \in Nat /\ Len(p) \in Nat /\ Len(a) <= Len(p) /\ \A i \in 1..Len(a) : a[i] = p[i]
  BY PrefixIs DEF Pos
<1> DEFINE q == SubSeq(p, Len(a) + 1, Len(p))
<1>2. q \in Pos /\ Len(q) = Len(p) - Len(a) /\ \A i \in 1..Len(q) : q[i] = p[Len(a) + i]
  BY <1>1 DEF Pos
<1> HIDE DEF q
<1>3. /\ a \o q \in Pos /\ Len(a \o q) = Len(p)
      /\ \A i \in 1..Len(a) : (a \o q)[i] = a[i]
      /\ \A i \in 1..Len(q) : (a \o q)[Len(a) + i] = q[i]
  BY <1>1, <1>2 DEF Pos
<1>4. ASSUME NEW i \in 1..Len(p) PROVE (a \o q)[i] = p[i]
  <2>1. CASE i <= Len(a)
    BY <2>1, <1>1, <1>3
  <2>2. CASE ~(i <= Len(a))
    <3>1. i - Len(a) \in 1..Len(q) /\ i = Len(a) + (i - Len(a))
      BY <2>2, <1>1, <1>2
    <3> QED
      BY <3>1, <1>2, <1>3
  <2> QED
    BY <2>1, <2>2
<1>5. a \o q = p
  BY <1>3, <1>4, SeqEqual DEF Pos
<1> QED
  BY <1>1, <1>2, <1>5 DEF Below, q

\* The position of what holds p.
LEMMA PrefixFront ==
  ASSUME NEW p \in Pos, p # << >>
  PROVE  /\ Front(p) \in Pos /\ Len(Front(p)) = Len(p) - 1 /\ Len(p) \in Nat /\ Len(p) > 0
         /\ IsPrefix(Front(p), p)
         /\ \A a \in Pos : IsPrefix(a, p) /\ a # p => IsPrefix(a, Front(p))
         /\ Front(p) # p /\ ~IsPrefix(p, Front(p))
<1>1. Len(p) \in Nat /\ Len(p) > 0
  BY DEF Pos
<1>2. Front(p) \in Pos /\ Len(Front(p)) = Len(p) - 1 /\ \A i \in 1..Len(p) - 1 : Front(p)[i] = p[i]
  <2> DEFINE n == Len(p) - 1
  <2>1. n \in Nat /\ n <= Len(p) /\ \A i \in 1..n : p[i] \in Texts
    BY <1>1 DEF Pos
  <2> HIDE DEF n
  <2>2. SubSeq(p, 1, n) \in Pos /\ Len(SubSeq(p, 1, n)) = n /\ \A i \in 1..n : SubSeq(p, 1, n)[i] = p[i]
    BY <2>1, SubSeqProperties DEF Pos
  <2> QED
    BY <2>2 DEF Front, n
<1>3. IsPrefix(Front(p), p)
  BY <1>1, <1>2, PrefixIs
<1>4. ~IsPrefix(p, Front(p))
  BY <1>1, <1>2, PrefixIs
<1>5. ASSUME NEW a \in Pos, IsPrefix(a, p), a # p PROVE IsPrefix(a, Front(p))
  <2>1. Len(a) \in Nat /\ Len(a) <= Len(p) /\ \A i \in 1..Len(a) : a[i] = p[i]
    BY <1>5, PrefixIs DEF Pos
  <2>2. Len(a) # Len(p)
    BY <2>1, <1>5, SeqEqual DEF Pos
  <2> QED
    BY <1>1, <1>2, <2>1, <2>2, PrefixIs
<1> QED
  BY <1>1, <1>2, <1>3, <1>4, <1>5

LEMMA PrefixChild ==
  ASSUME NEW a \in Pos, NEW k \in Texts
  PROVE  /\ a \o <<k>> \in Pos /\ a \o <<k>> # << >> /\ Front(a \o <<k>>) = a /\ Last(a \o <<k>>) = k
         /\ Len(a \o <<k>>) = Len(a) + 1 /\ IsPrefix(a, a \o <<k>>)
<1>1. <<k>> \in Pos /\ Len(<<k>>) = 1 /\ <<k>>[1] = k
  BY Singleton DEF Pos
<1> DEFINE q == <<k>>
           p == a \o q
<1>2. q \in Pos /\ Len(q) = 1 /\ q[1] = k
  BY <1>1
<1> HIDE DEF q
<1>3. Len(a) \in Nat /\ p \in Pos /\ Len(p) = Len(a) + 1
      /\ p[Len(a) + 1] = k /\ \A i \in 1..Len(a) : p[i] = a[i]
  <2>1. a \in Seq(Texts) /\ q \in Seq(Texts) /\ Len(a) \in Nat
    BY <1>2 DEF Pos
  <2>2. /\ p \in Pos /\ Len(p) = Len(a) + Len(q)
        /\ \A i \in 1..Len(a) + Len(q) : p[i] = IF i <= Len(a) THEN a[i] ELSE q[i - Len(a)]
    BY <2>1, ConcatProperties DEF Pos
  <2> HIDE DEF p
  <2>3. \A i \in 1..Len(a) : p[i] = a[i]
    BY <1>2, <2>1, <2>2
  <2>4. p[Len(a) + 1] = q[1]
    <3>1. Len(a) + 1 \in 1..Len(a) + Len(q) /\ ~(Len(a) + 1 <= Len(a)) /\ (Len(a) + 1) - Len(a) = 1
      BY <1>2, <2>1
    <3> QED
      BY <2>2, <3>1
  <2> QED
    BY <1>2, <2>1, <2>2, <2>3, <2>4
<1>4. p[Len(a) + 1] = k /\ \A i \in 1..Len(a) : p[i] = a[i]
  BY <1>3
<1> HIDE DEF p
<1>5. Front(p) \in Pos /\ Len(Front(p)) = Len(a) /\ IsPrefix(Front(p), p) /\ p # << >>
  <2>1. p # << >>
    BY <1>3, EmptySeq DEF Pos
  <2> QED
    BY <1>3, <2>1, PrefixFront
<1>6. \A i \in 1..Len(a) : Front(p)[i] = a[i]
  BY <1>3, <1>4, <1>5, PrefixIs
<1>7. Front(p) = a
  BY <1>5, <1>6, SeqEqual DEF Pos
<1> QED
  BY <1>3, <1>4, <1>5, <1>7 DEF p, q, Last

\* What holds of 0, and of n + 1 where it holds of n, holds of every number.
Less == {x \in Nat \X Nat : x[1] < x[2]}

LEMMA LessIsWellFounded == IsWellFoundedOn(Less, Nat)
<1>1. OpToRel(<, Nat) = Less
  BY DEF OpToRel, Less
<1> QED
  BY <1>1, NatLessThanWellFounded

LEMMA SetInduction ==
  ASSUME NEW P \in SUBSET Nat, 0 \in P, \A n \in P : n + 1 \in P
  PROVE  P = Nat
<1> SUFFICES ASSUME Nat \ P # {} PROVE FALSE
  OBVIOUS
<1>1. \E x \in Nat \ P : \A y \in Nat \ P : <<y, x>> \notin Less
  BY LessIsWellFounded, WFMin
<1>2. PICK x \in Nat \ P : \A y \in Nat \ P : ~(y < x)
  BY <1>1 DEF Less
<1>3. x - 1 \in Nat /\ x - 1 < x /\ (x - 1) + 1 = x
  BY <1>2
<1> QED
  BY <1>2, <1>3

-----------------------------------------------------------------------------
(***************************************************************************)
(* Trees.                                                                  *)
(***************************************************************************)
LEMMA TreeNodes ==
  ASSUME NEW t, IsTree(t), NEW p \in DOMAIN t
  PROVE  /\ p \in Pos
         /\ t[p].kind \in {"map", "list", "scalar", "null", "alias"}
         /\ p # << >> => Front(p) \in DOMAIN t /\ t[Front(p)].kind \in {"map", "list"}
  BY DEF IsTree, Pos

\* With a node, all that it is in is in the tree.
LEMMA TreeClosed ==
  ASSUME NEW t, IsTree(t), NEW p \in DOMAIN t, NEW a \in Pos, IsPrefix(a, p)
  PROVE  a \in DOMAIN t /\ (a # p => t[a].kind \in {"map", "list"})
<1> DEFINE Fine(q) == a \in DOMAIN t /\ (a # q => t[a].kind \in {"map", "list"})
           P == {n \in Nat : \A q \in DOMAIN t : IsPrefix(a, q) /\ Len(q) = Len(a) + n => Fine(q)}
<1>1. Len(a) \in Nat
  BY DEF Pos
<1>2. 0 \in P
  <2> SUFFICES ASSUME NEW q \in DOMAIN t, IsPrefix(a, q), Len(q) = Len(a) + 0 PROVE Fine(q)
    OBVIOUS
  <2>1. q \in Pos /\ Len(a) = Len(q) /\ \A i \in 1..Len(a) : a[i] = q[i]
    BY <1>1, TreeNodes, PrefixIs
  <2>2. a = q
    BY <2>1, SeqEqual DEF Pos
  <2> QED
    BY <2>2
<1>3. ASSUME NEW n \in P PROVE n + 1 \in P
  <2> SUFFICES ASSUME NEW q \in DOMAIN t, IsPrefix(a, q), Len(q) = Len(a) + (n + 1) PROVE Fine(q)
    BY <1>3
  <2>1. q \in Pos /\ n \in Nat
    BY <1>3, TreeNodes
  <2>2. a # q /\ q # << >>
    BY <1>1, <2>1
  <2>3. /\ Front(q) \in DOMAIN t /\ t[Front(q)].kind \in {"map", "list"}
        /\ IsPrefix(a, Front(q)) /\ Len(Front(q)) = Len(a) + n
    BY <1>1, <2>1, <2>2, TreeNodes, PrefixFront
  <2>4. Fine(Front(q))
    BY <1>3, <2>3
  <2> QED
    BY <2>3, <2>4
<1> HIDE DEF P
<1>4. P = Nat
  BY <1>2, <1>3, SetInduction DEF P
<1>5. p \in Pos /\ Len(p) - Len(a) \in Nat /\ Len(p) = Len(a) + (Len(p) - Len(a))
  BY <1>1, TreeNodes, PrefixIs DEF Pos
<1> QED
  BY <1>4, <1>5 DEF P

\* Nothing is below a node that is no mapping and no list.
LEMMA LeafAlone ==
  ASSUME NEW t, IsTree(t), NEW a \in DOMAIN t, t[a].kind \notin {"map", "list"},
         NEW p \in DOMAIN t, IsPrefix(a, p)
  PROVE  p = a
  BY TreeNodes, TreeClosed

\* The length of a list.
LEMMA Items ==
  ASSUME IndexTexts, NEW at \in Pos, NEW n \in 0..MaxItems
  PROVE  Cardinality({at \o <<ToString(i)>> : i \in 0..n - 1}) = n
<1> DEFINE S == 1..n
           K == {at \o <<ToString(i)>> : i \in 0..n - 1}
           f == [i \in S |-> at \o <<ToString(i - 1)>>]
<1>1. n \in Nat /\ \A i \in S : i - 1 \in 0..n - 1 /\ i - 1 \in 0..MaxItems
  BY DEF IndexTexts
<1>2. \A i \in S : ToString(i - 1) \in Texts
  BY <1>1 DEF IndexTexts
<1>3. f \in [S -> K]
  BY <1>1
<1>4. \A i, j \in S : f[i] = f[j] => i = j
  <2> SUFFICES ASSUME NEW i \in S, NEW j \in S, f[i] = f[j] PROVE i = j
    OBVIOUS
  <2>1. Last(at \o <<ToString(i - 1)>>) = ToString(i - 1) /\ Last(at \o <<ToString(j - 1)>>) = ToString(j - 1)
    BY <1>2, PrefixChild
  <2>2. ToString(i - 1) = ToString(j - 1)
    BY <2>1
  <2> QED
    BY <1>1, <2>2 DEF IndexTexts
<1>5. \A k \in K : \E i \in S : f[i] = k
  <2> SUFFICES ASSUME NEW i \in 0..n - 1 PROVE \E j \in S : f[j] = at \o <<ToString(i)>>
    OBVIOUS
  <2>1. i + 1 \in S /\ (i + 1) - 1 = i
    BY <1>1
  <2> QED
    BY <2>1
<1>6. f \in Bijection(S, K)
  BY <1>3, <1>4, <1>5 DEF Bijection, Injection, Surjection, IsInjective
<1>7. IsFiniteSet(S) /\ Cardinality(S) = n
  BY <1>1, FS_Interval
<1> HIDE DEF f, S, K
<1>8. Cardinality(K) = n
  BY <1>6, <1>7, FS_Bijection DEF ExistsBijection
<1> QED
  BY <1>8 DEF K

LEMMA ListLength ==
  ASSUME IndexTexts, NEW t, IsTree(t), NEW p \in DOMAIN t, t[p].kind = "list"
  PROVE  /\ Length(t, p) \in 0..MaxItems
         /\ Children(t, p) = {p \o <<ToString(i)>> : i \in 0..Length(t, p) - 1}
<1>1. PICK n \in 0..MaxItems : Children(t, p) = {p \o <<ToString(i)>> : i \in 0..n - 1}
  BY DEF IsTree
<1>2. p \in Pos
  BY TreeNodes
<1>3. Cardinality({p \o <<ToString(i)>> : i \in 0..n - 1}) = n
  BY <1>2, Items
<1>4. Length(t, p) = n
  BY <1>1, <1>3 DEF Length
<1> QED
  BY <1>1, <1>4

-----------------------------------------------------------------------------
(***************************************************************************)
(* Edits.  An edit happens at a site: a key of a mapping that is missing   *)
(* or holds a leaf, or the place behind the last item of a list.  What is  *)
(* stored there is a tree of its own, without aliases.                     *)
(***************************************************************************)
Site(t, w) ==
  /\ w \in Pos /\ w # << >> /\ Front(w) \in DOMAIN t
  /\ \/ /\ t[Front(w)].kind = "map"
        /\ w \in DOMAIN t => t[w].kind \in {"scalar", "null"}
     \/ /\ t[Front(w)].kind = "list"
        /\ Length(t, Front(w)) < MaxItems
        /\ w = Front(w) \o <<ToString(Length(t, Front(w)))>>

IsPart(sub) == IsTree(sub) /\ Aliases(sub) = {}

LEMMA SiteAlone ==
  ASSUME IndexTexts, NEW t, IsTree(t), NEW w, Site(t, w)
  PROVE  /\ t[Front(w)].kind = "list" => w \notin DOMAIN t
         /\ w \in DOMAIN t => t[w].kind \in {"scalar", "null"}
         /\ \A q \in DOMAIN t : IsPrefix(w, q) => q = w
         /\ ~IsPrefix(w, Front(w))
         /\ \A a \in Aliases(t) : ~IsPrefix(a, w) /\ ~IsPrefix(w, a)
<1> DEFINE f == Front(w)
<1>1. w \in Pos /\ w # << >> /\ f \in DOMAIN t /\ f \in Pos /\ t[f].kind \in {"map", "list"}
  BY TreeNodes DEF Site
<1>2. ASSUME t[f].kind = "list", w \in DOMAIN t PROVE FALSE
  <2> DEFINE n == Length(t, f)
  <2>1. n \in 0..MaxItems /\ Children(t, f) = {f \o <<ToString(i)>> : i \in 0..n - 1}
    BY <1>1, <1>2, ListLength
  <2>2. n < MaxItems /\ w = f \o <<ToString(n)>>
    BY <1>2 DEF Site
  <2>3. w \in Children(t, f)
    BY <1>1, <1>2, PrefixFront DEF Children
  <2> HIDE DEF n, f
  <2>4. PICK i \in 0..n - 1 : w = f \o <<ToString(i)>>
    BY <2>1, <2>3
  <2>5. i \in 0..MaxItems /\ n \in 0..MaxItems /\ i # n
    BY <2>1, <2>2 DEF IndexTexts
  <2>6. Last(w) = ToString(i) /\ Last(w) = ToString(n)
    BY <1>1, <2>2, <2>4, <2>5, PrefixChild DEF IndexTexts
  <2> QED
    BY <2>5, <2>6 DEF IndexTexts
<1>3. w \in DOMAIN t => t[w].kind \in {"scalar", "null"}
  BY <1>1, <1>2 DEF Site
<1>4. ASSUME NEW q \in DOMAIN t, IsPrefix(w, q) PROVE q = w
  <2>1. w \in DOMAIN t /\ (w # q => t[w].kind \in {"map", "list"})
    BY <1>1, <1>4, TreeClosed
  <2> QED
    BY <2>1, <1>3
<1>5. ~IsPrefix(w, f)
  BY <1>1, PrefixFront
<1>6. ASSUME NEW a \in Aliases(t) PROVE ~IsPrefix(a, w) /\ ~IsPrefix(w, a)
  <2>1. a \in DOMAIN t /\ t[a].kind = "alias" /\ a \in Pos
    BY TreeNodes DEF Aliases
  <2>2. ~IsPrefix(w, a)
    BY <1>3, <1>4, <2>1
  <2>3. ASSUME IsPrefix(a, w) PROVE FALSE
    <3>1. a # w
      BY <1>1, <2>2, PrefixOrder
    <3>2. IsPrefix(a, f)
      BY <1>1, <2>1, <2>3, <3>1, PrefixFront
    <3>3. f = a
      BY <1>1, <2>1, <3>2, LeafAlone
    <3> QED
      BY <1>1, <2>1, <3>3
  <2> QED
    BY <2>2, <2>3
<1> QED
  BY <1>2, <1>3, <1>4, <1>5, <1>6

\* What an edit leaves and what it brings.
LEMMA GraftIs ==
  ASSUME NEW t, NEW sub, NEW w \in Pos, DOMAIN t \subseteq Pos, DOMAIN sub \subseteq Pos
  PROVE  /\ Graft(t, w, sub) = [p \in DOMAIN Graft(t, w, sub) |-> Graft(t, w, sub)[p]]
         /\ DOMAIN Graft(t, w, sub) \subseteq Pos
         /\ \A p \in Pos : ~IsPrefix(w, p) =>
              /\ p \in DOMAIN Graft(t, w, sub) <=> p \in DOMAIN t
              /\ p \in DOMAIN t => Graft(t, w, sub)[p] = t[p]
         /\ \A q \in Pos :
              /\ w \o q \in DOMAIN Graft(t, w, sub) <=> q \in DOMAIN sub
              /\ q \in DOMAIN sub => Graft(t, w, sub)[w \o q] = sub[q]
         /\ \A p \in DOMAIN Graft(t, w, sub) :
              IsPrefix(w, p) => Below(w, p) \in DOMAIN sub /\ p = w \o Below(w, p)
<1> DEFINE g == Graft(t, w, sub)
           D == {q \in DOMAIN t : ~IsPrefix(w, q)} \cup {w \o q : q \in DOMAIN sub}
<1>1. g = [p \in D |-> IF IsPrefix(w, p) THEN sub[Below(w, p)] ELSE t[p]]
  BY DEF Graft
<1> HIDE DEF g
<1>2. DOMAIN g = D /\ \A p \in D : g[p] = IF IsPrefix(w, p) THEN sub[Below(w, p)] ELSE t[p]
  BY <1>1
<1>3. \A q \in Pos : w \o q \in Pos /\ IsPrefix(w, w \o q) /\ Below(w, w \o q) = q
  BY PrefixSplit
<1>4. ASSUME NEW p \in Pos, ~IsPrefix(w, p)
      PROVE  (p \in DOMAIN g <=> p \in DOMAIN t) /\ (p \in DOMAIN t => g[p] = t[p])
  <2>1. p \in D <=> p \in DOMAIN t
    BY <1>3, <1>4
  <2> QED
    BY <1>2, <1>4, <2>1
<1>5. ASSUME NEW q \in Pos
      PROVE  (w \o q \in DOMAIN g <=> q \in DOMAIN sub) /\ (q \in DOMAIN sub => g[w \o q] = sub[q])
  <2>1. w \o q \in D <=> q \in DOMAIN sub
    BY <1>3
  <2> QED
    BY <1>2, <1>3, <2>1
<1>6. D \subseteq Pos
  BY <1>3
<1>7. ASSUME NEW p \in D, IsPrefix(w, p) PROVE Below(w, p) \in DOMAIN sub /\ p = w \o Below(w, p)
  BY <1>3, <1>7
<1>8. g = [p \in DOMAIN g |-> g[p]]
  BY <1>1
<1> HIDE DEF D
<1> QED
  BY <1>2, <1>4, <1>5, <1>6, <1>7, <1>8 DEF g

LEMMA UnderSite ==
  ASSUME NEW w \in Pos, NEW q \in Pos, NEW r \in Pos
  PROVE  /\ IsPrefix(w \o q, w \o r) <=> IsPrefix(q, r)
         /\ Len(w \o q) = Len(w) + Len(q)
         /\ q # << >> => w \o q # << >> /\ Front(w \o q) = w \o Front(q)
         /\ \A k \in Texts : (w \o q) \o <<k>> = w \o (q \o <<k>>)
         /\ w \o q = w \o r => q = r
<1> DEFINE a == w \o q
           b == w \o r
<1>1. /\ w \in Seq(Texts) /\ q \in Seq(Texts) /\ r \in Seq(Texts)
      /\ Len(w) \in Nat /\ Len(q) \in Nat /\ Len(r) \in Nat
  BY DEF Pos
<1>2. /\ a \in Pos /\ Len(a) = Len(w) + Len(q)
      /\ \A i \in 1..Len(w) + Len(q) : a[i] = IF i <= Len(w) THEN w[i] ELSE q[i - Len(w)]
  BY <1>1, ConcatProperties DEF Pos
<1>3. /\ b \in Pos /\ Len(b) = Len(w) + Len(r)
      /\ \A i \in 1..Len(w) + Len(r) : b[i] = IF i <= Len(w) THEN w[i] ELSE r[i - Len(w)]
  BY <1>1, ConcatProperties DEF Pos
<1>4. ASSUME w \o q = w \o r PROVE q = r
  <2>1. Below(w, w \o q) = q /\ Below(w, w \o r) = r
    BY PrefixSplit
  <2> QED
    BY <2>1, <1>4
<1>5. ASSUME NEW k \in Texts PROVE (w \o q) \o <<k>> = w \o (q \o <<k>>)
  BY <1>1, Singleton, ConcatAssociative
<1> HIDE DEF a, b
<1>6. ASSUME IsPrefix(a, b) PROVE IsPrefix(q, r)
  <2>1. Len(a) <= Len(b) /\ \A i \in 1..Len(a) : a[i] = b[i]
    BY <1>2, <1>3, <1>6, PrefixIs
  <2>2. ASSUME NEW i \in 1..Len(q) PROVE q[i] = r[i]
    <3>1. /\ Len(w) + i \in 1..Len(w) + Len(q) /\ Len(w) + i \in 1..Len(w) + Len(r)
          /\ ~(Len(w) + i <= Len(w)) /\ (Len(w) + i) - Len(w) = i
      BY <1>1, <1>2, <1>3, <2>1
    <3>2. a[Len(w) + i] = q[i] /\ b[Len(w) + i] = r[i]
      BY <1>2, <1>3, <3>1
    <3> QED
      BY <1>2, <2>1, <3>1, <3>2
  <2>3. Len(q) <= Len(r)
    BY <1>1, <1>2, <1>3, <2>1
  <2> QED
    BY <2>2, <2>3, PrefixIs
<1>7. ASSUME IsPrefix(q, r) PROVE IsPrefix(a, b)
  <2>1. Len(q) <= Len(r) /\ \A i \in 1..Len(q) : q[i] = r[i]
    BY <1>7, PrefixIs
  <2>2. ASSUME NEW i \in 1..Len(a) PROVE a[i] = b[i]
    <3>1. i \in 1..Len(w) + Len(q) /\ i \in 1..Len(w) + Len(r)
      BY <1>1, <1>2, <2>1
    <3>2. CASE i <= Len(w)
      BY <1>2, <1>3, <3>1, <3>2
    <3>3. CASE ~(i <= Len(w))
      <4>1. i - Len(w) \in 1..Len(q)
        BY <1>1, <3>1, <3>3
      <4> QED
        BY <1>2, <1>3, <2>1, <3>1, <3>3, <4>1
    <3> QED
      BY <3>2, <3>3
  <2>3. Len(a) <= Len(b)
    BY <1>1, <1>2, <1>3, <2>1
  <2> QED
    BY <1>2, <1>3, <2>2, <2>3, PrefixIs
<1>8. ASSUME q # << >> PROVE a # << >> /\ Front(a) = w \o Front(q)
  <2>1. /\ Front(q) \in Pos /\ Len(Front(q)) = Len(q) - 1 /\ Len(q) > 0
        /\ IsPrefix(Front(q), q)
    BY <1>8, PrefixFront
  <2>2. a # << >>
    BY <1>1, <1>2, <2>1
  <2>3. Front(a) \in Pos /\ Len(Front(a)) = Len(a) - 1 /\ IsPrefix(Front(a), a)
    BY <1>2, <2>2, PrefixFront
  <2> DEFINE f == Front(q)
             c == w \o f
  <2>4. /\ c \in Pos /\ Len(c) = Len(w) + Len(f)
        /\ \A i \in 1..Len(w) + Len(f) : c[i] = IF i <= Len(w) THEN w[i] ELSE f[i - Len(w)]
    BY <1>1, <2>1, ConcatProperties DEF Pos
  <2>5. Len(f) = Len(q) - 1 /\ f \in Pos /\ \A i \in 1..Len(f) : f[i] = q[i]
    BY <2>1, PrefixIs
  <2> HIDE DEF c, f
  <2>6. Len(Front(a)) = Len(c)
    BY <1>1, <1>2, <2>3, <2>4, <2>5
  <2>7. ASSUME NEW i \in 1..Len(c) PROVE Front(a)[i] = c[i]
    <3>1. i \in 1..Len(w) + Len(q) /\ i \in 1..Len(w) + Len(f) /\ i \in 1..Len(Front(a))
      BY <1>1, <2>4, <2>5, <2>6
    <3>2. Front(a)[i] = a[i]
      BY <1>2, <2>3, <3>1, PrefixIs
    <3>3. CASE i <= Len(w)
      BY <1>2, <2>4, <3>1, <3>2, <3>3
    <3>4. CASE ~(i <= Len(w))
      <4>1. i - Len(w) \in 1..Len(f)
        BY <1>1, <2>4, <3>4
      <4>2. f[i - Len(w)] = q[i - Len(w)]
        BY <2>5, <4>1
      <4> QED
        BY <1>2, <2>4, <3>1, <3>2, <3>4, <4>2
    <3> QED
      BY <3>3, <3>4
  <2>8. Front(a) = c
    BY <2>3, <2>4, <2>6, <2>7, SeqEqual DEF Pos
  <2> QED
    BY <2>2, <2>8 DEF c, f
<1> QED
  BY <1>2, <1>4, <1>5, <1>6, <1>7, <1>8 DEF a, b

\* The children of a node that an edit leaves, and of one that it brings.
LEMMA ChildrenLeft ==
  ASSUME IndexTexts, NEW t, IsTree(t), NEW w, Site(t, w), NEW sub, IsPart(sub),
         NEW p \in DOMAIN t, ~IsPrefix(w, p)
  PROVE  Children(Graft(t, w, sub), p) = Children(t, p) \cup (IF p = Front(w) THEN {w} ELSE {})
<1> DEFINE g == Graft(t, w, sub)
<1>1. w \in Pos /\ w # << >> /\ p \in Pos /\ Len(p) \in Nat /\ Len(w) \in Nat
  BY TreeNodes DEF Site, Pos
<1>2. DOMAIN t \subseteq Pos /\ DOMAIN sub \subseteq Pos /\ << >> \in DOMAIN sub
  BY DEF IsTree, IsPart, Pos
<1>3. /\ DOMAIN g \subseteq Pos
      /\ \A x \in Pos : ~IsPrefix(w, x) => (x \in DOMAIN g <=> x \in DOMAIN t)
      /\ \A q \in Pos : w \o q \in DOMAIN g <=> q \in DOMAIN sub
  BY <1>1, <1>2, GraftIs
<1> HIDE DEF g
<1>4. w \in DOMAIN g
  <2>1. w \o << >> = w /\ << >> \in Pos
    BY <1>1, ConcatEmptySeq, EmptySeq DEF Pos
  <2> QED
    BY <1>2, <1>3, <2>1
<1>5. /\ Front(w) \in Pos /\ Len(w) = Len(Front(w)) + 1 /\ IsPrefix(Front(w), w)
      /\ \A x \in Pos : IsPrefix(x, w) /\ x # w => IsPrefix(x, Front(w))
  BY <1>1, PrefixFront
<1>6. ASSUME NEW c \in Children(g, p) PROVE c \in Children(t, p) \/ (p = Front(w) /\ c = w)
  <2>1. c \in DOMAIN g /\ c \in Pos /\ Len(c) = Len(p) + 1 /\ IsPrefix(p, c)
    BY <1>3, <1>6 DEF Children
  <2>2. CASE ~IsPrefix(w, c)
    <3>1. c \in DOMAIN t
      BY <1>3, <2>1, <2>2
    <3>2. c \in Children(t, p)
      BY <2>1, <3>1, Zenon DEF Children
    <3> QED
      BY <3>2
  <2>3. CASE IsPrefix(w, c)
    <3>1. IsPrefix(p, w) /\ p # w
      BY <1>1, <2>1, <2>3, PrefixOrder
    <3>2. IsPrefix(p, Front(w)) /\ Len(w) <= Len(c)
      BY <1>1, <1>5, <2>1, <2>3, <3>1, PrefixIs
    <3>3. Len(p) <= Len(Front(w)) /\ \A i \in 1..Len(p) : p[i] = Front(w)[i]
      BY <1>1, <1>5, <3>2, PrefixIs
    <3>4. Len(p) = Len(Front(w)) /\ Len(w) = Len(c)
      BY <1>1, <1>5, <2>1, <3>2, <3>3
    <3>5. p = Front(w)
      BY <1>1, <1>5, <3>3, <3>4, SeqEqual DEF Pos
    <3>6. Len(w) <= Len(c) /\ \A i \in 1..Len(w) : w[i] = c[i]
      BY <1>1, <2>1, <2>3, PrefixIs
    <3>7. c = w
      BY <1>1, <2>1, <3>4, <3>6, SeqEqual DEF Pos
    <3> QED
      BY <3>5, <3>7
  <2> QED
    BY <2>2, <2>3
<1>7. ASSUME NEW c \in Children(t, p) PROVE c \in Children(g, p)
  <2>1. c \in DOMAIN t /\ c \in Pos /\ Len(c) = Len(p) + 1 /\ IsPrefix(p, c)
    BY <1>2, <1>7 DEF Children
  <2>2. IsPrefix(w, c) => c = w
    BY <2>1, SiteAlone
  <2>3. c \in DOMAIN g
    BY <1>3, <1>4, <2>1, <2>2
  <2> QED
    BY <2>1, <2>3 DEF Children
<1>8. ASSUME p = Front(w) PROVE w \in Children(g, p)
  BY <1>1, <1>4, <1>5, <1>8 DEF Children
<1> QED
  BY <1>6, <1>7, <1>8 DEF g

LEMMA ChildrenBrought ==
  ASSUME NEW t, IsTree(t), NEW w \in Pos, NEW sub, IsPart(sub), NEW q \in DOMAIN sub
  PROVE  Children(Graft(t, w, sub), w \o q) = {w \o c : c \in Children(sub, q)}
<1> DEFINE g == Graft(t, w, sub)
<1>1. q \in Pos /\ Len(q) \in Nat /\ Len(w) \in Nat
  BY TreeNodes DEF IsPart, Pos
<1>2. DOMAIN t \subseteq Pos /\ DOMAIN sub \subseteq Pos
  BY DEF IsTree, IsPart, Pos
<1>3. /\ DOMAIN g \subseteq Pos
      /\ \A r \in Pos : w \o r \in DOMAIN g <=> r \in DOMAIN sub
      /\ \A p \in DOMAIN g : IsPrefix(w, p) => Below(w, p) \in DOMAIN sub /\ p = w \o Below(w, p)
  BY <1>2, GraftIs
<1> HIDE DEF g
<1>4. ASSUME NEW r \in Pos
      PROVE  /\ w \o r \in Pos /\ Len(w \o r) = Len(w) + Len(r) /\ Len(r) \in Nat
             /\ IsPrefix(w, w \o r)
             /\ IsPrefix(w \o q, w \o r) <=> IsPrefix(q, r)
  <2>1. Len(r) \in Nat
    BY DEF Pos
  <2>2. w \o r \in Pos /\ IsPrefix(w, w \o r)
    BY PrefixSplit
  <2>3. Len(w \o r) = Len(w) + Len(r)
    BY UnderSite
  <2>4. IsPrefix(w \o q, w \o r) <=> IsPrefix(q, r)
    BY <1>1, UnderSite
  <2> QED
    BY <2>1, <2>2, <2>3, <2>4
<1>5. ASSUME NEW x \in Children(g, w \o q) PROVE \E c \in Children(sub, q) : x = w \o c
  <2>1. x \in DOMAIN g /\ x \in Pos /\ Len(x) = Len(w \o q) + 1 /\ IsPrefix(w \o q, x)
    BY <1>3, <1>5 DEF Children
  <2>2. IsPrefix(w, x)
    BY <1>1, <1>4, <2>1, PrefixOrder
  <2>3. Below(w, x) \in DOMAIN sub /\ x = w \o Below(w, x) /\ Below(w, x) \in Pos
    BY <1>2, <1>3, <2>1, <2>2
  <2>4. Len(Below(w, x)) = Len(q) + 1 /\ IsPrefix(q, Below(w, x))
    <3> DEFINE b == Below(w, x)
    <3>1. b \in Pos /\ x = w \o b
      BY <2>3
    <3> HIDE DEF b
    <3>2. Len(x) = Len(w) + Len(b) /\ Len(b) \in Nat /\ (IsPrefix(w \o q, x) <=> IsPrefix(q, b))
      BY <1>4, <3>1
    <3>3. Len(w \o q) = Len(w) + Len(q)
      BY <1>1, <1>4
    <3>4. Len(b) = Len(q) + 1 /\ IsPrefix(q, b)
      BY <1>1, <2>1, <3>2, <3>3
    <3> QED
      BY <3>4 DEF b
  <2> QED
    BY <2>3, <2>4 DEF Children
<1>6. ASSUME NEW c \in Children(sub, q) PROVE w \o c \in Children(g, w \o q)
  <2>1. c \in DOMAIN sub /\ c \in Pos /\ Len(c) = Len(q) + 1 /\ IsPrefix(q, c)
    BY <1>2 DEF Children
  <2>2. w \o c \in DOMAIN g /\ IsPrefix(w \o q, w \o c)
    BY <1>3, <1>4, <2>1
  <2>3. Len(w \o c) = Len(w) + Len(c) /\ Len(w \o q) = Len(w) + Len(q)
    BY <1>1, <1>4, <2>1
  <2>4. Len(w \o c) = Len(w \o q) + 1
    BY <1>1, <2>1, <2>3
  <2> QED
    BY <2>2, <2>4 DEF Children
<1> QED
  BY <1>5, <1>6 DEF g

\* An edit leaves a tree, with the aliases as they were.
LEMMA GraftTree ==
  ASSUME IndexTexts, NEW t, IsTree(t), NEW w, Site(t, w), NEW sub, IsPart(sub)
  PROVE  /\ IsTree(Graft(t, w, sub))
         /\ Aliases(Graft(t, w, sub)) = Aliases(t)
         /\ \A a \in Aliases(t) : Graft(t, w, sub)[a] = t[a]
<1> DEFINE g == Graft(t, w, sub)
<1>1. w \in Pos /\ w # << >> /\ Front(w) \in DOMAIN t /\ Front(w) \in Pos
  BY TreeNodes DEF Site
<1>2. DOMAIN t \subseteq Pos /\ DOMAIN sub \subseteq Pos /\ << >> \in DOMAIN sub /\ << >> \in DOMAIN t
      /\ IsTree(sub) /\ Aliases(sub) = {}
  BY DEF IsTree, IsPart, Pos
<1>3. /\ g = [p \in DOMAIN g |-> g[p]]
      /\ DOMAIN g \subseteq Pos
      /\ \A x \in Pos : ~IsPrefix(w, x) => (x \in DOMAIN g <=> x \in DOMAIN t) /\ (x \in DOMAIN t => g[x] = t[x])
      /\ \A q \in Pos : (w \o q \in DOMAIN g <=> q \in DOMAIN sub) /\ (q \in DOMAIN sub => g[w \o q] = sub[q])
      /\ \A p \in DOMAIN g : IsPrefix(w, p) => Below(w, p) \in DOMAIN sub /\ p = w \o Below(w, p)
  BY <1>1, <1>2, GraftIs
<1>4. /\ t[Front(w)].kind = "list" => w \notin DOMAIN t
      /\ w \in DOMAIN t => t[w].kind \in {"scalar", "null"}
      /\ \A q \in DOMAIN t : IsPrefix(w, q) => q = w
      /\ ~IsPrefix(w, Front(w))
      /\ \A a \in Aliases(t) : ~IsPrefix(a, w) /\ ~IsPrefix(w, a)
  BY SiteAlone
<1>5. \A p \in DOMAIN t : ~IsPrefix(w, p) =>
        Children(g, p) = Children(t, p) \cup (IF p = Front(w) THEN {w} ELSE {})
  BY ChildrenLeft
<1>6. ASSUME NEW q \in DOMAIN sub PROVE Children(g, w \o q) = {w \o c : c \in Children(sub, q)}
  <2>1. w \in Pos
    BY <1>1
  <2>2. Children(Graft(t, w, sub), w \o q) = {w \o c : c \in Children(sub, q)}
    BY <2>1, ChildrenBrought
  <2> QED
    BY <2>2
<1>7. t[Front(w)].kind \in {"map", "list"}
  BY DEF Site
<1> HIDE DEF g
<1>8. w \in DOMAIN g /\ << >> \in DOMAIN g
  <2>1. w \o << >> = w /\ << >> \in Pos
    BY <1>1, ConcatEmptySeq, EmptySeq DEF Pos
  <2>2. ~IsPrefix(w, << >>)
    <3>1. Len(w) \in Nat \ {0} /\ Len(<< >>) = 0
      BY <1>1, EmptySeq DEF Pos
    <3> QED
      BY <1>1, <2>1, <3>1, PrefixIs
  <2> QED
    BY <1>2, <1>3, <2>1, <2>2
<1>9. Aliases(g) = Aliases(t) /\ \A a \in Aliases(t) : g[a] = t[a]
  <2>1. ASSUME NEW a \in Aliases(t) PROVE a \in Aliases(g) /\ g[a] = t[a]
    BY <1>2, <1>3, <1>4, <2>1 DEF Aliases
  <2>2. ASSUME NEW a \in Aliases(g) PROVE a \in Aliases(t)
    <3>1. a \in DOMAIN g /\ a \in Pos /\ g[a].kind = "alias"
      BY <1>3 DEF Aliases
    <3>2. CASE IsPrefix(w, a)
      <4>1. Below(w, a) \in DOMAIN sub /\ a = w \o Below(w, a)
        BY <1>3, <3>1, <3>2
      <4>2. sub[Below(w, a)].kind = "alias"
        BY <1>2, <1>3, <3>1, <4>1
      <4> QED
        BY <1>2, <4>1, <4>2 DEF Aliases
    <3>3. CASE ~IsPrefix(w, a)
      BY <1>3, <3>1, <3>3 DEF Aliases
    <3> QED
      BY <3>2, <3>3
  <2> QED
    BY <2>1, <2>2
<1>10. ASSUME NEW p \in DOMAIN g
       PROVE  /\ g[p].kind \in {"map", "list", "scalar", "null", "alias"}
              /\ p # << >> => Front(p) \in DOMAIN g /\ g[Front(p)].kind \in {"map", "list"}
              /\ g[p].kind = "scalar" => g[p] = Scalar(g[p].value)
  <2>1. p \in Pos
    BY <1>3
  <2>2. CASE ~IsPrefix(w, p)
    <3>1. p \in DOMAIN t /\ g[p] = t[p]
      BY <1>3, <2>1, <2>2
    <3>2. /\ t[p].kind \in {"map", "list", "scalar", "null", "alias"}
          /\ p # << >> => Front(p) \in DOMAIN t /\ t[Front(p)].kind \in {"map", "list"}
          /\ t[p].kind = "scalar" => t[p] = Scalar(t[p].value)
      BY <3>1 DEF IsTree
    <3>3. ASSUME p # << >> PROVE Front(p) \in DOMAIN g /\ g[Front(p)] = t[Front(p)]
      <4>1. Front(p) \in Pos /\ IsPrefix(Front(p), p)
        BY <2>1, <3>3, PrefixFront
      <4>2. ~IsPrefix(w, Front(p))
        BY <1>1, <2>1, <2>2, <4>1, PrefixOrder
      <4> QED
        BY <1>3, <3>2, <3>3, <4>1, <4>2
    <3> QED
      BY <3>1, <3>2, <3>3
  <2>3. CASE IsPrefix(w, p)
    <3> DEFINE q == Below(w, p)
    <3>1. q \in DOMAIN sub /\ q \in Pos /\ p = w \o q /\ g[p] = sub[q]
      BY <1>2, <1>3, <2>3
    <3> HIDE DEF q
    <3>2. /\ sub[q].kind \in {"map", "list", "scalar", "null", "alias"}
          /\ q # << >> => Front(q) \in DOMAIN sub /\ sub[Front(q)].kind \in {"map", "list"}
          /\ sub[q].kind = "scalar" => sub[q] = Scalar(sub[q].value)
      BY <1>2, <3>1 DEF IsTree
    <3>3. CASE q = << >>
      <4>1. p = w
        BY <1>1, <3>1, <3>3, ConcatEmptySeq DEF Pos
      <4>2. Front(p) \in DOMAIN g /\ g[Front(p)] = t[Front(p)]
        BY <1>1, <1>3, <1>4, <4>1
      <4> QED
        BY <1>7, <3>1, <3>2, <4>1, <4>2
    <3>4. CASE q # << >>
      <4>1. Front(p) = w \o Front(q) /\ Front(q) \in Pos
        BY <1>1, <3>1, <3>4, UnderSite, PrefixFront
      <4>2. Front(p) \in DOMAIN g /\ g[Front(p)] = sub[Front(q)]
        BY <1>3, <3>2, <3>4, <4>1
      <4> QED
        BY <3>1, <3>2, <3>4, <4>2
    <3> QED
      BY <3>3, <3>4
  <2> QED
    BY <2>2, <2>3
<1>11. ASSUME NEW p \in DOMAIN g, g[p].kind = "list"
       PROVE  \E n \in 0..MaxItems : Children(g, p) = {p \o <<ToString(i)>> : i \in 0..n - 1}
  <2>1. p \in Pos
    BY <1>3
  <2>2. CASE ~IsPrefix(w, p)
    <3>1. p \in DOMAIN t /\ t[p].kind = "list"
      BY <1>3, <1>11, <2>1, <2>2
    <3> DEFINE n == Length(t, p)
    <3>2. n \in 0..MaxItems /\ Children(t, p) = {p \o <<ToString(i)>> : i \in 0..n - 1}
      BY <3>1, ListLength
    <3>3. CASE p # Front(w)
      <4>1. Children(g, p) = Children(t, p)
        BY <1>5, <2>2, <3>1, <3>3
      <4> QED
        BY <3>2, <4>1
    <3>4. CASE p = Front(w)
      <4>1. Children(g, p) = Children(t, p) \cup {w}
        BY <1>5, <2>2, <3>1, <3>4
      <4>2. n < MaxItems /\ w = p \o <<ToString(n)>>
        BY <3>1, <3>4 DEF Site
      <4> HIDE DEF n
      <4>3. n + 1 \in 0..MaxItems /\ n \in Nat /\ 0..(n + 1) - 1 = 0..n - 1 \cup {n}
        BY <3>2, <4>2 DEF IndexTexts
      <4>4. Children(g, p) = {p \o <<ToString(i)>> : i \in 0..(n + 1) - 1}
        BY <3>2, <4>1, <4>2, <4>3
      <4> QED
        BY <4>3, <4>4
    <3> QED
      BY <3>3, <3>4
  <2>3. CASE IsPrefix(w, p)
    <3> DEFINE q == Below(w, p)
    <3>1. q \in DOMAIN sub /\ q \in Pos /\ p = w \o q /\ g[p] = sub[q]
      BY <1>2, <1>3, <2>3
    <3> HIDE DEF q
    <3>2. PICK n \in 0..MaxItems : Children(sub, q) = {q \o <<ToString(i)>> : i \in 0..n - 1}
      BY <1>2, <1>11, <3>1, ZenonT(30) DEF IsTree
    <3>3. Children(g, p) = {w \o c : c \in Children(sub, q)}
      BY <1>6, <3>1
    <3>4. \A i \in 0..n - 1 : ToString(i) \in Texts
      BY <3>2 DEF IndexTexts
    <3>5. \A k \in Texts : p \o <<k>> = w \o (q \o <<k>>)
      BY <1>1, <3>1, UnderSite, SMTT(20)
    <3>6. \A i \in 0..n - 1 : p \o <<ToString(i)>> = w \o (q \o <<ToString(i)>>)
      BY <3>4, <3>5
    <3>7. Children(g, p) = {w \o (q \o <<ToString(i)>>) : i \in 0..n - 1}
      BY <3>2, <3>3
    <3>8. Children(g, p) = {p \o <<ToString(i)>> : i \in 0..n - 1}
      BY <3>6, <3>7
    <3> QED
      BY <3>8
  <2> QED
    BY <2>2, <2>3
<1>12. ASSUME NEW a \in Aliases(g), NEW b \in Aliases(g)
       PROVE  g[a].target \in DOMAIN g /\ ~IsPrefix(g[a].target, b)
  <2>1. t[a].target \in DOMAIN t /\ ~IsPrefix(t[a].target, b) /\ g[a] = t[a]
    BY <1>9, <1>12 DEF IsTree
  <2>2. t[a].target \in DOMAIN g
    BY <1>2, <1>3, <1>4, <1>8, <2>1
  <2> QED
    BY <2>1, <2>2
<1>13. IsTree(g)
  BY <1>3, <1>8, <1>10, <1>11, <1>12, ZenonT(30) DEF IsTree, Pos
<1> QED
  BY <1>9, <1>13 DEF g

\* What the edits store: a scalar, a list of one scalar, and either of them in
\* mappings of its own.
LEMMA ScalarPart ==
  ASSUME NEW v
  PROVE  IsPart(Sole(Scalar(v)))
<1> DEFINE s == Sole(Scalar(v))
<1>1. s = [p \in {<< >>} |-> Scalar(v)]
  BY DEF Sole
<1> HIDE DEF s
<1>2. DOMAIN s = {<< >>} /\ s[<< >>] = Scalar(v) /\ s = [p \in DOMAIN s |-> s[p]]
  BY <1>1
<1>3. Scalar(v).kind = "scalar" /\ Scalar(v).value = v
  BY DEF Scalar
<1>4. << >> \in Seq(Texts)
  BY EmptySeq
<1>5. Aliases(s) = {}
  BY <1>2, <1>3 DEF Aliases
<1>6. IsTree(s)
  BY <1>2, <1>3, <1>4, <1>5 DEF IsTree
<1> QED
  BY <1>5, <1>6 DEF s, IsPart

LEMMA ListPart ==
  ASSUME IndexTexts, NEW v
  PROVE  IsPart(Graft(Sole(Node("list")), <<ToString(0)>>, Sole(Scalar(v))))
<1> DEFINE k == ToString(0)
           t == Sole(Node("list"))
<1>1. k \in Texts /\ 0 \in 0..MaxItems /\ MaxItems > 0
  BY DEF IndexTexts
<1>2. /\ << >> \in Pos /\ <<k>> \in Pos /\ <<k>> # << >> /\ Len(<< >>) = 0
      /\ Front(<<k>>) = << >> /\ << >> \o <<k>> = <<k>>
  <2>1. << >> \in Pos /\ Len(<< >>) = 0
    BY EmptySeq DEF Pos
  <2>2. <<k>> \in Pos
    BY <1>1, Singleton DEF Pos
  <2>3. << >> \o <<k>> = <<k>>
    BY <2>2, ConcatEmptySeq DEF Pos
  <2> HIDE DEF k
  <2>4. << >> \o <<k>> # << >> /\ Front(<< >> \o <<k>>) = << >>
    BY <1>1, <2>1, PrefixChild
  <2> QED
    BY <2>1, <2>2, <2>3, <2>4
<1>3. Node("list").kind = "list"
  BY DEF Node
<1>4. DOMAIN t = {<< >>} /\ t[<< >>] = Node("list") /\ t = [p \in DOMAIN t |-> t[p]]
  BY DEF Sole
<1> HIDE DEF t
<1>5. Children(t, << >>) = {}
  BY <1>2, <1>4 DEF Children
<1>6. Length(t, << >>) = 0
  BY <1>5, FS_EmptySet DEF Length
<1>7. Children(t, << >>) = {<< >> \o <<ToString(i)>> : i \in 0..0 - 1}
  BY <1>5
<1>8. Aliases(t) = {}
  BY <1>3, <1>4 DEF Aliases
<1>9. IsTree(t)
  BY <1>1, <1>2, <1>3, <1>4, <1>7, <1>8 DEF IsTree, Pos
<1>10. Site(t, <<k>>)
  BY <1>1, <1>2, <1>3, <1>4, <1>6 DEF Site
<1>11. IsPart(Graft(t, <<k>>, Sole(Scalar(v))))
  BY <1>8, <1>9, <1>10, ScalarPart, GraftTree DEF IsPart
<1> QED
  BY <1>11 DEF t, k

LEMMA NestedPart ==
  ASSUME IndexTexts, NEW keys \in Pos, keys # << >>, NEW leaf, IsPart(leaf)
  PROVE  IsPart(Nested(keys, leaf))
<1> DEFINE D == {SubSeq(keys, 1, i) : i \in 0..Len(keys) - 1}
           t == [p \in D |-> Node("map")]
<1>1. Len(keys) \in Nat \ {0} /\ Node("map").kind = "map"
  BY EmptySeq DEF Pos, Node
<1>2. \A i \in 0..Len(keys) - 1 :
        /\ SubSeq(keys, 1, i) \in Pos /\ Len(SubSeq(keys, 1, i)) = i
        /\ i # 0 => Front(SubSeq(keys, 1, i)) = SubSeq(keys, 1, i - 1)
  <2> SUFFICES ASSUME NEW i \in 0..Len(keys) - 1
               PROVE  /\ SubSeq(keys, 1, i) \in Pos /\ Len(SubSeq(keys, 1, i)) = i
                      /\ i # 0 => Front(SubSeq(keys, 1, i)) = SubSeq(keys, 1, i - 1)
    OBVIOUS
  <2>1. ASSUME NEW j \in 0..Len(keys) - 1
        PROVE  /\ SubSeq(keys, 1, j) \in Pos /\ Len(SubSeq(keys, 1, j)) = j
               /\ \A m \in 1..j : SubSeq(keys, 1, j)[m] = keys[m]
    <3>1. j \in Int /\ j >= 0 /\ \A m \in 1..j : keys[m] \in Texts
      BY <1>1 DEF Pos
    <3> QED
      BY <3>1, SubSeqProperties DEF Pos
  <2>2. ASSUME i # 0 PROVE Front(SubSeq(keys, 1, i)) = SubSeq(keys, 1, i - 1)
    <3> DEFINE p == SubSeq(keys, 1, i)
               q == SubSeq(keys, 1, i - 1)
    <3>1. i - 1 \in 0..Len(keys) - 1 /\ i \in Nat /\ i > 0
      BY <1>1, <2>2
    <3>2. p \in Pos /\ Len(p) = i /\ (\A m \in 1..i : p[m] = keys[m])
          /\ q \in Pos /\ Len(q) = i - 1 /\ (\A m \in 1..i - 1 : q[m] = keys[m])
      BY <2>1, <3>1
    <3> HIDE DEF p, q
    <3>3. p # << >>
      BY <3>1, <3>2, EmptySeq
    <3>4. Front(p) \in Pos /\ Len(Front(p)) = i - 1 /\ IsPrefix(Front(p), p)
      BY <3>2, <3>3, PrefixFront
    <3>5. ASSUME NEW m \in 1..i - 1 PROVE Front(p)[m] = q[m]
      <4>1. m \in 1..Len(Front(p)) /\ m \in 1..i
        BY <3>1, <3>4
      <4>2. Front(p)[m] = p[m]
        BY <3>2, <3>4, <4>1, PrefixIs
      <4> QED
        BY <3>2, <4>1, <4>2
    <3>6. Front(p) = q
      BY <3>2, <3>4, <3>5, SeqEqual DEF Pos
    <3> QED
      BY <3>6 DEF p, q
  <2> QED
    BY <2>1, <2>2
<1>3. << >> \in D
  <2>1. SubSeq(keys, 1, 0) = << >> /\ 0 \in 0..Len(keys) - 1
    BY <1>1, SubSeqEmpty
  <2> QED
    BY <2>1
<1>4. \A p \in D : p # << >> => Front(p) \in D
  <2> SUFFICES ASSUME NEW i \in 0..Len(keys) - 1, SubSeq(keys, 1, i) # << >>
               PROVE  Front(SubSeq(keys, 1, i)) \in D
    OBVIOUS
  <2>1. i # 0
    BY SubSeqEmpty
  <2>2. i - 1 \in 0..Len(keys) - 1
    BY <1>1, <2>1
  <2> QED
    BY <1>2, <2>1, <2>2
<1>5. D \subseteq Pos
  BY <1>2
<1>6. \A p \in D : Len(p) < Len(keys)
  BY <1>1, <1>2
<1>7. Front(keys) \in D
  <2>1. Len(keys) - 1 \in 0..Len(keys) - 1 /\ Front(keys) = SubSeq(keys, 1, Len(keys) - 1)
    BY <1>1 DEF Front
  <2> QED
    BY <2>1
<1> HIDE DEF D
<1>8. DOMAIN t = D /\ (\A p \in D : t[p].kind = "map") /\ t = [p \in DOMAIN t |-> t[p]]
  BY <1>1
<1>9. Nested(keys, leaf) = Graft(t, keys, leaf)
  BY DEF Nested, D
<1> HIDE DEF t
<1>10. Aliases(t) = {}
  BY <1>8 DEF Aliases
<1>11. IsTree(t)
  BY <1>3, <1>4, <1>5, <1>8, <1>10 DEF IsTree, Pos
<1>12. Site(t, keys)
  BY <1>1, <1>6, <1>7, <1>8 DEF Site
<1> QED
  BY <1>9, <1>10, <1>11, <1>12, GraftTree DEF IsPart

-----------------------------------------------------------------------------
(***************************************************************************)
(* JSON values, and what a patch makes of them.                            *)
(***************************************************************************)
LEMMA HomeIs ==
  ASSUME NEW t, IsTree(t), NEW p \in Pos
  PROVE  /\ (\A a \in Aliases(t) : ~IsPrefix(a, p)) => Home(t, p) = p
         /\ \A a \in Aliases(t) : IsPrefix(a, p) => Home(t, p) = t[a].target \o Below(a, p)
         /\ Home(t, p) \in Pos
<1>1. (\A a \in Aliases(t) : ~IsPrefix(a, p)) => Home(t, p) = p
  BY DEF Home
<1>2. ASSUME NEW a \in Aliases(t), IsPrefix(a, p)
      PROVE  Home(t, p) = t[a].target \o Below(a, p) /\ Home(t, p) \in Pos
  <2> DEFINE c == CHOOSE b \in Aliases(t) : IsPrefix(b, p)
  <2>1. c \in Aliases(t) /\ IsPrefix(c, p)
    BY <1>2
  <2>2. Home(t, p) = t[c].target \o Below(c, p)
    BY <1>2 DEF Home
  <2> HIDE DEF c
  <2>3. /\ a \in DOMAIN t /\ a \in Pos /\ t[a].kind = "alias"
        /\ c \in DOMAIN t /\ c \in Pos /\ t[c].kind = "alias"
    BY <1>2, <2>1, TreeNodes DEF Aliases
  <2>4. IsPrefix(a, c) \/ IsPrefix(c, a)
    BY <1>2, <2>1, <2>3, PrefixOrder
  <2>5. a = c
    BY <2>3, <2>4, LeafAlone
  <2>6. t[a].target \in Pos
    BY <1>2 DEF IsTree, Pos
  <2>7. Below(a, p) \in Pos
    BY <1>2, <2>3, PrefixBelow
  <2> QED
    BY <2>2, <2>5, <2>6, <2>7, PrefixSplit
<1> QED
  BY <1>1, <1>2

\* A position is in the JSON value when what it stands for is in the tree.
LEMMA JsonIs ==
  ASSUME NEW t, IsTree(t)
  PROVE  Json(t) = [p \in {x \in Pos : Home(t, x) \in DOMAIN t} |-> t[Home(t, p)]]
<1> DEFINE copy(a) == {a \o Below(t[a].target, q) : q \in {x \in DOMAIN t : IsPrefix(t[a].target, x)}}
           D == (DOMAIN t \ Aliases(t)) \cup UNION {copy(a) : a \in Aliases(t)}
           E == {x \in Pos : Home(t, x) \in DOMAIN t}
<1>1. Json(t) = [p \in D |-> t[Home(t, p)]]
  BY DEF Json
<1>2. ASSUME NEW a \in Aliases(t)
      PROVE  /\ a \in Pos /\ a \in DOMAIN t /\ t[a].kind = "alias"
             /\ t[a].target \in Pos /\ t[a].target \in DOMAIN t
  BY <1>2, TreeNodes DEF IsTree, Aliases, Pos
<1>3. ASSUME NEW p \in D PROVE p \in E
  <2>1. CASE p \in DOMAIN t \ Aliases(t)
    <3>1. p \in Pos
      BY <2>1, TreeNodes
    <3>2. \A a \in Aliases(t) : ~IsPrefix(a, p)
      BY <1>2, <2>1, LeafAlone
    <3> QED
      BY <2>1, <3>1, <3>2, HomeIs
  <2>2. ASSUME NEW a \in Aliases(t), p \in copy(a) PROVE p \in E
    <3> DEFINE g == t[a].target
    <3>1. PICK q \in DOMAIN t : IsPrefix(g, q) /\ p = a \o Below(g, q)
      BY <2>2
    <3>2. g \in Pos /\ q \in Pos /\ a \in Pos
      BY <1>2, TreeNodes
    <3>3. Below(g, q) \in Pos /\ q = g \o Below(g, q)
      BY <3>1, <3>2, PrefixBelow
    <3>4. p \in Pos /\ IsPrefix(a, p) /\ Below(a, p) = Below(g, q)
      BY <3>1, <3>2, <3>3, PrefixSplit
    <3>5. Home(t, p) = g \o Below(a, p)
      BY <2>2, <3>4, HomeIs
    <3>6. Home(t, p) = q
      BY <3>3, <3>4, <3>5
    <3> QED
      BY <3>4, <3>6
  <2> QED
    BY <2>1, <2>2
<1>4. ASSUME NEW p \in E PROVE p \in D
  <2>1. p \in Pos /\ Home(t, p) \in DOMAIN t
    OBVIOUS
  <2>2. CASE \A a \in Aliases(t) : ~IsPrefix(a, p)
    <3>1. Home(t, p) = p
      BY <2>1, <2>2, HomeIs
    <3>2. IsPrefix(p, p)
      BY <2>1, PrefixOrder
    <3> QED
      BY <2>1, <2>2, <3>1, <3>2
  <2>3. ASSUME NEW a \in Aliases(t), IsPrefix(a, p) PROVE p \in copy(a)
    <3> DEFINE g == t[a].target
               b == Below(a, p)
    <3>1. g \in Pos /\ a \in Pos
      BY <1>2
    <3>2. b \in Pos /\ p = a \o b
      BY <2>1, <2>3, <3>1, PrefixBelow
    <3>3. Home(t, p) = g \o b
      BY <2>1, <2>3, HomeIs
    <3> HIDE DEF b
    <3>4. IsPrefix(g, g \o b) /\ Below(g, g \o b) = b
      BY <3>1, <3>2, PrefixSplit
    <3> QED
      BY <2>1, <3>2, <3>3, <3>4
  <2>4. ASSUME NEW a \in Aliases(t), IsPrefix(a, p) PROVE p \in D
    <3>1. p \in copy(a) /\ copy(a) \in {copy(b) : b \in Aliases(t)}
      BY <2>3, <2>4
    <3> HIDE DEF copy
    <3> QED
      BY <3>1
  <2> QED
    BY <2>2, <2>4
<1>5. D = E
  BY <1>3, <1>4
<1> HIDE DEF D, E
<1>6. Json(t) = [p \in E |-> t[Home(t, p)]]
  BY <1>1, <1>5
<1> QED
  BY <1>6 DEF E

\* Nodes of the tree are in the value as they are, and a list is as long.
LEMMA JsonNode ==
  ASSUME NEW t, IsTree(t), NEW p \in DOMAIN t, t[p].kind # "alias"
  PROVE  /\ p \in DOMAIN Json(t) /\ Json(t)[p] = t[p]
         /\ Children(Json(t), p) = Children(t, p)
<1>1. p \in Pos /\ \A a \in Aliases(t) : a \in Pos /\ a \in DOMAIN t /\ t[a].kind = "alias"
  BY TreeNodes DEF Aliases
<1>2. \A a \in Aliases(t) : ~IsPrefix(a, p)
  BY <1>1, LeafAlone
<1>3. Home(t, p) = p
  BY <1>1, <1>2, HomeIs
<1>4. /\ \A x : x \in DOMAIN Json(t) <=> x \in Pos /\ Home(t, x) \in DOMAIN t
      /\ \A x \in DOMAIN Json(t) : Json(t)[x] = t[Home(t, x)]
  <2> DEFINE j == Json(t)
             E == {x \in Pos : Home(t, x) \in DOMAIN t}
  <2>1. j = [x \in E |-> t[Home(t, x)]]
    BY JsonIs
  <2> HIDE DEF j
  <2>2. DOMAIN j = E /\ \A x \in E : j[x] = t[Home(t, x)]
    BY <2>1
  <2> QED
    BY <2>2 DEF j
<1>5. p \in DOMAIN Json(t) /\ Json(t)[p] = t[p]
  BY <1>1, <1>3, <1>4
<1>6. ASSUME NEW c \in Pos, Len(c) = Len(p) + 1, IsPrefix(p, c)
      PROVE  c \in DOMAIN Json(t) <=> c \in DOMAIN t
  <2>1. CASE \A a \in Aliases(t) : ~IsPrefix(a, c)
    BY <1>4, <2>1, HomeIs
  <2>2. ASSUME NEW a \in Aliases(t), IsPrefix(a, c)
        PROVE  c \in DOMAIN Json(t) /\ c \in DOMAIN t
    <3>1. IsPrefix(p, a) /\ p # a
      BY <1>1, <1>2, <1>6, <2>2, PrefixOrder
    <3>2. /\ Len(p) <= Len(a) /\ \A i \in 1..Len(p) : p[i] = a[i]
          /\ Len(a) <= Len(c) /\ \A i \in 1..Len(a) : a[i] = c[i]
      BY <1>1, <1>6, <2>2, <3>1, PrefixIs
    <3>3. Len(p) \in Nat /\ Len(a) \in Nat /\ Len(p) # Len(a)
      BY <1>1, <3>1, <3>2, SeqEqual DEF Pos
    <3>4. a = c
      BY <1>1, <1>6, <3>2, <3>3, SeqEqual DEF Pos
    <3>5. t[a].target \in DOMAIN t /\ t[a].target \in Pos
      BY TreeNodes DEF IsTree
    <3>6. a \o << >> = a /\ << >> \in Pos
      BY <1>1, ConcatEmptySeq, EmptySeq DEF Pos
    <3>7. Below(a, a) = << >> /\ t[a].target \o << >> = t[a].target
      <4>1. Below(a, a \o << >>) = << >>
        BY <1>1, <3>6, PrefixSplit
      <4>2. t[a].target \o << >> = t[a].target
        BY <3>5, ConcatEmptySeq DEF Pos
      <4> QED
        BY <3>6, <4>1, <4>2
    <3>8. Home(t, c) = t[a].target
      BY <2>2, <3>4, <3>7, HomeIs
    <3> QED
      BY <1>1, <1>4, <3>4, <3>5, <3>8
  <2> QED
    BY <2>1, <2>2
<1>7. DOMAIN t \subseteq Pos /\ DOMAIN Json(t) \subseteq Pos
  BY <1>4, TreeNodes
<1>8. Children(Json(t), p) = Children(t, p)
  BY <1>6, <1>7 DEF Children
<1> QED
  BY <1>5, <1>8

\* No alias stands for what is edited at w.
NotShared(t, w) == \A a \in Aliases(t) : ~IsPrefix(t[a].target, w)

LEMMA EditCommutes ==
  ASSUME IndexTexts, NEW t, IsTree(t), NEW w, Site(t, w), NEW sub, IsPart(sub), NotShared(t, w)
  PROVE  Json(Graft(t, w, sub)) = Graft(Json(t), w, sub)
<1> DEFINE g == Graft(t, w, sub)
           j == Json(t)
           l == Json(g)
           r == Graft(j, w, sub)
<1>1. w \in Pos /\ DOMAIN t \subseteq Pos /\ DOMAIN sub \subseteq Pos
  BY DEF Site, IsPart, IsTree, Pos
<1>2. /\ \A q \in DOMAIN t : IsPrefix(w, q) => q = w
      /\ \A a \in Aliases(t) : ~IsPrefix(a, w) /\ ~IsPrefix(w, a)
  BY SiteAlone
<1>3. IsTree(g) /\ Aliases(g) = Aliases(t) /\ \A a \in Aliases(t) : g[a] = t[a]
  BY GraftTree
<1>4. /\ j = [p \in {x \in Pos : Home(t, x) \in DOMAIN t} |-> t[Home(t, p)]]
      /\ l = [p \in {x \in Pos : Home(g, x) \in DOMAIN g} |-> g[Home(g, p)]]
  BY <1>3, JsonIs
<1>5. /\ \A p \in Pos : ~IsPrefix(w, p) =>
           (p \in DOMAIN g <=> p \in DOMAIN t) /\ (p \in DOMAIN t => g[p] = t[p])
      /\ \A q \in Pos : (w \o q \in DOMAIN g <=> q \in DOMAIN sub) /\ (q \in DOMAIN sub => g[w \o q] = sub[q])
  BY <1>1, GraftIs
<1> HIDE DEF j
<1>6. DOMAIN j \subseteq Pos /\ \A p \in Pos : p \in DOMAIN j <=> Home(t, p) \in DOMAIN t
  BY <1>4
<1>7. \A p \in DOMAIN j : j[p] = t[Home(t, p)]
  BY <1>4
<1>8. /\ r = [p \in DOMAIN r |-> r[p]] /\ DOMAIN r \subseteq Pos
      /\ \A p \in Pos : ~IsPrefix(w, p) =>
           (p \in DOMAIN r <=> p \in DOMAIN j) /\ (p \in DOMAIN j => r[p] = j[p])
      /\ \A q \in Pos : (w \o q \in DOMAIN r <=> q \in DOMAIN sub) /\ (q \in DOMAIN sub => r[w \o q] = sub[q])
  BY <1>1, <1>6, GraftIs
<1> HIDE DEF g, l, r
<1>9. DOMAIN l \subseteq Pos /\ (\A p \in Pos : p \in DOMAIN l <=> Home(g, p) \in DOMAIN g)
      /\ \A p \in DOMAIN l : l[p] = g[Home(g, p)]
  BY <1>4
<1>10. ASSUME NEW p \in Pos
       PROVE  /\ p \in DOMAIN l <=> p \in DOMAIN r
              /\ p \in DOMAIN l => l[p] = r[p]
  <2>1. Home(t, p) \in Pos /\ Home(g, p) \in Pos
    BY <1>3, HomeIs
  <2>2. CASE \A a \in Aliases(t) : ~IsPrefix(a, p)
    <3>1. Home(t, p) = p /\ Home(g, p) = p
      BY <1>3, <2>2, HomeIs
    <3>2. CASE ~IsPrefix(w, p)
      BY <1>5, <1>6, <1>7, <1>8, <1>9, <3>1, <3>2
    <3>3. CASE IsPrefix(w, p)
      <4>1. Below(w, p) \in Pos /\ p = w \o Below(w, p)
        BY <1>1, <3>3, PrefixBelow
      <4> DEFINE q == Below(w, p)
      <4>2. q \in Pos /\ p = w \o q
        BY <4>1
      <4> HIDE DEF q
      <4>3. /\ p \in DOMAIN g <=> q \in DOMAIN sub
            /\ p \in DOMAIN r <=> q \in DOMAIN sub
            /\ q \in DOMAIN sub => g[p] = sub[q] /\ r[p] = sub[q]
        BY <1>5, <1>8, <4>2
      <4>4. p \in DOMAIN l <=> p \in DOMAIN g
        BY <1>9, <3>1
      <4> QED
        BY <1>9, <3>1, <4>3, <4>4
    <3> QED
      BY <3>2, <3>3
  <2>3. ASSUME NEW a \in Aliases(t), IsPrefix(a, p)
        PROVE  (p \in DOMAIN l <=> p \in DOMAIN r) /\ (p \in DOMAIN l => l[p] = r[p])
    <3> DEFINE x == t[a].target
               h == x \o Below(a, p)
    <3>1. a \in Pos /\ x \in DOMAIN t /\ x \in Pos
      BY TreeNodes DEF Aliases, IsTree
    <3>2. Below(a, p) \in Pos
      BY <2>3, <3>1, PrefixBelow
    <3>3. Home(t, p) = h /\ Home(g, p) = h /\ h \in Pos /\ IsPrefix(x, h)
      <4>1. Home(t, p) = h
        BY <2>3, HomeIs
      <4>2. a \in Aliases(g) /\ g[a].target = x
        BY <1>3
      <4>3. Home(g, p) = g[a].target \o Below(a, p)
        BY <1>3, <2>3, <4>2, HomeIs
      <4>4. h \in Pos /\ IsPrefix(x, h)
        BY <3>1, <3>2, PrefixSplit
      <4> QED
        BY <4>1, <4>2, <4>3, <4>4
    <3> HIDE DEF h
    <3>4. ~IsPrefix(w, p)
      BY <1>1, <1>2, <2>3, <3>1, PrefixOrder
    <3>5. ~IsPrefix(x, w)
      BY DEF NotShared
    <3> HIDE DEF x
    <3>6. ~IsPrefix(w, h)
      <4>1. SUFFICES ASSUME IsPrefix(w, h) PROVE FALSE
        OBVIOUS
      <4>2. IsPrefix(w, x)
        BY <1>1, <3>1, <3>3, <3>5, <4>1, PrefixOrder
      <4>3. x = w
        BY <1>2, <3>1, <4>2
      <4> QED
        BY <1>1, <3>5, <4>3, PrefixOrder
    <3> QED
      BY <1>5, <1>6, <1>7, <1>8, <1>9, <3>3, <3>4, <3>6
  <2> QED
    BY <2>2, <2>3
<1>11. DOMAIN l = DOMAIN r
  BY <1>8, <1>9, <1>10
<1>12. l = [p \in DOMAIN l |-> l[p]]
  BY <1>4
<1>13. l = r
  BY <1>8, <1>9, <1>10, <1>11, <1>12
<1> QED
  BY <1>13 DEF l, r, g, j

\* The operation that reports an edit makes the same of the JSON value.
LEMMA PatchApplies ==
  ASSUME IndexTexts, TextsOfPaths, NEW t, IsTree(t), NEW w, Site(t, w), NEW sub, IsPart(sub), NotShared(t, w),
         NEW o, o.value = sub, o.op = "replace" => w \in DOMAIN t,
         \/ t[Front(w)].kind = "map" /\ o.path = w
         \/ t[Front(w)].kind = "list" /\ o.path = Front(w) \o <<"-">> /\ o.op = "add"
  PROVE  ApplyPatchOp(Json(t), o) = Json(Graft(t, w, sub))
<1> DEFINE f == Front(w)
           v == Json(t)
<1>1. w \in Pos /\ w # << >> /\ f \in DOMAIN t /\ f \in Pos
  BY TreeNodes DEF Site
<1>2. t[f].kind \in {"map", "list"}
  BY DEF Site
<1>3. f \in DOMAIN v /\ v[f] = t[f] /\ Children(v, f) = Children(t, f)
  BY <1>1, <1>2, JsonNode
<1>5. Length(v, f) = Length(t, f)
  BY <1>3 DEF Length
<1>6. Json(Graft(t, w, sub)) = Graft(v, w, sub)
  BY EditCommutes
<1>7. CASE t[f].kind = "map"
  <2>1. o.path = w /\ v[f].kind = "map"
    BY <1>3, <1>7
  <2>2. w \in DOMAIN t => w \in DOMAIN v
    <3>1. w \in DOMAIN t => t[w].kind # "alias"
      BY SiteAlone
    <3> QED
      BY <3>1, JsonNode
  <2> HIDE DEF v
  <2>3. ApplyPatchOp(v, o) = Graft(v, w, sub)
    BY <1>3, <2>1, <2>2 DEF ApplyPatchOp
  <2> QED
    BY <1>6, <2>3 DEF v
<1>8. CASE t[f].kind = "list"
  <2>1. o.path = f \o <<"-">> /\ o.op = "add" /\ v[f].kind = "list"
    BY <1>3, <1>8
  <2>2. Front(o.path) = f /\ Last(o.path) = "-"
    <3>1. "-" \in Texts
      BY TokenTexts
    <3> HIDE DEF f
    <3>2. Front(f \o <<"-">>) = f /\ Last(f \o <<"-">>) = "-"
      BY <1>1, <3>1, PrefixChild
    <3> QED
      BY <2>1, <3>2
  <2>3. w = f \o <<ToString(Length(v, f))>>
    BY <1>5, <1>8 DEF Site
  <2> HIDE DEF v, f
  <2>4. ApplyPatchOp(v, o) = Graft(v, w, sub)
    BY <1>3, <2>1, <2>2, <2>3 DEF ApplyPatchOp
  <2> QED
    BY <1>6, <2>4 DEF v
<1> QED
  BY <1>2, <1>7, <1>8

\* The values on the way, and that there are such.
After(f, v, ops) ==
  f = [i \in 0..Len(ops) |-> IF i = 0 THEN v ELSE ApplyPatchOp(f[i - 1], ops[i])]

LEMMA AfterGrows ==
  ASSUME NEW S, NEW ops \in Seq(S), NEW e \in S, NEW v, NEW f, After(f, v, ops)
  PROVE  After([i \in 0..Len(ops) + 1 |-> IF i = Len(ops) + 1 THEN ApplyPatchOp(f[Len(ops)], e) ELSE f[i]],
               v, Append(ops, e))
<1> DEFINE n == Len(ops)
           more == Append(ops, e)
           g == [i \in 0..n + 1 |-> IF i = n + 1 THEN ApplyPatchOp(f[n], e) ELSE f[i]]
           h == [i \in 0..n + 1 |-> IF i = 0 THEN v ELSE ApplyPatchOp(g[i - 1], more[i])]
<1>1. /\ n \in Nat /\ Len(more) = n + 1 /\ more[n + 1] = e
      /\ \A i \in 1..n : more[i] = ops[i]
  BY AppendProperties
<1> HIDE DEF more
<1>2. /\ f[0] = v
      /\ \A i \in 1..n : f[i] = ApplyPatchOp(f[i - 1], ops[i])
  <2>1. f = [i \in 0..n |-> IF i = 0 THEN v ELSE ApplyPatchOp(f[i - 1], ops[i])]
    BY DEF After
  <2> HIDE DEF n
  <2> QED
    BY <1>1, <2>1
<1> HIDE DEF n
<1>3. ASSUME NEW i \in 0..n + 1 PROVE g[i] = h[i]
  <2>1. CASE i = 0
    BY <1>1, <1>2, <2>1
  <2>2. CASE i \in 1..n
    <3>1. i # 0 /\ i # n + 1 /\ i - 1 \in 0..n + 1 /\ i - 1 # n + 1
      BY <1>1, <2>2
    <3>2. g[i] = f[i] /\ g[i - 1] = f[i - 1]
      BY <3>1
    <3>3. h[i] = ApplyPatchOp(g[i - 1], more[i])
      BY <3>1
    <3> QED
      BY <1>1, <1>2, <2>2, <3>2, <3>3
  <2>3. CASE i = n + 1
    <3>1. i # 0 /\ i - 1 = n /\ n \in 0..n + 1 /\ n # n + 1
      BY <1>1, <2>3
    <3>2. g[i] = ApplyPatchOp(f[n], e) /\ g[i - 1] = f[n]
      BY <2>3, <3>1
    <3>3. h[i] = ApplyPatchOp(g[i - 1], more[i])
      BY <3>1
    <3> QED
      BY <1>1, <2>3, <3>2, <3>3
  <2> QED
    BY <1>1, <2>1, <2>2, <2>3
<1>4. g = h
  BY <1>3
<1>5. After(g, v, more)
  BY <1>1, <1>4 DEF After
<1> QED
  BY <1>5 DEF n, more

LEMMA AfterUnique ==
  ASSUME NEW S, NEW ops \in Seq(S), NEW v, NEW f, NEW g, After(f, v, ops), After(g, v, ops)
  PROVE  f = g
<1> DEFINE n == Len(ops)
           P == {i \in Nat : i <= n => f[i] = g[i]}
<1>1. n \in Nat
  OBVIOUS
<1>2. /\ f = [i \in 0..n |-> IF i = 0 THEN v ELSE ApplyPatchOp(f[i - 1], ops[i])]
      /\ g = [i \in 0..n |-> IF i = 0 THEN v ELSE ApplyPatchOp(g[i - 1], ops[i])]
  BY DEF After
<1> HIDE DEF n
<1>3. 0 \in P
  BY <1>1, <1>2
<1>4. ASSUME NEW i \in P PROVE i + 1 \in P
  <2> SUFFICES ASSUME i + 1 <= n PROVE f[i + 1] = g[i + 1]
    OBVIOUS
  <2>1. i \in Nat /\ i + 1 \in 0..n /\ i + 1 # 0 /\ (i + 1) - 1 = i /\ i <= n
    BY <1>1, <1>4
  <2>2. f[i + 1] = ApplyPatchOp(f[i], ops[i + 1]) /\ g[i + 1] = ApplyPatchOp(g[i], ops[i + 1])
    BY <1>2, <2>1
  <2> QED
    BY <1>4, <2>1, <2>2
<1> HIDE DEF P
<1>5. P = Nat
  <2>1. P \in SUBSET Nat
    BY DEF P
  <2> QED
    BY <1>3, <1>4, <2>1, SetInduction
<1>6. \A i \in 0..n : f[i] = g[i]
  BY <1>1, <1>5 DEF P
<1> QED
  BY <1>2, <1>6

\* The equations of ApplyPatch.
LEMMA ApplyPatchIs ==
  ASSUME NEW v
  PROVE  /\ ApplyPatch(v, << >>) = v
         /\ \A S : \A ops \in Seq(S), e \in S :
              ApplyPatch(v, Append(ops, e)) = ApplyPatchOp(ApplyPatch(v, ops), e)
<1> DEFINE f0 == [i \in 0..0 |-> v]
<1>1. After(f0, v, << >>)
  <2>1. Len(<< >>) = 0 /\ 0..0 = {0}
    BY EmptySeq
  <2>2. f0 = [i \in 0..0 |-> IF i = 0 THEN v ELSE ApplyPatchOp(f0[i - 1], << >>[i])]
    BY <2>1
  <2> QED
    BY <2>1, <2>2 DEF After
<1>2. \A S : \A ops \in Seq(S) : \E f : After(f, v, ops)
  <2> SUFFICES ASSUME NEW S, NEW ops \in Seq(S) PROVE \E f : After(f, v, ops)
    OBVIOUS
  <2> DEFINE P == {n \in Nat : n <= Len(ops) => \E f : After(f, v, SubSeq(ops, 1, n))}
  <2>1. 0 \in P
    <3>1. SubSeq(ops, 1, 0) = << >>
      BY SubSeqEmpty
    <3>2. After(f0, v, SubSeq(ops, 1, 0))
      BY <1>1, <3>1
    <3> QED
      BY <3>2
  <2>2. ASSUME NEW n \in P PROVE n + 1 \in P
    <3> SUFFICES ASSUME n + 1 <= Len(ops) PROVE \E f : After(f, v, SubSeq(ops, 1, n + 1))
      OBVIOUS
    <3>1. n \in Nat /\ Len(ops) \in Nat /\ n + 1 \in 1..Len(ops) /\ n <= Len(ops)
      BY <2>2
    <3>2. PICK f : After(f, v, SubSeq(ops, 1, n))
      BY <2>2, <3>1
    <3> DEFINE s == SubSeq(ops, 1, n)
               e == ops[n + 1]
    <3>3. s \in Seq(S) /\ e \in S
      <4>1. \A i \in 1..n : ops[i] \in S
        BY <3>1, ElementOfSeq
      <4> QED
        BY <3>1, <4>1, SubSeqProperties, ElementOfSeq
    <3>4. SubSeq(ops, 1, n + 1) = Append(s, e)
      <4>1. SubSeq(ops, 1, n + 1) = SubSeq(ops, 1, (n + 1) - 1) \o <<ops[n + 1]>>
        <5>1. 1 \in 1..Len(ops) /\ n + 1 \in 1..Len(ops)
          BY <3>1
        <5> QED
          BY <5>1, SubSeqRecursiveSecond
      <4>2. (n + 1) - 1 = n
        BY <3>1
      <4>3. Append(s, e) = s \o <<e>>
        BY <3>3, AppendIsConcat
      <4> QED
        BY <4>1, <4>2, <4>3
    <3> HIDE DEF s, e
    <3>5. After(f, v, s)
      BY <3>2 DEF s
    <3> QED
      BY <3>3, <3>4, <3>5, AfterGrows
  <2> HIDE DEF P
  <2>3. P = Nat
    <3>1. P \in SUBSET Nat
      BY DEF P
    <3> QED
      BY <2>1, <2>2, <3>1, SetInduction
  <2>4. Len(ops) \in Nat /\ SubSeq(ops, 1, Len(ops)) = ops
    BY SubSeqFull
  <2>5. Len(ops) \in P
    BY <2>3, <2>4
  <2>6. PICK f : After(f, v, SubSeq(ops, 1, Len(ops)))
    BY <2>4, <2>5 DEF P
  <2> QED
    BY <2>4, <2>6
<1>3. ASSUME NEW S, NEW ops \in Seq(S), NEW f, After(f, v, ops)
      PROVE  ApplyPatch(v, ops) = f[Len(ops)]
  <2> DEFINE F == CHOOSE g : g = [i \in 0..Len(ops) |-> IF i = 0 THEN v ELSE ApplyPatchOp(g[i - 1], ops[i])]
  <2>1. ApplyPatch(v, ops) = F[Len(ops)]
    BY DEF ApplyPatch
  <2>2. F = [i \in 0..Len(ops) |-> IF i = 0 THEN v ELSE ApplyPatchOp(F[i - 1], ops[i])]
    BY <1>3 DEF After
  <2> HIDE DEF F
  <2>3. After(F, v, ops)
    BY <2>2 DEF After
  <2>4. F = f
    BY <1>3, <2>3, AfterUnique
  <2> QED
    BY <2>1, <2>4
<1>4. ApplyPatch(v, << >>) = v
  <2>1. << >> \in Seq({}) /\ Len(<< >>) = 0
    BY EmptySeq
  <2>2. ApplyPatch(v, << >>) = f0[Len(<< >>)]
    BY <1>1, <1>3, <2>1
  <2> QED
    BY <2>1, <2>2
<1>5. ASSUME NEW S, NEW ops \in Seq(S), NEW e \in S
      PROVE  ApplyPatch(v, Append(ops, e)) = ApplyPatchOp(ApplyPatch(v, ops), e)
  <2>1. PICK f : After(f, v, ops)
    BY <1>2
  <2> DEFINE n == Len(ops)
             g == [i \in 0..n + 1 |-> IF i = n + 1 THEN ApplyPatchOp(f[n], e) ELSE f[i]]
  <2>2. After(g, v, Append(ops, e))
    BY <2>1, AfterGrows
  <2>3. n \in Nat /\ Append(ops, e) \in Seq(S) /\ Len(Append(ops, e)) = n + 1
    BY AppendProperties
  <2>4. g[n + 1] = ApplyPatchOp(f[n], e)
    BY <2>3
  <2> HIDE DEF g, n
  <2>5. ApplyPatch(v, Append(ops, e)) = g[n + 1]
    BY <1>3, <2>2, <2>3
  <2>6. ApplyPatch(v, ops) = f[n]
    BY <1>3, <2>1 DEF n
  <2> QED
    BY <2>4, <2>5, <2>6
<1> QED
  BY <1>4, <1>5

-----------------------------------------------------------------------------
(***************************************************************************)
(* Plans.  ParsePath is a recursive function from the place in the text,   *)
(* and looks only at later places.                                         *)
(***************************************************************************)
ParseAt(f, s, p) ==
  LET first == ParseSegment(s, p)
      rest == f[first.end + 1]
  IN  CASE first.end = p -> InvalidPath
        [] first.end = Len(s) + 1 -> <<first.seg>>
        [] OTHER -> IF s[first.end] = "." /\ first.end < Len(s) /\ rest # InvalidPath
                      THEN <<first.seg>> \o rest ELSE InvalidPath

LEMMA SegmentEnds ==
  ASSUME NEW s, NEW p \in Nat
  PROVE  ParseSegment(s, p).end \in {p, p + 1, p + 4, p + 6}
  BY DEF ParseSegment

\* It looks at f no more than at the places behind p.
LEMMA ParseLooksAhead ==
  ASSUME NEW S, NEW s \in Seq(S), NEW p \in 1..Len(s) + 1, NEW f, NEW g,
         \A q \in p + 1..Len(s) + 1 : f[q] = g[q]
  PROVE  ParseAt(f, s, p) = ParseAt(g, s, p)
<1> DEFINE e == ParseSegment(s, p).end
<1>1. e \in {p, p + 1, p + 4, p + 6} /\ Len(s) \in Nat /\ p \in Nat
  BY SegmentEnds
<1> HIDE DEF e
<1>2. CASE e = p \/ e = Len(s) + 1
  BY <1>2 DEF ParseAt, e
<1>3. CASE e # p /\ e # Len(s) + 1 /\ ~(e < Len(s))
  BY <1>3 DEF ParseAt, e
<1>4. CASE e # p /\ e # Len(s) + 1 /\ e < Len(s)
  <2>1. e + 1 \in p + 1..Len(s) + 1
    BY <1>1, <1>4
  <2>2. f[e + 1] = g[e + 1]
    BY <2>1
  <2> QED
    BY <1>4, <2>2 DEF ParseAt, e
<1> QED
  BY <1>2, <1>3, <1>4

LEMMA ParseExists ==
  ASSUME NEW S, NEW s \in Seq(S)
  PROVE  \E f : f = [p \in 1..Len(s) + 1 |-> ParseAt(f, s, p)]
<1> DEFINE L == Len(s) + 1
           P == {n \in Nat : n < L => \E f : f = [p \in L - n..L |-> ParseAt(f, s, p)]}
<1>1. L \in Nat /\ L >= 1 /\ Len(s) \in Nat
  OBVIOUS
<1>2. 0 \in P
  <2> DEFINE f == [p \in L - 0..L |-> ParseAt(<< >>, s, p)]
             g == [p \in L - 0..L |-> ParseAt(f, s, p)]
  <2>1. ASSUME NEW p \in L - 0..L PROVE ParseAt(<< >>, s, p) = ParseAt(f, s, p)
    <3>1. p = L /\ p \in 1..Len(s) + 1 /\ p + 1..Len(s) + 1 = {}
      BY <1>1
    <3> HIDE DEF f, L
    <3> QED
      BY <3>1, ParseLooksAhead
  <2>2. f = g
    BY <2>1
  <2> QED
    BY <2>2
<1>3. ASSUME NEW n \in P PROVE n + 1 \in P
  <2> SUFFICES ASSUME n + 1 < L PROVE \E f : f = [p \in L - (n + 1)..L |-> ParseAt(f, s, p)]
    OBVIOUS
  <2>1. n \in Nat /\ n < L
    BY <1>1, <1>3
  <2>2. PICK f : f = [p \in L - n..L |-> ParseAt(f, s, p)]
    BY <1>3, <2>1
  <2> DEFINE k == L - (n + 1)
             g == [p \in k..L |-> IF p = k THEN ParseAt(f, s, p) ELSE f[p]]
             h == [p \in k..L |-> ParseAt(g, s, p)]
  <2>3. k \in Nat /\ k >= 1 /\ L - n = k + 1
    BY <1>1, <2>1
  <2> HIDE DEF k
  <2>4. \A p \in k + 1..L : g[p] = f[p]
    BY <1>1, <2>3
  <2>5. ASSUME NEW p \in k..L PROVE g[p] = h[p]
    <3>1. p \in 1..Len(s) + 1 /\ \A q \in p + 1..Len(s) + 1 : f[q] = g[q]
      BY <1>1, <2>3, <2>4
    <3> HIDE DEF L, g
    <3>2. ParseAt(f, s, p) = ParseAt(g, s, p)
      BY <3>1, ParseLooksAhead
    <3>3. g[p] = ParseAt(f, s, p)
      <4>1. CASE p = k
        BY <4>1 DEF g
      <4>2. CASE p # k
        <5>1. p \in L - n..L
          BY <1>1, <2>1, <2>3, <4>2
        <5>2. f[p] = ParseAt(f, s, p)
          BY <2>2, <5>1
        <5> QED
          BY <4>2, <5>2 DEF g
      <4> QED
        BY <4>1, <4>2
    <3> QED
      BY <3>2, <3>3
  <2>6. g = h
    BY <2>5
  <2> QED
    BY <2>6 DEF k
<1> HIDE DEF P
<1>4. P = Nat
  <2>1. P \in SUBSET Nat
    BY DEF P
  <2> QED
    BY <1>2, <1>3, <2>1, SetInduction
<1>5. L - 1 \in P /\ L - (L - 1) = 1 /\ L - 1 < L
  BY <1>1, <1>4
<1>6. PICK f : f = [p \in L - (L - 1)..L |-> ParseAt(f, s, p)]
  BY <1>5 DEF P
<1> QED
  BY <1>5, <1>6

LEMMA ParsePathIs ==
  ASSUME NEW S, NEW s \in Seq(S)
  PROVE  \E f : /\ ParsePath(s) = f[1]
                /\ \A p \in 1..Len(s) + 1 : f[p] = ParseAt(f, s, p)
<1> DEFINE F == CHOOSE f : f = [p \in 1..Len(s) + 1 |->
                  LET first == ParseSegment(s, p)
                      rest == f[first.end + 1]
                  IN  CASE first.end = p -> InvalidPath
                        [] first.end = Len(s) + 1 -> <<first.seg>>
                        [] OTHER -> IF s[first.end] = "." /\ first.end < Len(s) /\ rest # InvalidPath
                                      THEN <<first.seg>> \o rest ELSE InvalidPath]
<1>1. ParsePath(s) = F[1]
  BY DEF ParsePath
<1>2. F = [p \in 1..Len(s) + 1 |->
                  LET first == ParseSegment(s, p)
                      rest == F[first.end + 1]
                  IN  CASE first.end = p -> InvalidPath
                        [] first.end = Len(s) + 1 -> <<first.seg>>
                        [] OTHER -> IF s[first.end] = "." /\ first.end < Len(s) /\ rest # InvalidPath
                                      THEN <<first.seg>> \o rest ELSE InvalidPath]
  BY ParseExists DEF ParseAt
<1> HIDE DEF F
<1>3. \A p \in 1..Len(s) + 1 : F[p] = ParseAt(F, s, p)
  BY <1>2 DEF ParseAt
<1> QED
  BY <1>1, <1>3

\* What ParsePath makes of a name, and of a name with a selector.
IsName(token) == token \notin Punctuation \cup {""}
Plain(key) == Segment(key, NoSelector)

LEMMA NameParses ==
  ASSUME NEW S, NEW s \in Seq(S), NEW p \in 1..Len(s), NEW f, f[p] = ParseAt(f, s, p), IsName(s[p])
  PROVE  /\ p = Len(s) => f[p] = <<Plain(s[p])>>
         /\ p + 1 < Len(s) /\ s[p + 1] = "." /\ f[p + 2] # InvalidPath =>
              f[p] = <<Plain(s[p])>> \o f[p + 2]
<1>1. p \in Nat /\ Len(s) \in Nat /\ DOMAIN s = 1..Len(s) /\ "." # "[" /\ "" # "["
  OBVIOUS
<1>2. CASE p = Len(s)
  <2>1. p + 1 \notin DOMAIN s
    BY <1>1, <1>2
  <2>2. ParseSegment(s, p) = [seg |-> Plain(s[p]), end |-> p + 1]
    BY <1>1, <2>1 DEF ParseSegment, IsName, Plain
  <2> QED
    BY <1>1, <1>2, <2>2 DEF ParseAt
<1>3. CASE p + 1 < Len(s) /\ s[p + 1] = "." /\ f[p + 2] # InvalidPath
  <2>1. p + 1 \in DOMAIN s
    BY <1>1, <1>3
  <2>2. ParseSegment(s, p) = [seg |-> Plain(s[p]), end |-> p + 1]
    BY <1>1, <1>3, <2>1 DEF ParseSegment, IsName, Plain
  <2>3. (p + 1) + 1 = p + 2 /\ p + 1 # p /\ p + 1 # Len(s) + 1
    BY <1>1, <1>3
  <2> QED
    BY <1>1, <1>3, <2>2, <2>3 DEF ParseAt
<1> QED
  BY <1>2, <1>3

ContainerSegment(name) ==
  Segment("containers",
          IF name # "" THEN [NoSelector EXCEPT !.kind = "match", !.field = "name", !.value = name]
          ELSE [NoSelector EXCEPT !.kind = "all"])

\* s has the text of the target and a dot at m, and goes on at h.
StartsWithTarget(s, name, m, h) ==
  /\ m \in Nat /\ h \in Nat /\ m = Len(PlanTarget(name)) + 1 /\ h = m + 1 /\ m < Len(s)
  /\ \A i \in 1..Len(PlanTarget(name)) : s[i] = PlanTarget(name)[i]
  /\ s[m] = "."

\* The text of a path of a plan is read back as that path.
LEMMA TargetParses ==
  ASSUME IndexTexts, TextsOfPaths, NEW name \in Names, NEW S, NEW s \in Seq(S), NEW f,
         f[1] = ParseAt(f, s, 1), NEW m, NEW h, StartsWithTarget(s, name, m, h), f[h] # InvalidPath
  PROVE  f[1] = <<ContainerSegment(name)>> \o f[h]
<1> DEFINE n == Len(PlanTarget(name))
<1>0. /\ \A i \in 1..n : s[i] = PlanTarget(name)[i]
      /\ m = n + 1 /\ h = m + 1 /\ m < Len(s) /\ s[m] = "."
  BY DEF StartsWithTarget
<1>1. Len(s) \in Nat /\ DOMAIN s = 1..Len(s)
  OBVIOUS
<1>2. CASE name = ""
  <2>1. n = 4 /\ s[1] = "containers" /\ s[2] = "[" /\ s[3] = "*" /\ s[4] = "]"
    <3>1. PlanTarget(name) = <<"containers", "[", "*", "]">>
      BY <1>2 DEF PlanTarget, AllContainers
    <3>2. Len(PlanTarget(name)) = 4 /\ 1 \in 1..4 /\ 2 \in 1..4 /\ 3 \in 1..4 /\ 4 \in 1..4
      BY <3>1
    <3> QED
      BY <1>0, <3>1, <3>2
  <2>2. 1 \in DOMAIN s /\ 2 \in DOMAIN s /\ 3 \in DOMAIN s /\ 4 \in DOMAIN s
    BY <1>0, <1>1, <2>1
  <2>3. ParseSegment(s, 1).end = 5 /\ ParseSegment(s, 1).seg = ContainerSegment(name)
    <3>1. /\ 1 + 1 = 2 /\ 1 + 2 = 3 /\ 1 + 3 = 4 /\ 1 + 4 = 5
          /\ "containers" \notin Punctuation \cup {""}
      BY DEF Punctuation
    <3>2. ContainerSegment(name) = Segment("containers", [NoSelector EXCEPT !.kind = "all"])
      BY <1>2 DEF ContainerSegment
    <3>3. Index("*") = -1 /\ ~(-1 >= 0)
      BY TokenTexts DEF Index
    <3>4. "*" \in Punctuation
      BY DEF Punctuation
    <3>5. ParseSegment(s, 1).end = 5
      BY <2>1, <2>2, <3>1, <3>3, <3>4 DEF ParseSegment
    <3>6. ParseSegment(s, 1).seg = Segment("containers", [NoSelector EXCEPT !.kind = "all"])
      BY <2>1, <2>2, <3>1, <3>3, <3>4 DEF ParseSegment
    <3> QED
      BY <3>2, <3>5, <3>6
  <2> QED
    BY <1>0, <1>1, <2>1, <2>3, SMTT(20) DEF ParseAt
<1>3. CASE name # ""
  <2>1. n = 6 /\ s[1] = "containers" /\ s[2] = "[" /\ s[3] = "name" /\ s[4] = "=" /\ s[5] = name /\ s[6] = "]"
    <3>1. PlanTarget(name) = <<"containers", "[", "name", "=", name, "]">>
      BY <1>3 DEF PlanTarget
    <3>2. /\ Len(PlanTarget(name)) = 6 /\ 1 \in 1..6 /\ 2 \in 1..6 /\ 3 \in 1..6 /\ 4 \in 1..6 /\ 5 \in 1..6
          /\ 6 \in 1..6
      BY <3>1
    <3> QED
      BY <1>0, <3>1, <3>2
  <2>2. /\ 1 \in DOMAIN s /\ 2 \in DOMAIN s /\ 3 \in DOMAIN s /\ 4 \in DOMAIN s /\ 5 \in DOMAIN s
        /\ 6 \in DOMAIN s
    BY <1>0, <1>1, <2>1
  <2>3. name # "]"
    BY DEF TextsOfPaths
  <2>4. Index("name") = -1
    BY TokenTexts DEF Index
  <2>5. ParseSegment(s, 1) = [seg |-> ContainerSegment(name), end |-> 7]
    <3>1. /\ 1 + 1 = 2 /\ 1 + 2 = 3 /\ 1 + 3 = 4 /\ 1 + 4 = 5 /\ 1 + 5 = 6 /\ 1 + 6 = 7
          /\ "containers" \notin Punctuation \cup {""} /\ "name" \notin Punctuation \cup {""}
          /\ ~(-1 >= 0)
      BY DEF Punctuation
    <3>2. ContainerSegment(name) =
            Segment("containers", [NoSelector EXCEPT !.kind = "match", !.field = "name", !.value = name])
      BY <1>3 DEF ContainerSegment
    <3>3. name \notin {"]", ""}
      BY <1>3, <2>3
    <3> QED
      BY <2>1, <2>2, <2>4, <3>1, <3>2, <3>3 DEF ParseSegment
  <2> QED
    BY <1>0, <1>1, <2>1, <2>5, SMTT(30) DEF ParseAt
<1> QED
  BY <1>2, <1>3

\* The path with one more segment in front.
LEMMA OneMore ==
  ASSUME NEW S, NEW x \in S, NEW b \in Seq(S)
  PROVE  /\ <<x>> \o b \in Seq(S) /\ Len(<<x>> \o b) = Len(b) + 1 /\ (<<x>> \o b)[1] = x
         /\ \A i \in 1..Len(b) : (<<x>> \o b)[i + 1] = b[i]
<1> DEFINE a == <<x>>
<1>1. a \in Seq(S) /\ Len(a) = 1 /\ a[1] = x
  BY Singleton
<1> HIDE DEF a
<1>2. /\ a \o b \in Seq(S) /\ Len(a \o b) = Len(a) + Len(b)
      /\ \A i \in 1..Len(a) + Len(b) : (a \o b)[i] = IF i <= Len(a) THEN a[i] ELSE b[i - Len(a)]
  BY <1>1, ConcatProperties
<1>3. Len(b) \in Nat
  OBVIOUS
<1>4. ASSUME NEW i \in 1..Len(b) PROVE (a \o b)[i + 1] = b[i]
  <2>1. i + 1 \in 1..Len(a) + Len(b) /\ ~(i + 1 <= Len(a)) /\ (i + 1) - Len(a) = i
    BY <1>1, <1>3
  <2> QED
    BY <1>2, <2>1
<1> QED
  BY <1>1, <1>2, <1>3, <1>4 DEF a

LEMMA Nonempty ==
  ASSUME NEW x, NEW y
  PROVE  <<x>> # << >> /\ <<x>> \o <<y>> # << >>
<1>1. x \in {x, y} /\ y \in {x, y}
  OBVIOUS
<1>2. <<x>> \in Seq({x, y}) /\ Len(<<x>>) = 1 /\ <<y>> \in Seq({x, y}) /\ Len(<<y>>) = 1
  BY <1>1, Singleton
<1>3. Len(<<x>> \o <<y>>) = Len(<<y>>) + 1
  BY <1>1, <1>2, OneMore
<1> QED
  BY <1>2, <1>3, EmptySeq

\* A path below a container of two keys, and one of three.
LEMMA TwoNames ==
  ASSUME NEW S, NEW s \in Seq(S), NEW i \in Nat, i >= 1, i + 2 = Len(s),
         NEW f, f[i] = ParseAt(f, s, i), f[i + 2] = ParseAt(f, s, i + 2),
         IsName(s[i]), s[i + 1] = ".", IsName(s[i + 2])
  PROVE  f[i] = <<Plain(s[i])>> \o <<Plain(s[i + 2])>>
<1>1. PICK k \in Nat : k = i + 2
  OBVIOUS
<1>2. i \in 1..Len(s) /\ k \in 1..Len(s) /\ k = Len(s) /\ f[k] = ParseAt(f, s, k) /\ IsName(s[k])
  BY <1>1
<1>3. f[k] = <<Plain(s[k])>>
  BY <1>2, NameParses
<1>4. f[k] # InvalidPath
  BY <1>3, Nonempty DEF InvalidPath
<1>5. i + 1 < Len(s) /\ s[i + 1] = "." /\ f[i + 2] # InvalidPath
  BY <1>1, <1>2, <1>4
<1>6. f[i] = <<Plain(s[i])>> \o f[i + 2]
  BY <1>2, <1>5, NameParses
<1> QED
  BY <1>1, <1>3, <1>6

LEMMA ThreeNames ==
  ASSUME NEW S, NEW s \in Seq(S), NEW h \in Nat, h >= 1, h + 4 = Len(s),
         NEW f, f[h] = ParseAt(f, s, h), f[h + 2] = ParseAt(f, s, h + 2), f[h + 4] = ParseAt(f, s, h + 4),
         IsName(s[h]), s[h + 1] = ".", IsName(s[h + 2]), s[h + 3] = ".", IsName(s[h + 4])
  PROVE  f[h] = <<Plain(s[h])>> \o (<<Plain(s[h + 2])>> \o <<Plain(s[h + 4])>>)
<1>1. PICK i \in Nat : i = h + 2
  OBVIOUS
<1>2. i >= 1 /\ i + 1 = h + 3 /\ i + 2 = h + 4 /\ h + 2 = i
  BY <1>1
<1>3. f[i] = <<Plain(s[i])>> \o <<Plain(s[i + 2])>>
  BY <1>2, TwoNames
<1>4. f[i] # InvalidPath
  BY <1>3, Nonempty DEF InvalidPath
<1>5. h \in 1..Len(s) /\ h + 1 < Len(s) /\ s[h + 1] = "." /\ f[h + 2] # InvalidPath
  BY <1>2, <1>4
<1>6. f[h] = <<Plain(s[h])>> \o f[h + 2]
  BY <1>5, NameParses
<1> QED
  BY <1>1, <1>2, <1>3, <1>6

KeyTexts == {k \in Texts : \A i \in 0..MaxItems : ToString(i) # k}

\* A path of a plan: a container segment, then two plain ones or more.
IsPath(path, name) ==
  /\ \E S : path \in Seq(S)
  /\ Len(path) \in {3, 4}
  /\ path[1] = ContainerSegment(name)
  /\ path[2] = Plain("securityContext")
  /\ \A i \in 2..Len(path) : path[i].key \in KeyTexts /\ path[i] = Plain(path[i].key)

LEMMA PathOfTwo ==
  ASSUME NEW name, "securityContext" \in KeyTexts, NEW k \in KeyTexts
  PROVE  LET path == <<ContainerSegment(name)>> \o (<<Plain("securityContext")>> \o <<Plain(k)>>)
         IN  IsPath(path, name) /\ Len(path) = 3 /\ path[3] = Plain(k)
<1> DEFINE x == ContainerSegment(name)
           y == Plain("securityContext")
           z == Plain(k)
           S == {x, y, z}
           q == <<y>> \o <<z>>
           p == <<x>> \o q
<1>1. x \in S /\ y \in S /\ z \in S /\ y = Plain(y.key) /\ z = Plain(z.key) /\ y.key \in KeyTexts /\ z.key \in KeyTexts
  BY DEF Plain, Segment
<1> HIDE DEF S, x, y, z
<1>2. <<z>> \in Seq(S) /\ Len(<<z>>) = 1 /\ <<z>>[1] = z
  BY <1>1, Singleton
<1>3. /\ q \in Seq(S) /\ Len(q) = Len(<<z>>) + 1 /\ q[1] = y
      /\ \A i \in 1..Len(<<z>>) : q[i + 1] = <<z>>[i]
  BY <1>1, <1>2, OneMore
<1>4. q[2] = z /\ Len(q) = 2
  <2>1. 1 \in 1..Len(<<z>>) /\ 1 + 1 = 2
    BY <1>2
  <2> QED
    BY <1>2, <1>3, <2>1
<1> HIDE DEF q
<1>5. /\ p \in Seq(S) /\ Len(p) = Len(q) + 1 /\ p[1] = x
      /\ \A i \in 1..Len(q) : p[i + 1] = q[i]
  <2>1. q \in Seq(S) /\ x \in S
    BY <1>1, <1>3
  <2> QED
    BY <2>1, OneMore
<1>6. p[2] = y /\ p[3] = z /\ Len(p) = 3
  <2>1. 1 \in 1..Len(q) /\ 2 \in 1..Len(q) /\ 1 + 1 = 2 /\ 2 + 1 = 3
    BY <1>4
  <2> QED
    BY <1>3, <1>4, <1>5, <2>1
<1> HIDE DEF p
<1>7. IsPath(p, name)
  <2>1. \A i \in 2..3 : p[i] \in {y, z}
    <3>1. \A i \in 2..3 : i = 2 \/ i = 3
      OBVIOUS
    <3> QED
      BY <1>6, <3>1
  <2> QED
    BY <1>1, <1>5, <1>6, <2>1 DEF IsPath, x, y
<1> QED
  BY <1>6, <1>7 DEF p, q, x, y, z

LEMMA PathOfThree ==
  ASSUME NEW name, "securityContext" \in KeyTexts, NEW k \in KeyTexts, NEW l \in KeyTexts
  PROVE  LET rest == <<Plain("securityContext")>> \o (<<Plain(k)>> \o <<Plain(l)>>)
             path == <<ContainerSegment(name)>> \o rest
         IN  /\ rest # << >>
             /\ IsPath(path, name) /\ Len(path) = 4 /\ path[3] = Plain(k) /\ path[4] = Plain(l)
<1> DEFINE x == ContainerSegment(name)
           y == Plain("securityContext")
           z == Plain(k)
           w == Plain(l)
           S == {x, y, z, w}
           q == <<z>> \o <<w>>
           r == <<y>> \o q
           p == <<x>> \o r
<1>1. /\ x \in S /\ y \in S /\ z \in S /\ w \in S /\ y = Plain(y.key) /\ z = Plain(z.key) /\ w = Plain(w.key)
      /\ y.key \in KeyTexts /\ z.key \in KeyTexts /\ w.key \in KeyTexts
  BY DEF Plain, Segment
<1> HIDE DEF S, x, y, z, w
<1>2. <<w>> \in Seq(S) /\ Len(<<w>>) = 1 /\ <<w>>[1] = w
  BY <1>1, Singleton
<1>3. /\ q \in Seq(S) /\ Len(q) = Len(<<w>>) + 1 /\ q[1] = z
      /\ \A i \in 1..Len(<<w>>) : q[i + 1] = <<w>>[i]
  BY <1>1, <1>2, OneMore
<1>4. q[2] = w /\ Len(q) = 2
  <2>1. 1 \in 1..Len(<<w>>) /\ 1 + 1 = 2
    BY <1>2
  <2> QED
    BY <1>2, <1>3, <2>1
<1> HIDE DEF q
<1>5. /\ r \in Seq(S) /\ Len(r) = Len(q) + 1 /\ r[1] = y
      /\ \A i \in 1..Len(q) : r[i + 1] = q[i]
  <2>1. q \in Seq(S) /\ y \in S
    BY <1>1, <1>3
  <2> QED
    BY <2>1, OneMore
<1>6. r[2] = z /\ r[3] = w /\ Len(r) = 3
  <2>1. 1 \in 1..Len(q) /\ 2 \in 1..Len(q) /\ 1 + 1 = 2 /\ 2 + 1 = 3
    BY <1>4
  <2> QED
    BY <1>3, <1>4, <1>5, <2>1
<1> HIDE DEF r
<1>7. /\ p \in Seq(S) /\ Len(p) = Len(r) + 1 /\ p[1] = x
      /\ \A i \in 1..Len(r) : p[i + 1] = r[i]
  BY <1>1, <1>5, OneMore
<1>8. p[2] = y /\ p[3] = z /\ p[4] = w /\ Len(p) = 4
  <2>1. 1 \in 1..Len(r) /\ 2 \in 1..Len(r) /\ 3 \in 1..Len(r) /\ 1 + 1 = 2 /\ 2 + 1 = 3 /\ 3 + 1 = 4
    BY <1>6
  <2> QED
    BY <1>5, <1>6, <1>7, <2>1
<1> HIDE DEF p
<1>9. IsPath(p, name)
  <2>1. \A i \in 2..4 : p[i] \in {y, z, w}
    <3>1. \A i \in 2..4 : i = 2 \/ i = 3 \/ i = 4
      OBVIOUS
    <3> QED
      BY <1>8, <3>1
  <2> QED
    BY <1>1, <1>7, <1>8, <2>1 DEF IsPath, x, y
<1>10. r # << >>
  BY <1>6, EmptySeq
<1> QED
  BY <1>8, <1>9, <1>10 DEF p, r, q, x, y, z, w

LEMMA PathParses ==
  ASSUME IndexTexts, TextsOfPaths, NEW name \in Names, NEW k \in KeyTexts, NEW l \in KeyTexts,
         IsName("securityContext"), "securityContext" \in KeyTexts, IsName(k), IsName(l)
  PROVE  /\ LET path == ParsePath(PlanTarget(name) \o <<".">> \o <<"securityContext", ".", k>>)
            IN  IsPath(path, name) /\ Len(path) = 3 /\ path[3] = Plain(k)
         /\ LET path == ParsePath(PlanTarget(name) \o <<".">> \o <<"securityContext", ".", k, ".", l>>)
            IN  IsPath(path, name) /\ Len(path) = 4 /\ path[3] = Plain(k) /\ path[4] = Plain(l)
<1> DEFINE a == "securityContext"
           S == {"containers", "[", "*", "]", ".", "name", "=", name, a, k, l}
           target == PlanTarget(name)
           r == target \o <<".">>
<1>1. target \in Seq(S) /\ Len(target) \in {4, 6}
  <2>1. CASE name = ""
    <3>1. target = <<"containers", "[", "*", "]">>
      BY <2>1 DEF PlanTarget, AllContainers
    <3> QED
      BY <3>1
  <2>2. CASE name # ""
    <3>1. target = <<"containers", "[", "name", "=", name, "]">>
      BY <2>2 DEF PlanTarget
    <3> QED
      BY <3>1
  <2> QED
    BY <2>1, <2>2
<1>2. "." \in S /\ a \in S /\ k \in S /\ l \in S
  OBVIOUS
<1> HIDE DEF target, S, a
<1>3. <<".">> \in Seq(S) /\ Len(<<".">>) = 1 /\ <<".">>[1] = "."
  BY <1>2, Singleton
<1>n. PICK n \in Nat, m \in Nat, h \in Nat : n = Len(target) /\ m = n + 1 /\ h = n + 2
  BY <1>1
<1>4. r \in Seq(S) /\ Len(r) = n + 1 /\ r[n + 1] = "." /\ \A i \in 1..n : r[i] = target[i]
  <2>1. /\ r \in Seq(S) /\ Len(r) = Len(target) + Len(<<".">>)
        /\ \A i \in 1..Len(target) + Len(<<".">>) :
             r[i] = IF i <= Len(target) THEN target[i] ELSE <<".">>[i - Len(target)]
    BY <1>1, <1>3, ConcatProperties
  <2> QED
    BY <1>1, <1>3, <1>n, <2>1
<1>5. n = Len(PlanTarget(name)) /\ \A i \in 1..n : r[i] = PlanTarget(name)[i]
  BY <1>4, <1>n DEF target
<1> HIDE DEF r
<1>6. ASSUME NEW F \in Seq(S), NEW s, s = r \o F, Len(F) > 0
      PROVE  /\ s \in Seq(S) /\ Len(s) = m + Len(F)
             /\ StartsWithTarget(s, name, m, h)
             /\ \A i \in 1..Len(F) : s[m + i] = F[i]
  <2>1. r \o F \in Seq(S) /\ Len(r \o F) = Len(r) + Len(F)
        /\ \A i \in 1..Len(r) + Len(F) : (r \o F)[i] = IF i <= Len(r) THEN r[i] ELSE F[i - Len(r)]
    BY <1>4, ConcatProperties
  <2>2. Len(F) \in Nat /\ Len(r) = m
    BY <1>4, <1>n
  <2>3. s[m] = "."
    <3>1. m \in 1..Len(r) + Len(F) /\ m <= Len(r)
      BY <1>n, <2>2
    <3> QED
      BY <1>4, <1>6, <1>n, <2>1, <3>1
  <2>4. ASSUME NEW i \in 1..n PROVE s[i] = PlanTarget(name)[i]
    <3>1. i \in 1..Len(r) + Len(F) /\ i <= Len(r)
      BY <1>n, <2>2
    <3> QED
      BY <1>5, <1>6, <2>1, <3>1
  <2>5. ASSUME NEW i \in 1..Len(F) PROVE s[m + i] = F[i]
    <3>1. m + i \in 1..Len(r) + Len(F) /\ ~(m + i <= Len(r)) /\ (m + i) - Len(r) = i
      BY <2>2
    <3> QED
      BY <1>6, <2>1, <3>1
  <2>6. s \in Seq(S) /\ Len(s) = m + Len(F)
    BY <1>6, <2>1, <2>2
  <2>7. StartsWithTarget(s, name, m, h)
    <3>1. m < Len(s) /\ h = m + 1
      BY <1>n, <1>6, <2>2, <2>6
    <3>2. n = Len(PlanTarget(name))
      BY <1>5
    <3> QED
      BY <1>n, <2>3, <2>4, <3>1, <3>2 DEF StartsWithTarget
  <2> QED
    BY <2>5, <2>6, <2>7
<1>7. LET path == ParsePath(r \o <<a, ".", k>>)
      IN  IsPath(path, name) /\ Len(path) = 3 /\ path[3] = Plain(k)
  <2> DEFINE F == <<a, ".", k>>
  <2>1. F \in Seq(S) /\ Len(F) = 3 /\ F[1] = a /\ F[2] = "." /\ F[3] = k
    BY <1>2
  <2> HIDE DEF F
  <2>2. PICK s : s = r \o F
    OBVIOUS
  <2>3. /\ s \in Seq(S) /\ Len(s) = m + Len(F)
        /\ StartsWithTarget(s, name, m, h)
        /\ \A i \in 1..Len(F) : s[m + i] = F[i]
    <3>1. Len(F) > 0
      BY <2>1
    <3> QED
      BY <1>6, <2>1, <2>2, <3>1
  <2>4. PICK f : ParsePath(s) = f[1] /\ \A p \in 1..Len(s) + 1 : f[p] = ParseAt(f, s, p)
    BY <2>3, ParsePathIs
  <2>5. s[h] = a /\ s[h + 1] = "." /\ s[h + 2] = k /\ h + 2 = Len(s) /\ h >= 1
    <3>1. m + 1 = h /\ m + 2 = h + 1 /\ m + 3 = h + 2
      BY <1>n
    <3> QED
      BY <1>n, <2>1, <2>3, <3>1
  <2>6. f[h] = ParseAt(f, s, h) /\ f[h + 2] = ParseAt(f, s, h + 2)
    BY <2>4, <2>5
  <2>7. f[h] = <<Plain(a)>> \o <<Plain(k)>>
    <3>1. IsName(s[h]) /\ IsName(s[h + 2])
      BY <2>5 DEF a
    <3>2. f[h] = <<Plain(s[h])>> \o <<Plain(s[h + 2])>>
      BY <2>3, <2>5, <2>6, <3>1, TwoNames
    <3> QED
      BY <2>5, <3>2
  <2>8. f[h] # InvalidPath
    BY <2>7, Nonempty DEF InvalidPath
  <2>9. ParsePath(s) = <<ContainerSegment(name)>> \o f[h]
    <3>1. 1 \in 1..Len(s) + 1
      BY <2>5
    <3>2. f[1] = ParseAt(f, s, 1)
      BY <2>4, <3>1
    <3>3. f[1] = <<ContainerSegment(name)>> \o f[h]
      BY <2>3, <2>8, <3>2, TargetParses, SMTT(20)
    <3> QED
      BY <2>4, <3>3
  <2>10. ParsePath(s) = <<ContainerSegment(name)>> \o (<<Plain(a)>> \o <<Plain(k)>>)
    BY <2>7, <2>9
  <2> QED
    BY <2>10, <2>2, PathOfTwo DEF F, a
<1>8. LET path == ParsePath(r \o <<a, ".", k, ".", l>>)
      IN  IsPath(path, name) /\ Len(path) = 4 /\ path[3] = Plain(k) /\ path[4] = Plain(l)
  <2> DEFINE F == <<a, ".", k, ".", l>>
  <2>1. F \in Seq(S) /\ Len(F) = 5 /\ F[1] = a /\ F[2] = "." /\ F[3] = k /\ F[4] = "." /\ F[5] = l
    BY <1>2
  <2> HIDE DEF F
  <2>2. PICK s : s = r \o F
    OBVIOUS
  <2>3. /\ s \in Seq(S) /\ Len(s) = m + Len(F)
        /\ StartsWithTarget(s, name, m, h)
        /\ \A i \in 1..Len(F) : s[m + i] = F[i]
    <3>1. Len(F) > 0
      BY <2>1
    <3> QED
      BY <1>6, <2>1, <2>2, <3>1
  <2>4. PICK f : ParsePath(s) = f[1] /\ \A p \in 1..Len(s) + 1 : f[p] = ParseAt(f, s, p)
    BY <2>3, ParsePathIs
  <2>5. s[h] = a /\ s[h + 1] = "." /\ s[h + 2] = k /\ s[h + 3] = "." /\ s[h + 4] = l /\ h + 4 = Len(s) /\ h >= 1
    <3>1. m + 1 = h /\ m + 2 = h + 1 /\ m + 3 = h + 2 /\ m + 4 = h + 3 /\ m + 5 = h + 4
      BY <1>n
    <3> QED
      BY <1>n, <2>1, <2>3, <3>1
  <2>6. f[h] = ParseAt(f, s, h) /\ f[h + 2] = ParseAt(f, s, h + 2) /\ f[h + 4] = ParseAt(f, s, h + 4)
    BY <2>4, <2>5
  <2>7. f[h] = <<Plain(a)>> \o (<<Plain(k)>> \o <<Plain(l)>>)
    <3>1. IsName(s[h]) /\ IsName(s[h + 2]) /\ IsName(s[h + 4])
      BY <2>5 DEF a
    <3>2. f[h] = <<Plain(s[h])>> \o (<<Plain(s[h + 2])>> \o <<Plain(s[h + 4])>>)
      BY <2>3, <2>5, <2>6, <3>1, ThreeNames
    <3> QED
      BY <2>5, <3>2
  <2>8. f[h] # InvalidPath
    BY <2>7, PathOfThree DEF InvalidPath
  <2>9. ParsePath(s) = <<ContainerSegment(name)>> \o f[h]
    <3>1. 1 \in 1..Len(s) + 1
      BY <2>5
    <3>2. f[1] = ParseAt(f, s, 1)
      BY <2>4, <3>1
    <3>3. f[1] = <<ContainerSegment(name)>> \o f[h]
      BY <2>3, <2>8, <3>2, TargetParses, SMTT(20)
    <3> QED
      BY <2>4, <3>3
  <2>10. ParsePath(s) = <<ContainerSegment(name)>> \o (<<Plain(a)>> \o (<<Plain(k)>> \o <<Plain(l)>>))
    BY <2>7, <2>9
  <2> QED
    <3>1. LET p == <<ContainerSegment(name)>> \o (<<Plain(a)>> \o (<<Plain(k)>> \o <<Plain(l)>>))
          IN  IsPath(p, name) /\ Len(p) = 4 /\ p[3] = Plain(k) /\ p[4] = Plain(l)
      BY PathOfThree DEF a
    <3> QED
      BY <2>2, <2>10, <3>1 DEF F
<1> QED
  BY <1>7, <1>8 DEF r, target, a

\* Every plan of a rule is one: its operations apply below one container each, in
\* places of which none is part of another.
PlanOK(pl, name) ==
  /\ DOMAIN pl = 1..Len(pl) /\ Len(pl) \in {1, 2}
  /\ \A i \in DOMAIN pl : pl[i].op \in {"set", "add"} /\ IsPath(pl[i].path, name)
  /\ \A i, j \in DOMAIN pl : i # j => pl[i].path[3] # pl[j].path[3]

LEMMA CompiledIs ==
  ASSUME NEW rule \in DOMAIN Fixes, NEW name
  PROVE  LET pl == Compiled(Plan(rule, name))
         IN  /\ DOMAIN pl = DOMAIN Fixes[rule] /\ Len(pl) = Len(Fixes[rule])
             /\ \A i \in DOMAIN Fixes[rule] :
                  /\ pl[i].op = Fixes[rule][i].op
                  /\ pl[i].path = ParsePath(PlanTarget(name) \o <<".">> \o Fixes[rule][i].path)
<1> DEFINE f == Fixes[rule]
           pl == Compiled(Plan(rule, name))
<1>1. /\ f = [i \in DOMAIN f |-> f[i]] /\ DOMAIN f = 1..Len(f) /\ Len(f) \in {1, 2}
      /\ \A i \in DOMAIN f : f[i] = [op |-> f[i].op, path |-> f[i].path, value |-> f[i].value]
  BY SMTT(20) DEF Fixes
<1> HIDE DEF f
<1>2. /\ pl = [i \in DOMAIN f |-> pl[i]]
      /\ \A i \in DOMAIN f : /\ pl[i].op = f[i].op
                            /\ pl[i].path = ParsePath(PlanTarget(name) \o <<".">> \o f[i].path)
  <2> DEFINE g == Plan(rule, name)
  <2>1. g = [i \in DOMAIN f |-> [f[i] EXCEPT !.path = PlanTarget(name) \o <<".">> \o f[i].path]]
    BY DEF Plan, f
  <2>2. DOMAIN g = DOMAIN f
    BY <2>1
  <2>3. pl = [i \in DOMAIN g |-> [g[i] EXCEPT !.path = ParsePath(g[i].path)]]
    BY DEF Compiled
  <2> HIDE DEF g, pl
  <2>4. ASSUME NEW i \in DOMAIN f
        PROVE  /\ pl[i].op = f[i].op
               /\ pl[i].path = ParsePath(PlanTarget(name) \o <<".">> \o f[i].path)
    <3>1. PICK o, x, v : f[i] = [op |-> o, path |-> x, value |-> v]
      BY <1>1
    <3>2. PICK y : y = PlanTarget(name) \o <<".">> \o x
      OBVIOUS
    <3>3. f[i].op = o /\ f[i].path = x
      BY <3>1
    <3>4. g[i] = [[op |-> o, path |-> x, value |-> v] EXCEPT !.path = y]
      BY <2>1, <3>1, <3>2, <3>3
    <3>5. g[i].path = y /\ g[i] = [op |-> o, path |-> y, value |-> v]
      BY <3>4
    <3>6. pl[i] = [[op |-> o, path |-> y, value |-> v] EXCEPT !.path = ParsePath(y)]
      BY <2>2, <2>3, <3>5
    <3> QED
      BY <3>2, <3>3, <3>6
  <2>5. pl = [i \in DOMAIN f |-> pl[i]]
    BY <2>2, <2>3
  <2> QED
    BY <2>4, <2>5
<1> HIDE DEF pl
<1>3. DOMAIN pl = 1..Len(f)
  BY <1>1, <1>2
<1>4. Len(pl) = Len(f)
  <2> DEFINE S == {pl[i] : i \in DOMAIN f}
  <2>1. pl \in [1..Len(f) -> S]
    BY <1>1, <1>2
  <2> HIDE DEF S
  <2>2. pl \in Seq(S)
    BY <1>1, <2>1, SeqDef
  <2> QED
    BY <1>1, <1>3, <2>2, LenProperties
<1> QED
  BY <1>1, <1>2, <1>3, <1>4 DEF f, pl

LEMMA PlanIs ==
  ASSUME IndexTexts, TextsOfPaths, NEW rule \in DOMAIN Fixes, NEW name \in Names
  PROVE  PlanOK(Compiled(Plan(rule, name)), name) /\ IsPlan(Compiled(Plan(rule, name)))
<1> DEFINE pl == Compiled(Plan(rule, name))
<1>1. rule \in {1, 2, 3}
  BY DEF Fixes
<1>2. /\ DOMAIN pl = DOMAIN Fixes[rule] /\ Len(pl) = Len(Fixes[rule])
      /\ \A i \in DOMAIN Fixes[rule] :
           /\ pl[i].op = Fixes[rule][i].op
           /\ pl[i].path = ParsePath(PlanTarget(name) \o <<".">> \o Fixes[rule][i].path)
  BY CompiledIs
<1> HIDE DEF pl
<1>3. /\ IsName("securityContext") /\ IsName("runAsNonRoot") /\ IsName("allowPrivilegeEscalation")
      /\ IsName("capabilities") /\ IsName("drop") /\ IsName("readOnlyRootFilesystem")
  BY DEF IsName, Punctuation
<1>4. {"securityContext", "runAsNonRoot", "allowPrivilegeEscalation", "capabilities", "drop",
       "readOnlyRootFilesystem"} \subseteq KeyTexts
  BY TokenTexts DEF KeyTexts
<1>5. PlanOK(pl, name)
  <2>1. CASE rule \in {1, 3}
    <3>1. PICK k \in {"runAsNonRoot", "readOnlyRootFilesystem"} :
            Fixes[rule] = <<[op |-> "set", path |-> <<"securityContext", ".", k>>, value |-> "true"]>>
      BY <2>1 DEF Fixes
    <3>2. DOMAIN Fixes[rule] = {1} /\ Len(Fixes[rule]) = 1
          /\ Fixes[rule][1] = [op |-> "set", path |-> <<"securityContext", ".", k>>, value |-> "true"]
      BY <3>1
    <3>3. pl[1].op = "set" /\ pl[1].path = ParsePath(PlanTarget(name) \o <<".">> \o <<"securityContext", ".", k>>)
      BY <1>2, <3>2
    <3>4. IsPath(pl[1].path, name)
      <4>1. k \in KeyTexts /\ IsName(k) /\ "securityContext" \in KeyTexts
        BY <1>3, <1>4, <3>1
      <4>2. IsPath(ParsePath(PlanTarget(name) \o <<".">> \o <<"securityContext", ".", k>>), name)
        BY <1>3, <4>1, PathParses
      <4> QED
        BY <3>3, <4>2
    <3> QED
      BY <1>2, <3>2, <3>3, <3>4 DEF PlanOK
  <2>2. CASE rule = 2
    <3> DEFINE a == "allowPrivilegeEscalation"
               b == "capabilities"
               c == "drop"
    <3>1. Fixes[rule] = <<[op |-> "set", path |-> <<"securityContext", ".", a>>, value |-> "false"],
                          [op |-> "add", path |-> <<"securityContext", ".", b, ".", c>>, value |-> "ALL"]>>
      BY <2>2 DEF Fixes
    <3> HIDE DEF a, b, c
    <3>2. /\ DOMAIN Fixes[rule] = {1, 2} /\ Len(Fixes[rule]) = 2 /\ 1..2 = {1, 2}
          /\ Fixes[rule][1].op = "set" /\ Fixes[rule][1].path = <<"securityContext", ".", a>>
          /\ Fixes[rule][2].op = "add" /\ Fixes[rule][2].path = <<"securityContext", ".", b, ".", c>>
      BY <3>1
    <3>3. /\ pl[1].op = "set" /\ pl[1].path = ParsePath(PlanTarget(name) \o <<".">> \o <<"securityContext", ".", a>>)
          /\ pl[2].op = "add"
          /\ pl[2].path = ParsePath(PlanTarget(name) \o <<".">> \o <<"securityContext", ".", b, ".", c>>)
      BY <1>2, <3>2
    <3>4. a \in KeyTexts /\ b \in KeyTexts /\ c \in KeyTexts /\ IsName(a) /\ IsName(b) /\ IsName(c) /\ a # b
      BY <1>3, <1>4 DEF a, b, c
    <3>5. "securityContext" \in KeyTexts
      BY <1>4
    <3>6. IsPath(pl[1].path, name) /\ pl[1].path[3] = Plain(a)
      <4>1. LET path == ParsePath(PlanTarget(name) \o <<".">> \o <<"securityContext", ".", a>>)
            IN  IsPath(path, name) /\ path[3] = Plain(a)
        BY <1>3, <3>4, <3>5, PathParses
      <4> QED
        BY <3>3, <4>1
    <3>7. IsPath(pl[2].path, name) /\ pl[2].path[3] = Plain(b)
      <4>1. LET path == ParsePath(PlanTarget(name) \o <<".">> \o <<"securityContext", ".", b, ".", c>>)
            IN  IsPath(path, name) /\ path[3] = Plain(b)
        BY <1>3, <3>4, <3>5, PathParses
      <4> QED
        BY <3>3, <4>1
    <3>8. Plain(a) # Plain(b)
      BY <3>4 DEF Plain, Segment
    <3> QED
      BY <1>2, <3>2, <3>3, <3>6, <3>7, <3>8 DEF PlanOK
  <2> QED
    BY <1>1, <2>1, <2>2
<1>6. IsPlan(pl)
  <2> SUFFICES ASSUME NEW i \in DOMAIN pl
               PROVE  pl[i].path # InvalidPath /\ Last(pl[i].path).sel.kind = "none"
    BY DEF IsPlan
  <2> DEFINE p == pl[i].path
  <2>1. IsPath(p, name)
    BY <1>5 DEF PlanOK
  <2> HIDE DEF p
  <2>2. p # << >>
    BY <2>1, EmptySeq DEF IsPath
  <2>3. Last(p) = p[Len(p)] /\ Len(p) \in 2..Len(p)
    BY <2>1 DEF IsPath, Last
  <2>4. p[Len(p)] = Plain(p[Len(p)].key)
    BY <2>1, <2>3 DEF IsPath
  <2>5. \A k : Plain(k).sel.kind = "none"
    BY DEF Plain, Segment, NoSelector
  <2>6. Last(p).sel.kind = "none"
    BY <2>3, <2>4, <2>5
  <2> QED
    BY <2>2, <2>6 DEF InvalidPath, p
<1> QED
  BY <1>5, <1>6 DEF pl

-----------------------------------------------------------------------------
(***************************************************************************)
(* The way from a container to what an operation is about: the keys of the *)
(* path behind the container's segment.                                    *)
(***************************************************************************)
KeysOf(path) == [i \in DOMAIN Tail(path) |-> Tail(path)[i].key]
Way(path, j) == SubSeq(KeysOf(path), 1, j)

LEMMA KeysAre ==
  ASSUME NEW path, NEW name, IsPath(path, name)
  PROVE  /\ KeysOf(path) \in Pos /\ Len(KeysOf(path)) = Len(path) - 1 /\ Len(KeysOf(path)) \in {2, 3}
         /\ \A j \in 1..Len(KeysOf(path)) : path[j + 1] = Plain(KeysOf(path)[j]) /\ KeysOf(path)[j] \in KeyTexts
         /\ KeysOf(path)[1] = "securityContext"
         /\ Len(path) \in {3, 4} /\ Len(path) = Len(KeysOf(path)) + 1
<1> DEFINE K == KeysOf(path)
           n == Len(path) - 1
<1>1. PICK S : path \in Seq(S)
  BY DEF IsPath
<1>2. Len(path) \in {3, 4} /\ path # << >>
  BY <1>1, EmptySeq DEF IsPath
<1>3. Tail(path) \in Seq(S) /\ Len(Tail(path)) = n /\ \A j \in 1..n : Tail(path)[j] = path[j + 1]
  BY <1>1, <1>2, HeadTailProperties
<1>4. n \in {2, 3}
  BY <1>2
<1>5. DOMAIN Tail(path) = 1..n
  BY <1>3, LenProperties
<1> HIDE DEF n
<1>6. K = [j \in 1..n |-> path[j + 1].key]
  BY <1>3, <1>5 DEF KeysOf
<1>7. ASSUME NEW j \in 1..n PROVE path[j + 1].key \in KeyTexts /\ path[j + 1] = Plain(path[j + 1].key)
  <2>1. j + 1 \in 2..Len(path)
    BY <1>4 DEF n
  <2> QED
    BY <2>1 DEF IsPath
<1>8. K \in Pos /\ Len(K) = n
  <2>1. K \in [1..n -> Texts]
    BY <1>6, <1>7 DEF KeyTexts
  <2> HIDE DEF K
  <2>2. K \in Seq(Texts)
    BY <1>4, <2>1, SeqDef
  <2>3. DOMAIN K = 1..n /\ DOMAIN K = 1..Len(K) /\ Len(K) \in Nat
    BY <2>1, <2>2, LenProperties
  <2> QED
    BY <1>4, <2>2, <2>3 DEF Pos
<1>9. K[1] = "securityContext"
  <2>1. path[2].key = "securityContext" /\ 1 \in 1..n /\ 1 + 1 = 2
    BY <1>4 DEF IsPath, Plain, Segment
  <2> QED
    BY <1>6, <2>1
<1> QED
  BY <1>2, <1>4, <1>6, <1>7, <1>8, <1>9 DEF n

LEMMA Ways ==
  ASSUME NEW path, NEW name, IsPath(path, name)
  PROVE  /\ Way(path, 0) = << >> /\ Way(path, Len(KeysOf(path))) = KeysOf(path)
         /\ Way(path, 1) = <<"securityContext">>
         /\ \A j \in 0..Len(KeysOf(path)) :
              /\ Way(path, j) \in Pos /\ Len(Way(path, j)) = j
              /\ IsPrefix(Way(path, j), KeysOf(path))
              /\ j > 0 => IsPrefix(<<"securityContext">>, Way(path, j))
         /\ \A j \in 0..Len(KeysOf(path)) - 1 : Way(path, j + 1) = Way(path, j) \o <<KeysOf(path)[j + 1]>>
<1> DEFINE K == KeysOf(path)
<1>1. K \in Pos /\ K \in Seq(Texts) /\ Len(K) \in {2, 3} /\ K[1] = "securityContext" /\ DOMAIN K = 1..Len(K)
      /\ Len(K) \in Nat
  BY KeysAre DEF Pos
<1>2. /\ Way(path, 0) = SubSeq(K, 1, 0) /\ Way(path, Len(K)) = SubSeq(K, 1, Len(K))
      /\ Way(path, 1) = SubSeq(K, 1, 1) /\ \A j : Way(path, j) = SubSeq(K, 1, j)
  BY DEF Way
<1> HIDE DEF K
<1>3. SubSeq(K, 1, 0) = << >> /\ SubSeq(K, 1, Len(K)) = K
  BY <1>1, SubSeqEmpty, SubSeqFull
<1>4. ASSUME NEW j \in 0..Len(K)
      PROVE  SubSeq(K, 1, j) \in Pos /\ Len(SubSeq(K, 1, j)) = j /\ \A i \in 1..j : SubSeq(K, 1, j)[i] = K[i]
  <2>1. \A i \in 1..j : K[i] \in Texts
    BY <1>1, ElementOfSeq
  <2>2. /\ SubSeq(K, 1, j) \in Seq(Texts)
        /\ Len(SubSeq(K, 1, j)) = IF 1 <= j THEN j - 1 + 1 ELSE 0
        /\ \A i \in 1..j - 1 + 1 : SubSeq(K, 1, j)[i] = K[1 + i - 1]
    BY <1>1, <2>1, SubSeqProperties
  <2>3. Len(SubSeq(K, 1, j)) = j
    BY <2>2
  <2>4. ASSUME NEW i \in 1..j PROVE SubSeq(K, 1, j)[i] = K[i]
    <3>1. i \in 1..j - 1 + 1 /\ 1 + i - 1 = i
      OBVIOUS
    <3> QED
      BY <2>2, <3>1
  <2> QED
    BY <2>2, <2>3, <2>4 DEF Pos
<1>5. ASSUME NEW j \in 0..Len(K) PROVE IsPrefix(SubSeq(K, 1, j), K)
  <2>1. j <= Len(K)
    OBVIOUS
  <2> QED
    BY <1>1, <1>4, <2>1, PrefixIs
<1>6. SubSeq(K, 1, 1) = <<"securityContext">> /\ <<"securityContext">> \in Pos
  <2> DEFINE a == "securityContext"
  <2>1. K[1] \in Texts /\ K[1] = a
    BY <1>1, ElementOfSeq
  <2> HIDE DEF a
  <2>2. <<a>> \in Seq(Texts) /\ Len(<<a>>) = 1 /\ <<a>>[1] = a
    BY <2>1, Singleton
  <2>3. 1 \in 0..Len(K) /\ 1 \in 1..1
    BY <1>1
  <2>4. SubSeq(K, 1, 1) \in Seq(Texts) /\ Len(SubSeq(K, 1, 1)) = 1 /\ SubSeq(K, 1, 1)[1] = a
    BY <1>4, <2>1, <2>3 DEF Pos
  <2>5. \A i \in 1..1 : SubSeq(K, 1, 1)[i] = <<a>>[i]
    <3>1. \A i \in 1..1 : i = 1
      OBVIOUS
    <3> QED
      BY <2>2, <2>4, <3>1
  <2>6. SubSeq(K, 1, 1) = <<a>>
    BY <2>2, <2>4, <2>5, SeqEqual
  <2> QED
    BY <2>2, <2>6 DEF a, Pos
<1>7. ASSUME NEW j \in 0..Len(K), j > 0 PROVE IsPrefix(<<"securityContext">>, SubSeq(K, 1, j))
  <2> DEFINE s == SubSeq(K, 1, j)
             r == SubSeq(K, 1, 1)
  <2>1. s \in Pos /\ Len(s) = j /\ \A i \in 1..j : s[i] = K[i]
    BY <1>4
  <2>2. 1 \in 0..Len(K)
    BY <1>1
  <2>3. r \in Pos /\ Len(r) = 1 /\ \A i \in 1..1 : r[i] = K[i]
    BY <1>4, <2>2
  <2> HIDE DEF s, r
  <2>4. Len(r) <= Len(s) /\ \A i \in 1..Len(r) : r[i] = s[i]
    BY <1>7, <2>1, <2>3
  <2>5. IsPrefix(r, s)
    BY <2>1, <2>3, <2>4, PrefixIs
  <2> QED
    BY <1>6, <2>5 DEF r, s
<1>8. ASSUME NEW j \in 0..Len(K) - 1 PROVE SubSeq(K, 1, j + 1) = SubSeq(K, 1, j) \o <<K[j + 1]>>
  <2>1. 1 \in 1..Len(K) /\ j + 1 \in 1..Len(K) /\ (j + 1) - 1 = j /\ j + 1 \in 0 + 1..Len(K)
    BY <1>1
  <2>2. SubSeq(K, 1, j + 1) = SubSeq(K, 1, (j + 1) - 1) \o <<K[j + 1]>>
    <3>1. PICK m \in Nat : m = j + 1
      BY <2>1
    <3>2. 1 \in 1..Len(K) /\ m \in 1..Len(K) /\ K \in Seq(Texts)
      BY <1>1, <2>1, <3>1
    <3>3. SubSeq(K, 1, m) = SubSeq(K, 1, m - 1) \o <<K[m]>>
      BY <3>2, SubSeqRecursiveSecond
    <3> QED
      BY <3>1, <3>3
  <2> QED
    BY <2>1, <2>2
<1> QED
  BY <1>1, <1>2, <1>3, <1>4, <1>5, <1>6, <1>7, <1>8 DEF K

LEMMA PathKey ==
  ASSUME NEW path, NEW name, IsPath(path, name)
  PROVE  "securityContext" \in KeyTexts
<1> DEFINE K == KeysOf(path)
<1>1. 1 \in 1..Len(K)
  BY KeysAre
<1>2. K[1] \in KeyTexts /\ K[1] = "securityContext"
  BY <1>1, KeysAre
<1> HIDE DEF K
<1> QED
  BY <1>2

\* Where operation o applies in container c.
Goal(c, o) == c \o KeysOf(o.path)

LEMMA GoalIs ==
  ASSUME NEW o, NEW name, IsPath(o.path, name), NEW c \in Pos
  PROVE  /\ KeysOf(o.path) \in Pos /\ Goal(c, o) \in Pos
         /\ IsPrefix(c, Goal(c, o)) /\ Len(Goal(c, o)) = Len(c) + Len(KeysOf(o.path))
<1> DEFINE keys == KeysOf(o.path)
<1>1. keys \in Pos
  BY KeysAre
<1> HIDE DEF keys
<1>2. c \o keys \in Pos /\ IsPrefix(c, c \o keys) /\ Len(c \o keys) = Len(c) + Len(keys)
  BY <1>1, PrefixSplit, UnderSite
<1> QED
  BY <1>1, <1>2 DEF keys, Goal

\* Operations on different containers, or of different kinds, meet nowhere.
LEMMA GoalsApart ==
  ASSUME NEW pl, NEW name, PlanOK(pl, name), NEW i \in DOMAIN pl, NEW j \in DOMAIN pl,
         NEW c \in Pos, NEW e \in Pos, Len(c) = Len(e), NEW p \in Pos,
         IsPrefix(Goal(c, pl[i]), p), IsPrefix(Goal(e, pl[j]), p)
  PROVE  c = e /\ i = j
<1> DEFINE a == Goal(c, pl[i])
           b == Goal(e, pl[j])
           k == KeysOf(pl[i].path)
           l == KeysOf(pl[j].path)
<1> IsPath(pl[i].path, name) /\ IsPath(pl[j].path, name)
  BY DEF PlanOK
<1>1. a = c \o k /\ a \in Pos /\ IsPrefix(c, a) /\ k \in Pos /\ Len(a) = Len(c) + Len(k)
  BY GoalIs DEF Goal
<1>2. b = e \o l /\ b \in Pos /\ IsPrefix(e, b) /\ l \in Pos /\ Len(b) = Len(e) + Len(l)
  BY GoalIs DEF Goal
<1>3. /\ Len(k) \in {2, 3} /\ pl[i].path[3] = Plain(k[2])
      /\ Len(l) \in {2, 3} /\ pl[j].path[3] = Plain(l[2])
  <2>1. /\ Len(k) \in {2, 3} /\ \A n \in 1..Len(k) : pl[i].path[n + 1] = Plain(k[n])
        /\ Len(l) \in {2, 3} /\ \A n \in 1..Len(l) : pl[j].path[n + 1] = Plain(l[n])
    BY <1>1, <1>2, KeysAre
  <2> HIDE DEF k, l
  <2>2. ASSUME NEW n \in {2, 3} PROVE 2 \in 1..n
    OBVIOUS
  <2>3. 2 \in 1..Len(k) /\ 2 \in 1..Len(l)
    BY <2>1, <2>2
  <2>4. pl[i].path[2 + 1] = Plain(k[2]) /\ pl[j].path[2 + 1] = Plain(l[2])
    BY <2>1, <2>3
  <2> QED
    BY <2>1, <2>4
<1> HIDE DEF a, b, k, l
<1>4. IsPrefix(c, p) /\ IsPrefix(e, p) /\ IsPrefix(a, p) /\ IsPrefix(b, p)
  <2>1. IsPrefix(a, p) /\ IsPrefix(b, p)
    BY DEF a, b
  <2> QED
    BY <1>1, <1>2, <2>1, PrefixOrder
<1>5. c = e
  <2>1. Len(c) \in Nat /\ \A n \in 1..Len(c) : c[n] = p[n] /\ e[n] = p[n]
    BY <1>4, PrefixIs DEF Pos
  <2> QED
    BY <2>1, SeqEqual DEF Pos
<1>6. a[Len(c) + 2] = k[2] /\ b[Len(c) + 2] = l[2]
  <2>1. PICK n \in Nat : n = Len(c) + 2
    BY DEF Pos
  <2>2. \A m \in 1..Len(c) + Len(k) : a[m] = IF m <= Len(c) THEN c[m] ELSE k[m - Len(c)]
    BY <1>1, ConcatProperties DEF Pos
  <2>3. \A m \in 1..Len(e) + Len(l) : b[m] = IF m <= Len(e) THEN e[m] ELSE l[m - Len(e)]
    BY <1>2, ConcatProperties DEF Pos
  <2>4. n \in 1..Len(c) + Len(k) /\ n \in 1..Len(e) + Len(l) /\ ~(n <= Len(c)) /\ n - Len(c) = 2
        /\ Len(c) \in Nat
    <3>1. Len(c) \in Nat /\ Len(k) >= 2 /\ Len(l) >= 2 /\ Len(k) \in Nat /\ Len(l) \in Nat
      BY <1>3 DEF Pos
    <3> QED
      BY <2>1, <3>1
  <2> QED
    BY <1>5, <2>1, <2>2, <2>3, <2>4
<1>7. k[2] = l[2]
  <2>1. PICK n \in Nat : n = Len(c) + 2
    BY DEF Pos
  <2>2. n \in 1..Len(a) /\ n \in 1..Len(b)
    <3>1. Len(c) \in Nat /\ Len(k) >= 2 /\ Len(l) >= 2 /\ Len(k) \in Nat /\ Len(l) \in Nat
      BY <1>3 DEF Pos
    <3> QED
      BY <1>1, <1>2, <2>1, <3>1
  <2>3. a[n] = p[n] /\ b[n] = p[n]
    BY <1>1, <1>2, <1>4, <2>2, PrefixIs, ZenonT(30)
  <2> QED
    BY <1>6, <2>1, <2>3
<1> QED
  BY <1>3, <1>5, <1>7 DEF PlanOK

-----------------------------------------------------------------------------
(***************************************************************************)
(* What an edit does.  It is for a container c and an operation i; it adds *)
(* nothing but what is on the way to the target or behind it, replaces     *)
(* nothing but nulls and the target of a "set", and leaves the container   *)
(* as the operation wants it.                                              *)
(***************************************************************************)
DoneAt(t, at, o) ==
  /\ at \in DOMAIN t
  /\ o.op = "set" => t[at] = Scalar(o.value)
  /\ o.op = "add" => /\ t[at].kind = "list"
                     /\ \E k \in 0..MaxItems : /\ at \o <<ToString(k)>> \in DOMAIN t
                                               /\ t[at \o <<ToString(k)>>] = Scalar(o.value)

Effect(t, c, o, w, sub) ==
  /\ Site(t, w) /\ IsPart(sub)
  /\ IsPrefix(c \o <<"securityContext">>, w)
  /\ \A q \in DOMAIN sub :
       /\ sub[q].kind # "null"
       /\ \/ IsPrefix(w \o q, Goal(c, o))
          \/ o.op = "add" /\ IsPrefix(Goal(c, o), w \o q) /\ w \o q \notin DOMAIN t
  /\ w \in DOMAIN t /\ t[w].kind # "null" => o.op = "set" /\ w = Goal(c, o)
  /\ DoneAt(Graft(t, w, sub), Goal(c, o), o)

\* All on the way to a target are mappings.
LEMMA WayOfMappings ==
  ASSUME IndexTexts, NEW t, IsTree(t), NEW path, NEW name, IsPath(path, name), NEW c \in Pos,
         c \o KeysOf(path) \in DOMAIN t, NEW j \in 0..Len(KeysOf(path)) - 1
  PROVE  c \o Way(path, j) \in DOMAIN t /\ t[c \o Way(path, j)].kind = "map"
<1> DEFINE K == KeysOf(path)
           k == K[j + 1]
           n == c \o Way(path, j)
           v == c \o Way(path, j + 1)
<1>1. K \in Pos /\ Len(K) \in {2, 3} /\ k \in KeyTexts
  <2>1. j + 1 \in 1..Len(K)
    BY KeysAre
  <2> QED
    BY <2>1, KeysAre
<1>2. j \in 0..Len(K) /\ j + 1 \in 0..Len(K) /\ j \in Nat
  BY <1>1
<1>3. /\ Way(path, j) \in Pos /\ Way(path, j + 1) \in Pos /\ Len(Way(path, j)) = j
      /\ IsPrefix(Way(path, j), K) /\ IsPrefix(Way(path, j + 1), K)
      /\ Way(path, j + 1) = Way(path, j) \o <<k>>
  BY <1>2, Ways
<1> HIDE DEF K, k
<1>4. k \in Texts /\ \A m \in 0..MaxItems : ToString(m) # k
  BY <1>1 DEF KeyTexts
<1>5. /\ n \in Pos /\ v \in Pos /\ IsPrefix(n, c \o K) /\ IsPrefix(v, c \o K) /\ v = n \o <<k>>
  <2>1. c \in Seq(Texts) /\ Way(path, j) \in Seq(Texts) /\ <<k>> \in Seq(Texts)
    BY <1>3, <1>4, Singleton DEF Pos
  <2>2. (c \o Way(path, j)) \o <<k>> = c \o (Way(path, j) \o <<k>>)
    BY <2>1, ConcatAssociative, SMTT(30)
  <2> QED
    BY <1>1, <1>3, <2>2, PrefixSplit, UnderSite
<1> HIDE DEF n, v
<1>6. n \in DOMAIN t /\ v \in DOMAIN t
  BY <1>5, TreeClosed DEF K
<1>7. /\ Len(v) = Len(n) + 1 /\ IsPrefix(n, v) /\ Front(v) = n /\ Last(v) = k /\ v # << >>
  BY <1>4, <1>5, PrefixChild
<1>8. t[n].kind \in {"map", "list"}
  BY <1>6, <1>7, TreeNodes
<1>9. t[n].kind # "list"
  <2> SUFFICES ASSUME t[n].kind = "list" PROVE FALSE
    OBVIOUS
  <2>1. v \in Children(t, n)
    BY <1>6, <1>7 DEF Children
  <2>2. Children(t, n) = {n \o <<ToString(m)>> : m \in 0..Length(t, n) - 1} /\ Length(t, n) \in 0..MaxItems
    BY <1>6, ListLength
  <2>3. PICK m \in 0..Length(t, n) - 1 : v = n \o <<ToString(m)>>
    BY <2>1, <2>2
  <2>4. m \in 0..MaxItems
    <3>1. MaxItems \in Nat
      BY DEF IndexTexts
    <3> QED
      BY <2>2, <2>3, <3>1
  <2>5. ToString(m) \in Texts
    BY <2>4 DEF IndexTexts
  <2>6. Last(v) = ToString(m)
    BY <1>5, <2>3, <2>5, PrefixChild
  <2> QED
    BY <1>4, <1>7, <2>4, <2>6
<1> QED
  BY <1>6, <1>8, <1>9 DEF n

\* What is done stays so.
LEMMA DoneStays ==
  ASSUME IndexTexts, NEW pl, NEW name, PlanOK(pl, name), NEW t, IsTree(t),
         NEW i \in DOMAIN pl, NEW j \in DOMAIN pl, NEW c \in Pos, NEW e \in Pos, Len(c) = Len(e),
         NEW w, NEW sub, Effect(t, c, pl[i], w, sub), DoneAt(t, Goal(e, pl[j]), pl[j])
  PROVE  DoneAt(Graft(t, w, sub), Goal(e, pl[j]), pl[j])
<1> DEFINE a == Goal(c, pl[i])
           b == Goal(e, pl[j])
           u == Graft(t, w, sub)
<1>1. CASE c = e /\ i = j
  BY <1>1 DEF Effect
<1>2. CASE ~(c = e /\ i = j)
  <2>1. Site(t, w) /\ IsPart(sub) /\ w \in Pos /\ a \in Pos /\ b \in Pos
    <3>1. IsPath(pl[i].path, name) /\ IsPath(pl[j].path, name)
      BY DEF PlanOK
    <3> QED
      BY <3>1, GoalIs DEF Effect, Site
  <2>2. IsPrefix(w, a) \/ IsPrefix(a, w)
    <3>1. << >> \in DOMAIN sub /\ w \o << >> = w
      BY <2>1, ConcatEmptySeq DEF IsPart, IsTree, Pos
    <3> QED
      BY <3>1 DEF Effect
  <2>3. \A p \in Pos : ~(IsPrefix(a, p) /\ IsPrefix(b, p))
    BY <1>2, GoalsApart
  <2> HIDE DEF a, b
  <2>4. ASSUME NEW p \in DOMAIN t, IsPrefix(b, p) PROVE p \in DOMAIN u /\ u[p] = t[p]
    <3>1. p \in Pos
      BY TreeNodes
    <3>2. ~IsPrefix(w, p)
      <4> SUFFICES ASSUME IsPrefix(w, p) PROVE FALSE
        OBVIOUS
      <4>1. CASE IsPrefix(a, w)
        BY <2>1, <2>3, <2>4, <3>1, <4>1, PrefixOrder
      <4>2. CASE IsPrefix(w, a)
        <5>1. p = w
          BY <2>1, SiteAlone
        <5> QED
          BY <2>1, <2>3, <2>4, <4>2, <5>1, PrefixOrder
      <4> QED
        BY <2>2, <4>1, <4>2
    <3>3. DOMAIN t \subseteq Pos /\ DOMAIN sub \subseteq Pos
      BY <2>1 DEF IsPart, IsTree, Pos
    <3> QED
      BY <2>1, <3>1, <3>2, <3>3, GraftIs
  <2>5. b \in DOMAIN t
    BY DEF DoneAt, b
  <2>6. b \in DOMAIN u /\ u[b] = t[b]
    BY <2>1, <2>4, <2>5, PrefixOrder
  <2>7. ASSUME NEW k \in 0..MaxItems, b \o <<ToString(k)>> \in DOMAIN t
        PROVE  b \o <<ToString(k)>> \in DOMAIN u /\ u[b \o <<ToString(k)>>] = t[b \o <<ToString(k)>>]
    <3>1. ToString(k) \in Texts
      BY DEF IndexTexts
    <3>2. IsPrefix(b, b \o <<ToString(k)>>)
      BY <2>1, <3>1, PrefixChild
    <3> QED
      BY <2>4, <2>7, <3>2
  <2> QED
    <3>1. DoneAt(t, b, pl[j])
      BY DEF b
    <3>2. pl[j].op = "add" =>
            \E k \in 0..MaxItems : b \o <<ToString(k)>> \in DOMAIN u /\ u[b \o <<ToString(k)>>] = Scalar(pl[j].value)
      BY <2>7, <3>1 DEF DoneAt
    <3> HIDE DEF u
    <3>3. DoneAt(u, b, pl[j])
      BY <2>6, <3>1, <3>2 DEF DoneAt
    <3> QED
      BY <3>3 DEF u, b
<1> QED
  BY <1>1, <1>2

-----------------------------------------------------------------------------
(***************************************************************************)
(* Workloads and their containers.                                         *)
(***************************************************************************)
ContainersOf(t) == PodSpec(t) \o <<"containers">>
ItemOf(t, k) == ContainersOf(t) \o <<ToString(k)>>
IsList(t) == ContainersOf(t) \in DOMAIN t /\ t[ContainersOf(t)].kind = "list"
IsNamed(name, t, c) == c \o <<"name">> \in DOMAIN t /\ t[c \o <<"name">>] = Scalar(name)

\* The containers of t that have a name, all of them when it is "".
Selected(name, t) ==
  {c \in DOMAIN t : /\ Len(c) = Len(ContainersOf(t)) + 1 /\ IsPrefix(ContainersOf(t), c)
                    /\ name = "" \/ IsNamed(name, t, c)}

LEMMA WorkloadIs ==
  ASSUME TextsOfPaths, NEW t, IsTree(t), IsWorkload(t)
  PROVE  /\ PodSpec(t) \in Pos /\ PodSpec(t) \in DOMAIN t /\ t[PodSpec(t)].kind = "map"
         /\ Len(PodSpec(t)) \in Nat /\ Len(PodSpec(t)) > 0
         /\ ContainersOf(t) \in Pos /\ ContainersOf(t) # << >> /\ Front(ContainersOf(t)) = PodSpec(t)
         /\ Len(ContainersOf(t)) = Len(PodSpec(t)) + 1 /\ "containers" \in Texts
<1> DEFINE s == PodSpec(t)
<1>1. KindOf(t) \in Kinds /\ ToSet(s) \subseteq Texts
  BY DEF IsWorkload, TextsOfPaths, PodSpec
<1>2. s \in Seq(Texts) /\ Len(s) > 0
  <2>1. \/ s = <<"spec">> \/ s = <<"spec", "template", "spec">>
        \/ s = <<"spec", "jobTemplate", "spec", "template", "spec">>
    BY DEF PodSpec, PodSpecPath
  <2>2. CASE s = <<"spec">>
    <3>1. "spec" \in Texts
      BY <1>1, <2>2 DEF ToSet
    <3> QED
      BY <2>2, <3>1
  <2>3. CASE s = <<"spec", "template", "spec">>
    <3>1. "spec" \in Texts /\ "template" \in Texts
      BY <1>1, <2>3 DEF ToSet
    <3> QED
      BY <2>3, <3>1
  <2>4. CASE s = <<"spec", "jobTemplate", "spec", "template", "spec">>
    <3>1. "spec" \in Texts /\ "template" \in Texts /\ "jobTemplate" \in Texts
      BY <1>1, <2>4 DEF ToSet
    <3> QED
      BY <2>4, <3>1
  <2> QED
    BY <2>1, <2>2, <2>3, <2>4
<1>3. \A i \in DOMAIN s : SubSeq(s, 1, i) \in DOMAIN t /\ t[SubSeq(s, 1, i)].kind = "map"
  BY DEF IsWorkload
<1> HIDE DEF s
<1>4. Len(s) \in Nat /\ Len(s) \in DOMAIN s /\ SubSeq(s, 1, Len(s)) = s
  BY <1>2, LenProperties, SubSeqFull
<1>5. s \in DOMAIN t /\ t[s].kind = "map"
  BY <1>3, <1>4
<1>6. "containers" \in Texts
  BY TokenTexts
<1>7. s \o <<"containers">> \in Pos /\ s \o <<"containers">> # << >> /\ Front(s \o <<"containers">>) = s
      /\ Len(s \o <<"containers">>) = Len(s) + 1
  BY <1>2, <1>6, PrefixChild DEF Pos
<1> QED
  BY <1>2, <1>4, <1>5, <1>6, <1>7 DEF s, ContainersOf, Pos

LEMMA SelectedIs ==
  ASSUME IndexTexts, TextsOfPaths, NEW t, IsTree(t), IsWorkload(t), NEW name, NEW c \in Selected(name, t)
  PROVE  /\ c \in Pos /\ c \in DOMAIN t /\ Len(c) = Len(PodSpec(t)) + 2 /\ Len(c) \in Nat
         /\ IsPrefix(ContainersOf(t), c) /\ Front(c) = ContainersOf(t) /\ c # << >>
         /\ ContainersOf(t) \in DOMAIN t /\ t[ContainersOf(t)].kind \in {"map", "list"}
         /\ IsList(t) => \E k \in 0..Length(t, ContainersOf(t)) - 1 : c = ItemOf(t, k)
<1> DEFINE l == ContainersOf(t)
<1>1. c \in DOMAIN t /\ Len(c) = Len(l) + 1 /\ IsPrefix(l, c) /\ c \in Pos
  BY TreeNodes DEF Selected
<1>2. l \in Pos /\ Len(l) = Len(PodSpec(t)) + 1 /\ Len(PodSpec(t)) \in Nat
  BY WorkloadIs
<1> HIDE DEF l
<1>3. c # << >> /\ c # l
  BY <1>1, <1>2, EmptySeq DEF Pos
<1>4. Front(c) = l
  <2>1. Front(c) \in Pos /\ Len(Front(c)) = Len(l) /\ IsPrefix(l, Front(c)) /\ Len(l) \in Nat
    BY <1>1, <1>2, <1>3, PrefixFront
  <2>2. \A i \in 1..Len(l) : l[i] = Front(c)[i]
    BY <1>2, <2>1, PrefixIs
  <2> QED
    BY <1>2, <2>1, <2>2, SeqEqual DEF Pos
<1>5. l \in DOMAIN t /\ t[l].kind \in {"map", "list"}
  BY <1>1, <1>2, <1>3, TreeClosed
<1>6. ASSUME t[l].kind = "list" PROVE \E k \in 0..Length(t, l) - 1 : c = l \o <<ToString(k)>>
  <2>1. c \in Children(t, l)
    BY <1>1 DEF Children
  <2> QED
    BY <1>5, <1>6, <2>1, ListLength
<1> QED
  BY <1>1, <1>2, <1>3, <1>4, <1>5, <1>6 DEF l, IsList, ItemOf

\* An edit makes g of t.
Edited(t, c, o, w, sub, g) == Effect(t, c, o, w, sub) /\ g = Graft(t, w, sub)

\* What an edit leaves alone, and what it may change.
LEMMA EffectKeeps ==
  ASSUME IndexTexts, NEW t, IsTree(t), NEW c \in Pos, NEW o, NEW name, IsPath(o.path, name),
         NEW w, NEW sub, NEW g, Edited(t, c, o, w, sub, g)
  PROVE  /\ IsTree(g) /\ Aliases(g) = Aliases(t) /\ \A a \in Aliases(t) : g[a] = t[a]
         /\ \A p \in Pos : ~IsPrefix(c \o <<"securityContext">>, p) =>
              /\ p \in DOMAIN g <=> p \in DOMAIN t
              /\ p \in DOMAIN t => g[p] = t[p]
         /\ \A p \in DOMAIN t : p \in DOMAIN g /\ (g[p].kind = "null" => t[p].kind = "null")
         /\ \A p \in DOMAIN g : p \notin DOMAIN t \/ g[p] # t[p] =>
              \/ IsPrefix(p, Goal(c, o)) /\ Absent(t, p)
              \/ o.op = "set" /\ p = Goal(c, o)
              \/ o.op = "add" /\ IsPrefix(Goal(c, o), p) /\ p \notin DOMAIN t
<1> USE DEF Edited
<1> DEFINE a == Goal(c, o)
<1>1. /\ w \in Pos /\ Site(t, w) /\ IsPart(sub) /\ IsTree(sub) /\ DOMAIN sub \subseteq Pos /\ << >> \in DOMAIN sub
      /\ DOMAIN t \subseteq Pos /\ a \in Pos
  BY GoalIs DEF Effect, Site, IsPart, IsTree, Pos
<1> DEFINE x == c \o <<"securityContext">>
<1>2. x \in Pos /\ IsPrefix(x, w)
  <2>1. "securityContext" \in Texts
    BY KeysAre, PathKey DEF KeyTexts
  <2> QED
    BY <2>1, PrefixChild DEF Effect
<1>3. /\ \A q \in DOMAIN sub :
           /\ sub[q].kind # "null"
           /\ \/ IsPrefix(w \o q, a)
              \/ o.op = "add" /\ IsPrefix(a, w \o q) /\ w \o q \notin DOMAIN t
      /\ w \in DOMAIN t /\ t[w].kind # "null" => o.op = "set" /\ w = a
  BY DEF Effect
<1>4. /\ \A p \in Pos : ~IsPrefix(w, p) => /\ p \in DOMAIN g <=> p \in DOMAIN t
                                           /\ p \in DOMAIN t => g[p] = t[p]
      /\ \A q \in Pos : /\ w \o q \in DOMAIN g <=> q \in DOMAIN sub
                        /\ q \in DOMAIN sub => g[w \o q] = sub[q]
      /\ \A p \in DOMAIN g : IsPrefix(w, p) => Below(w, p) \in DOMAIN sub /\ p = w \o Below(w, p)
      /\ DOMAIN g \subseteq Pos
  BY <1>1, GraftIs
<1>5. IsTree(g) /\ Aliases(g) = Aliases(t) /\ \A b \in Aliases(t) : g[b] = t[b]
  BY <1>1, GraftTree
<1>6. w \o << >> = w
  BY <1>1, ConcatEmptySeq DEF Pos
<1>7. w \in DOMAIN g /\ g[w] = sub[<< >>]
  <2>1. << >> \in Pos
    BY DEF Pos
  <2> QED
    BY <1>1, <1>4, <1>6, <2>1
<1>8. \A p \in DOMAIN t : IsPrefix(w, p) => p = w
  BY <1>1, SiteAlone
<1> HIDE DEF a, x
<1>9. ASSUME NEW p \in Pos, ~IsPrefix(x, p)
      PROVE  ~IsPrefix(w, p)
  BY <1>1, <1>2, <1>9, PrefixOrder
<1>10. ASSUME NEW p \in DOMAIN t PROVE p \in DOMAIN g /\ (g[p].kind = "null" => t[p].kind = "null")
  <2>1. CASE IsPrefix(w, p)
    <3>1. p = w
      BY <1>8, <2>1
    <3> QED
      BY <1>1, <1>3, <1>7, <3>1
  <2>2. CASE ~IsPrefix(w, p)
    BY <1>1, <1>4, <2>2
  <2> QED
    BY <2>1, <2>2
<1>11. ASSUME NEW p \in DOMAIN g, p \notin DOMAIN t \/ g[p] # t[p]
       PROVE  \/ IsPrefix(p, a) /\ Absent(t, p)
              \/ o.op = "set" /\ p = a
              \/ o.op = "add" /\ IsPrefix(a, p) /\ p \notin DOMAIN t
  <2>1. IsPrefix(w, p)
    BY <1>4, <1>11
  <2>2. PICK q \in DOMAIN sub : p = w \o q
    BY <1>4, <2>1
  <2>3. \/ IsPrefix(p, a)
        \/ o.op = "add" /\ IsPrefix(a, p) /\ p \notin DOMAIN t
    BY <1>3, <2>2
  <2>4. CASE p \in DOMAIN t
    <3>1. p = w
      BY <1>8, <2>1, <2>4
    <3> QED
      BY <1>3, <2>3, <2>4, <3>1 DEF Absent
  <2>5. CASE p \notin DOMAIN t
    BY <2>3, <2>5 DEF Absent
  <2> QED
    BY <2>4, <2>5
<1> QED
  BY <1>4, <1>5, <1>9, <1>10, <1>11 DEF a, x

\* No edit changes which documents are workloads, or what their containers are.
LEMMA EffectKeepsContainers ==
  ASSUME IndexTexts, TextsOfPaths, NEW t, IsTree(t), IsWorkload(t), NEW name, NEW c \in Selected(name, t),
         NEW o, IsPath(o.path, name), NEW w, NEW sub, NEW g, Edited(t, c, o, w, sub, g)
  PROVE  /\ IsWorkload(g) /\ PodSpec(g) = PodSpec(t) /\ ContainersOf(g) = ContainersOf(t)
         /\ Selected(name, g) = Selected(name, t)
         /\ Length(g, ContainersOf(t)) = Length(t, ContainersOf(t))
         /\ ContainersOf(t) \in DOMAIN g /\ g[ContainersOf(t)] = t[ContainersOf(t)]
<1> DEFINE l == ContainersOf(t)
           x == c \o <<"securityContext">>
<1>1. /\ c \in Pos /\ c \in DOMAIN t /\ Len(c) \in Nat /\ l \in Pos /\ l \in DOMAIN t /\ Len(c) = Len(l) + 1
      /\ Len(PodSpec(t)) \in Nat /\ Len(l) = Len(PodSpec(t)) + 1 /\ PodSpec(t) \in Pos
  BY SelectedIs, WorkloadIs
<1>2. "securityContext" \in Texts /\ "name" \in Texts
  BY TokenTexts
<1>3. x \in Pos /\ Len(x) = Len(c) + 1 /\ Last(x) = "securityContext"
  BY <1>1, <1>2, PrefixChild
<1>4. /\ DOMAIN g \subseteq Pos /\ DOMAIN t \subseteq Pos
      /\ \A p \in Pos : ~IsPrefix(x, p) => /\ p \in DOMAIN g <=> p \in DOMAIN t
                                           /\ p \in DOMAIN t => g[p] = t[p]
  <2>1. IsTree(g) /\ \A p \in Pos : ~IsPrefix(x, p) => /\ p \in DOMAIN g <=> p \in DOMAIN t
                                                       /\ p \in DOMAIN t => g[p] = t[p]
    BY <1>1, EffectKeeps
  <2> QED
    BY <2>1 DEF IsTree, Pos
<1> HIDE DEF x, l
<1>5. ASSUME NEW p \in Pos, Len(p) <= Len(c)
      PROVE  /\ p \in DOMAIN g <=> p \in DOMAIN t
             /\ p \in DOMAIN t => g[p] = t[p]
  <2>1. ~IsPrefix(x, p)
    <3>1. Len(p) \in Nat
      BY DEF Pos
    <3> QED
      BY <1>1, <1>3, <1>5, <3>1, PrefixIs
  <2> QED
    BY <1>4, <2>1
<1>6. ASSUME NEW p \in Pos, Len(p) = Len(c)
      PROVE  p \o <<"name">> \in Pos /\ ~IsPrefix(x, p \o <<"name">>)
  <2>1. p \o <<"name">> \in Pos /\ Len(p \o <<"name">>) = Len(c) + 1 /\ Last(p \o <<"name">>) = "name"
    BY <1>2, <1>6, PrefixChild
  <2> DEFINE y == p \o <<"name">>
  <2> HIDE DEF y
  <2>2. ASSUME IsPrefix(x, y) PROVE FALSE
    <3>1. y \in Pos /\ Len(y) = Len(x) /\ Len(x) \in Nat
      BY <1>1, <1>3, <2>1 DEF y
    <3>2. \A i \in 1..Len(x) : x[i] = y[i]
      BY <1>3, <2>2, <3>1, PrefixIs
    <3>3. x = y
      BY <1>3, <3>1, <3>2, SeqEqual DEF Pos
    <3> QED
      BY <1>3, <2>1, <3>3 DEF y
  <2> QED
    BY <2>1, <2>2 DEF y
<1>7. KindOf(g) = KindOf(t) /\ g[<< >>] = t[<< >>]
  <2>1. << >> \in Pos /\ Len(<< >>) = 0 /\ << >> \in DOMAIN t
    BY DEF IsTree, Pos
  <2>2. g[<< >>] = t[<< >>]
    BY <1>1, <1>5, <2>1
  <2>3. ASSUME <<"kind">> \in DOMAIN t \/ <<"kind">> \in DOMAIN g
        PROVE  <<"kind">> \in DOMAIN t /\ <<"kind">> \in DOMAIN g /\ g[<<"kind">>] = t[<<"kind">>]
    <3>1. <<"kind">> \in Pos /\ Len(<<"kind">>) = 1
      BY <1>4, <2>3
    <3>2. Len(<<"kind">>) <= Len(c)
      BY <1>1, <3>1
    <3> QED
      BY <1>5, <2>3, <3>1, <3>2
  <2> QED
    BY <2>2, <2>3 DEF KindOf
<1>8. PodSpec(g) = PodSpec(t)
  BY <1>7 DEF PodSpec
<1>9. IsWorkload(g)
  <2>1. ASSUME NEW i \in DOMAIN PodSpec(t)
        PROVE  SubSeq(PodSpec(t), 1, i) \in DOMAIN g /\ g[SubSeq(PodSpec(t), 1, i)].kind = "map"
    <3> DEFINE at == SubSeq(PodSpec(t), 1, i)
    <3>1. at \in DOMAIN t /\ t[at].kind = "map"
      BY DEF IsWorkload
    <3>2. at \in Pos /\ Len(at) <= Len(c)
      <4>1. i \in 1..Len(PodSpec(t))
        BY <1>1 DEF Pos
      <4>2. Len(at) = i
        BY <1>1, <4>1 DEF Pos
      <4> QED
        BY <1>1, <1>4, <3>1, <4>1, <4>2
    <3> HIDE DEF at
    <3>3. at \in DOMAIN g /\ g[at] = t[at]
      BY <1>5, <3>1, <3>2
    <3> QED
      BY <3>1, <3>3 DEF at
  <2> QED
    BY <1>7, <1>8, <2>1 DEF IsWorkload
<1>10. ContainersOf(g) = l
  BY <1>8 DEF ContainersOf, l
<1>11. Children(g, l) = Children(t, l)
  <2>1. ASSUME NEW p, Len(p) = Len(l) + 1 PROVE p \in DOMAIN g <=> p \in DOMAIN t
    <3>1. Len(p) <= Len(c)
      BY <1>1, <2>1
    <3> QED
      BY <1>4, <1>5, <3>1
  <2> QED
    BY <2>1 DEF Children
<1>12. l \in DOMAIN g /\ g[l] = t[l]
  <2>1. Len(l) <= Len(c)
    BY <1>1
  <2> QED
    BY <1>1, <1>5, <2>1
<1>13. ASSUME NEW p, Len(p) = Len(l) + 1
       PROVE  p \in DOMAIN g /\ (name = "" \/ IsNamed(name, g, p)) <=> p \in DOMAIN t /\ (name = "" \/ IsNamed(name, t, p))
  <2>1. Len(p) = Len(c) /\ Len(p) <= Len(c)
    BY <1>1, <1>13
  <2>2. p \in DOMAIN g <=> p \in DOMAIN t
    BY <1>4, <1>5, <2>1
  <2>3. ASSUME p \in DOMAIN t PROVE IsNamed(name, g, p) <=> IsNamed(name, t, p)
    <3>1. p \o <<"name">> \in Pos /\ ~IsPrefix(x, p \o <<"name">>)
      BY <1>4, <1>6, <2>1, <2>3
    <3> QED
      BY <1>4, <3>1 DEF IsNamed
  <2> QED
    BY <2>2, <2>3
<1>14. Selected(name, g) = Selected(name, t)
  <2>1. \A p : p \in Selected(name, g) <=> p \in Selected(name, t)
    BY <1>10, <1>13 DEF Selected, l
  <2> QED
    BY <2>1
<1> QED
  BY <1>8, <1>9, <1>10, <1>11, <1>12, <1>14 DEF l, Length

-----------------------------------------------------------------------------
(***************************************************************************)
(* The calls of walk that are under way: one at the pod spec, one at the   *)
(* list of its containers, or one inside a container above that one.       *)
(***************************************************************************)
NodePath(path, j) == SubSeq(path, j + 2, Len(path))
KeysOn(path, j) == [i \in DOMAIN NodePath(path, j) |-> NodePath(path, j)[i].key]

LEMMA NodePathIs ==
  ASSUME NEW path, NEW name, IsPath(path, name), NEW j \in 0..Len(KeysOf(path))
  PROVE  /\ Len(NodePath(path, j)) = Len(KeysOf(path)) - j
         /\ DOMAIN NodePath(path, j) = 1..Len(KeysOf(path)) - j
         /\ \A i \in 1..Len(KeysOf(path)) - j :
              /\ NodePath(path, j)[i] = Plain(KeysOf(path)[j + i])
              /\ j + i \in 1..Len(KeysOf(path))
         /\ NodePath(path, j) = << >> <=> j = Len(KeysOf(path))
         /\ \E S : NodePath(path, j) \in Seq(S)
<1> DEFINE K == KeysOf(path)
<1>1. PICK S : path \in Seq(S)
  BY DEF IsPath
<1>2. /\ Len(K) \in {2, 3} /\ Len(path) = Len(K) + 1 /\ Len(path) \in {3, 4}
      /\ \A i \in 1..Len(K) : path[i + 1] = Plain(K[i])
  BY KeysAre
<1> HIDE DEF K
<1>3. PICK m \in Nat, n \in Nat : m = j + 2 /\ n = Len(path)
  <2>1. j \in Nat /\ j + 2 \in Nat
    BY <1>2 DEF K
  <2>2. Len(path) \in Nat
    BY <1>2
  <2> QED
    BY <2>1, <2>2
<1>4. Len(K) \in Nat /\ j \in Nat /\ j <= Len(K) /\ n = Len(K) + 1
  BY <1>2, <1>3 DEF K
<1>5. \A i \in m..n : path[i] \in S
  BY <1>1, <1>3, ElementOfSeq
<1>6. /\ SubSeq(path, m, n) \in Seq(S)
      /\ Len(SubSeq(path, m, n)) = IF m <= n THEN n - m + 1 ELSE 0
      /\ \A i \in 1..n - m + 1 : SubSeq(path, m, n)[i] = path[m + i - 1]
  BY <1>3, <1>5, SubSeqProperties
<1> DEFINE s == NodePath(path, j)
<1>7. s = SubSeq(path, m, n)
  BY <1>3 DEF NodePath
<1> HIDE DEF s
<1>8. Len(s) = Len(K) - j
  BY <1>3, <1>4, <1>6, <1>7
<1>9. s \in Seq(S) /\ DOMAIN s = 1..Len(K) - j
  BY <1>6, <1>7, <1>8, LenProperties
<1>10. ASSUME NEW i \in 1..Len(K) - j
       PROVE  s[i] = Plain(K[j + i]) /\ j + i \in 1..Len(K)
  <2>1. i \in 1..n - m + 1 /\ m + i - 1 = (j + i) + 1 /\ j + i \in 1..Len(K)
    BY <1>3, <1>4
  <2>2. s[i] = path[(j + i) + 1]
    BY <1>6, <1>7, <2>1
  <2> QED
    BY <1>2, <2>1, <2>2
<1>11. s = << >> <=> j = Len(K)
  BY <1>4, <1>8, <1>9, EmptySeq
<1> QED
  BY <1>8, <1>9, <1>10, <1>11 DEF s, K

LEMMA PathFrom ==
  ASSUME NEW path, NEW name, IsPath(path, name), NEW j \in 0..Len(KeysOf(path)) - 1
  PROVE  /\ NodePath(path, j) # << >>
         /\ NodePath(path, j)[1] = Plain(KeysOf(path)[j + 1])
         /\ Tail(NodePath(path, j)) = NodePath(path, j + 1)
         /\ \A i \in DOMAIN NodePath(path, j + 1) : NodePath(path, j + 1)[i].sel.kind = "none"
         /\ KeysOn(path, j + 1) \in Pos
         /\ NodePath(path, j + 1) # << >> => KeysOn(path, j + 1) # << >>
         /\ Way(path, j + 1) \o KeysOn(path, j + 1) = KeysOf(path)
<1> DEFINE K == KeysOf(path)
<1>1. K \in Pos /\ K \in Seq(Texts) /\ Len(K) \in {2, 3} /\ Len(K) \in Nat
  BY KeysAre DEF Pos
<1> HIDE DEF K
<1>2. j \in 0..Len(K) /\ j + 1 \in 0..Len(K) /\ j # Len(K) /\ 1 \in 1..Len(K) - j /\ j \in Nat
  BY <1>1 DEF K
<1> DEFINE s == NodePath(path, j)
           r == NodePath(path, j + 1)
<1>3. /\ Len(s) = Len(K) - j /\ s # << >> /\ \E S : s \in Seq(S)
      /\ \A i \in 1..Len(K) - j : s[i] = Plain(K[j + i])
  BY <1>2, NodePathIs DEF K
<1>4. PICK h : h = j + 1
  OBVIOUS
<1>5. h \in 0..Len(K) /\ h \in Nat
  BY <1>2, <1>4
<1>6. /\ Len(r) = Len(K) - h /\ (r = << >> <=> h = Len(K)) /\ \E S : r \in Seq(S)
      /\ DOMAIN r = 1..Len(K) - h
      /\ \A i \in 1..Len(K) - h : r[i] = Plain(K[h + i]) /\ h + i \in 1..Len(K)
  <2>1. r = NodePath(path, h)
    BY <1>4
  <2> HIDE DEF r
  <2> QED
    BY <1>5, <2>1, NodePathIs DEF K
<1> HIDE DEF s, r
<1>7. s[1] = Plain(K[j + 1])
  BY <1>2, <1>3
<1>8. Tail(s) = r
  <2>1. PICK S, R : s \in Seq(S) /\ r \in Seq(R)
    BY <1>3, <1>6
  <2>2. Tail(s) \in Seq(S) /\ Len(Tail(s)) = Len(s) - 1 /\ \A i \in 1..Len(Tail(s)) : Tail(s)[i] = s[i + 1]
    BY <1>3, <2>1, HeadTailProperties
  <2>3. Tail(s) \in Seq(S \cup R) /\ r \in Seq(S \cup R)
    BY <2>1, <2>2, SeqGrows
  <2>4. Len(Tail(s)) = Len(r)
    BY <1>1, <1>2, <1>3, <1>4, <1>6, <2>2
  <2>5. ASSUME NEW i \in 1..Len(Tail(s)) PROVE Tail(s)[i] = r[i]
    <3>1. i \in 1..Len(K) - h /\ i + 1 \in 1..Len(K) - j /\ j + (i + 1) = h + i
      BY <1>1, <1>2, <1>4, <1>5, <1>6, <2>4
    <3>2. Tail(s)[i] = s[i + 1]
      BY <2>2
    <3>3. s[i + 1] = Plain(K[h + i])
      BY <1>3, <3>1
    <3>4. r[i] = Plain(K[h + i])
      BY <1>6, <3>1
    <3> QED
      BY <3>2, <3>3, <3>4
  <2> QED
    BY <2>3, <2>4, <2>5, SeqEqual
<1>9. ASSUME NEW i \in DOMAIN r PROVE r[i].sel.kind = "none"
  <2>1. PICK x : r[i] = Plain(x)
    BY <1>6
  <2>2. Plain(x).sel.kind = "none"
    BY DEF Plain, Segment, NoSelector
  <2> QED
    BY <2>1, <2>2
<1> DEFINE k == [i \in DOMAIN r |-> r[i].key]
<1>10. k \in Pos /\ k = SubSeq(K, h + 1, Len(K)) /\ Len(k) = Len(K) - h
  <2>1. PICK m \in Nat, n \in Nat : m = h + 1 /\ n = Len(K)
    BY <1>1, <1>5
  <2>2. \A i \in m..n : K[i] \in Texts
    BY <1>1, <1>5, <2>1, ElementOfSeq
  <2>3. /\ SubSeq(K, m, n) \in Seq(Texts)
        /\ Len(SubSeq(K, m, n)) = IF m <= n THEN n - m + 1 ELSE 0
        /\ \A i \in 1..n - m + 1 : SubSeq(K, m, n)[i] = K[m + i - 1]
    BY <2>1, <2>2, SubSeqProperties
  <2>4. Len(SubSeq(K, m, n)) = Len(K) - h
    BY <1>1, <1>5, <2>1, <2>3
  <2>5. DOMAIN k = 1..Len(K) - h /\ \A i \in 1..Len(K) - h : k[i] = K[h + i] /\ K[h + i] \in Texts
    <3>1. \A i \in 1..Len(K) - h : k[i] = K[h + i]
      BY <1>6 DEF Plain, Segment
    <3>2. \A i \in 1..Len(K) - h : K[h + i] \in Texts
      BY <1>1, <1>6, ElementOfSeq
    <3> QED
      BY <1>6, <3>1, <3>2
  <2>6. k \in Seq(Texts) /\ Len(k) = Len(K) - h
    <3> Len(K) - h \in Nat
      BY <1>1, <1>5
    <3>1. PICK q \in Nat : q = Len(K) - h
      OBVIOUS
    <3>2. k \in [1..q -> Texts]
      BY <2>5, <3>1
    <3> HIDE DEF k
    <3>3. k \in Seq(Texts)
      BY <3>2, SeqDef
    <3>4. DOMAIN k = 1..q /\ DOMAIN k = 1..Len(k) /\ Len(k) \in Nat
      BY <3>2, <3>3, LenProperties
    <3> QED
      BY <3>1, <3>3, <3>4
  <2> HIDE DEF k
  <2>7. ASSUME NEW i \in 1..Len(k) PROVE k[i] = SubSeq(K, m, n)[i]
    <3>1. i \in 1..n - m + 1 /\ m + i - 1 = h + i /\ i \in 1..Len(K) - h
      BY <1>1, <1>5, <2>1, <2>6
    <3> QED
      BY <2>3, <2>5, <3>1
  <2>8. k = SubSeq(K, m, n)
    BY <2>3, <2>4, <2>6, <2>7, SeqEqual
  <2> QED
    BY <2>1, <2>6, <2>8 DEF Pos
<1>11. KeysOn(path, j + 1) = k
  BY DEF KeysOn, r
<1> HIDE DEF k
<1>12. SubSeq(K, 1, h) \o k = K
  <2>1. 1 \in 1..Len(K) + 1 /\ h \in 1 - 1..Len(K) /\ Len(K) \in h..Len(K)
    BY <1>1, <1>5
  <2>2. SubSeq(K, 1, h) \o SubSeq(K, h + 1, Len(K)) = SubSeq(K, 1, Len(K))
    <3>1. PICK m \in Nat : m = 1
      OBVIOUS
    <3>2. PICK n \in Nat : n = Len(K)
      BY <1>1
    <3>3. m \in 1..Len(K) + 1 /\ h \in m - 1..Len(K) /\ n \in h..Len(K)
      BY <1>1, <2>1, <3>1, <3>2
    <3>4. SubSeq(K, m, h) \o SubSeq(K, h + 1, n) = SubSeq(K, m, n)
      BY <1>1, <3>3, ConcatAdjacentSubSeq
    <3> QED
      BY <3>1, <3>2, <3>4
  <2> QED
    BY <1>1, <1>10, <2>2, SubSeqFull
<1>13. r # << >> => k # << >>
  BY <1>1, <1>5, <1>6, <1>10, EmptySeq DEF Pos
<1> QED
  BY <1>3, <1>4, <1>7, <1>8, <1>9, <1>10, <1>11, <1>12, <1>13 DEF s, r, K, Way

-----------------------------------------------------------------------------
(***************************************************************************)
(* The edits of a call inside a container.                                 *)
(***************************************************************************)
LeafOf(o) ==
  IF o.op = "add" THEN Graft(Sole(Node("list")), <<ToString(0)>>, Sole(Scalar(o.value)))
  ELSE Sole(Scalar(o.value))

LEMMA SoleIs ==
  ASSUME NEW node
  PROVE  DOMAIN Sole(node) = {<< >>} /\ Sole(node)[<< >>] = node /\ << >> \in Pos
  BY EmptySeq DEF Sole, Pos

LEMMA LeafIs ==
  ASSUME IndexTexts, NEW o, o.op \in {"set", "add"}
  PROVE  /\ IsPart(LeafOf(o)) /\ << >> \in DOMAIN LeafOf(o) /\ DOMAIN LeafOf(o) \subseteq Pos
         /\ \A q \in DOMAIN LeafOf(o) : LeafOf(o)[q].kind # "null" /\ (q = << >> \/ o.op = "add")
         /\ o.op = "set" => LeafOf(o)[<< >>] = Scalar(o.value)
         /\ o.op = "add" => /\ LeafOf(o)[<< >>].kind = "list" /\ <<ToString(0)>> \in DOMAIN LeafOf(o)
                            /\ LeafOf(o)[<<ToString(0)>>] = Scalar(o.value)
<1> DEFINE s == Sole(Scalar(o.value))
<1>1. /\ DOMAIN s = {<< >>} /\ s[<< >>] = Scalar(o.value) /\ << >> \in Pos /\ IsPart(s)
      /\ Scalar(o.value).kind = "scalar"
  BY SoleIs, ScalarPart DEF Scalar
<1> HIDE DEF s
<1>2. CASE o.op = "set"
  <2>1. LeafOf(o) = s
    BY <1>2 DEF LeafOf, s
  <2>2. \A q \in DOMAIN s : q = << >> /\ s[q].kind # "null"
    BY <1>1
  <2> QED
    BY <1>1, <1>2, <2>1, <2>2
<1>3. CASE o.op = "add"
  <2> DEFINE l == Sole(Node("list"))
             k == <<ToString(0)>>
             g == Graft(l, k, s)
  <2>1. DOMAIN l = {<< >>} /\ l[<< >>] = Node("list") /\ Node("list").kind = "list"
    BY SoleIs DEF Node
  <2>2. k \in Pos /\ Len(k) = 1
    <3>1. ToString(0) \in Texts
      BY DEF IndexTexts
    <3> QED
      BY <3>1, Singleton DEF Pos
  <2>3. LeafOf(o) = g /\ IsPart(g)
    BY <1>3, ListPart DEF LeafOf, s
  <2> HIDE DEF l, k
  <2>4. /\ \A p \in Pos : ~IsPrefix(k, p) => /\ p \in DOMAIN g <=> p \in DOMAIN l
                                             /\ p \in DOMAIN l => g[p] = l[p]
        /\ \A q \in Pos : /\ k \o q \in DOMAIN g <=> q \in DOMAIN s
                          /\ q \in DOMAIN s => g[k \o q] = s[q]
        /\ \A p \in DOMAIN g : IsPrefix(k, p) => Below(k, p) \in DOMAIN s /\ p = k \o Below(k, p)
        /\ DOMAIN g \subseteq Pos
    BY <1>1, <2>1, <2>2, GraftIs
  <2> HIDE DEF g
  <2>5. k \o << >> = k
    BY <2>2, ConcatEmptySeq DEF Pos
  <2>6. k \in DOMAIN g /\ g[k] = Scalar(o.value)
    BY <1>1, <2>4, <2>5
  <2>7. ~IsPrefix(k, << >>)
    BY <1>1, <2>2, EmptySeq, PrefixIs
  <2>8. << >> \in DOMAIN g /\ g[<< >>].kind = "list"
    BY <1>1, <2>1, <2>4, <2>7
  <2>9. ASSUME NEW q \in DOMAIN g PROVE g[q].kind # "null"
    <3>1. CASE IsPrefix(k, q)
      <4>1. q = k
        BY <1>1, <2>4, <2>5, <3>1
      <4> QED
        BY <1>1, <2>6, <4>1
    <3>2. CASE ~IsPrefix(k, q)
      <4>1. q = << >>
        BY <2>1, <2>4, <3>2
      <4> QED
        BY <2>8, <4>1
    <3> QED
      BY <3>1, <3>2
  <2> QED
    BY <1>3, <2>3, <2>4, <2>6, <2>8, <2>9 DEF k
<1> QED
  BY <1>2, <1>3

\* The node at q of the nested mappings is one of them, or one of the leaf.
NestedNode(keys, leaf, q) ==
  \/ q \in Pos /\ IsPrefix(q, keys) /\ Nested(keys, leaf)[q].kind = "map"
  \/ \E r \in DOMAIN leaf : q = keys \o r /\ Nested(keys, leaf)[q] = leaf[r]

LEMMA NestedIs ==
  ASSUME NEW keys \in Pos, NEW leaf, IsPart(leaf)
  PROVE  /\ \A q \in DOMAIN leaf : /\ keys \o q \in DOMAIN Nested(keys, leaf)
                                   /\ Nested(keys, leaf)[keys \o q] = leaf[q]
         /\ \A q \in DOMAIN Nested(keys, leaf) : NestedNode(keys, leaf, q)
<1> DEFINE D == {SubSeq(keys, 1, i) : i \in 0..Len(keys) - 1}
           t == [p \in D |-> Node("map")]
           g == Graft(t, keys, leaf)
<1>1. ASSUME NEW i \in 0..Len(keys) - 1
      PROVE  SubSeq(keys, 1, i) \in Pos /\ IsPrefix(SubSeq(keys, 1, i), keys)
  <2>1. Len(keys) \in Nat
    BY DEF Pos
  <2>2. i \in Int /\ i >= 0 /\ i <= Len(keys) /\ \A m \in 1..i : keys[m] \in Texts
    BY <2>1, ElementOfSeq DEF Pos
  <2>3. /\ SubSeq(keys, 1, i) \in Pos /\ Len(SubSeq(keys, 1, i)) = i
        /\ \A m \in 1..i : SubSeq(keys, 1, i)[m] = keys[m]
    BY <2>2, SubSeqProperties DEF Pos
  <2> QED
    BY <2>2, <2>3, PrefixIs
<1>2. \A p \in D : p \in Pos /\ IsPrefix(p, keys)
  BY <1>1
<1>3. DOMAIN t = D /\ \A p \in D : t[p] = Node("map")
  OBVIOUS
<1>4. DOMAIN leaf \subseteq Pos /\ g = Nested(keys, leaf) /\ Node("map").kind = "map"
  BY DEF IsPart, IsTree, Pos, Nested, Node
<1> HIDE DEF D, t, g
<1>5. /\ DOMAIN g \subseteq Pos
      /\ \A p \in Pos : ~IsPrefix(keys, p) => /\ p \in DOMAIN g <=> p \in DOMAIN t
                                              /\ p \in DOMAIN t => g[p] = t[p]
      /\ \A q \in Pos : /\ keys \o q \in DOMAIN g <=> q \in DOMAIN leaf
                        /\ q \in DOMAIN leaf => g[keys \o q] = leaf[q]
      /\ \A p \in DOMAIN g : IsPrefix(keys, p) => Below(keys, p) \in DOMAIN leaf /\ p = keys \o Below(keys, p)
  BY <1>2, <1>3, <1>4, GraftIs DEF g
<1>6. ASSUME NEW q \in DOMAIN g
      PROVE  \/ q \in Pos /\ IsPrefix(q, keys) /\ g[q].kind = "map"
             \/ \E r \in DOMAIN leaf : q = keys \o r /\ g[q] = leaf[r]
  <2>1. CASE IsPrefix(keys, q)
    <3>1. PICK r \in DOMAIN leaf : q = keys \o r
      BY <1>5, <2>1
    <3> QED
      BY <1>4, <1>5, <3>1
  <2>2. CASE ~IsPrefix(keys, q)
    BY <1>2, <1>3, <1>4, <1>5, <2>2
  <2> QED
    BY <2>1, <2>2
<1>7. \A q \in DOMAIN leaf : keys \o q \in DOMAIN g /\ g[keys \o q] = leaf[q]
  BY <1>4, <1>5
<1>8. \A q \in DOMAIN g : NestedNode(keys, leaf, q)
  BY <1>4, <1>6 DEF NestedNode
<1> QED
  BY <1>4, <1>7, <1>8

\* The way into a container.
LEMMA WayIs ==
  ASSUME NEW o, NEW name, IsPath(o.path, name), NEW c \in Pos, NEW j \in 0..Len(KeysOf(o.path))
  PROVE  /\ c \o Way(o.path, j) \in Pos /\ IsPrefix(c \o Way(o.path, j), Goal(c, o))
         /\ j > 0 => IsPrefix(c \o <<"securityContext">>, c \o Way(o.path, j))
         /\ c \o Way(o.path, 0) = c /\ c \o Way(o.path, Len(KeysOf(o.path))) = Goal(c, o)
         /\ j < Len(KeysOf(o.path)) =>
              /\ KeysOf(o.path)[j + 1] \in Texts
              /\ c \o Way(o.path, j + 1) = (c \o Way(o.path, j)) \o <<KeysOf(o.path)[j + 1]>>
<1> DEFINE K == KeysOf(o.path)
           w == Way(o.path, j)
<1>1. K \in Pos /\ Goal(c, o) = c \o K /\ Len(K) \in Nat /\ "securityContext" \in Texts
  BY KeysAre, PathKey DEF Goal, KeyTexts
<1>2. /\ w \in Pos /\ IsPrefix(w, K) /\ (j > 0 => IsPrefix(<<"securityContext">>, w))
      /\ Way(o.path, 0) = << >> /\ Way(o.path, Len(K)) = K
  BY Ways
<1>3. ASSUME j < Len(K) PROVE K[j + 1] \in Texts /\ Way(o.path, j + 1) = w \o <<K[j + 1]>>
  <2>1. j + 1 \in 1..Len(K) /\ j \in 0..Len(K) - 1
    BY <1>1, <1>3
  <2>2. K[j + 1] \in Texts
    BY <2>1, KeysAre DEF KeyTexts
  <2>3. Way(o.path, j + 1) = w \o <<K[j + 1]>>
    BY <2>1, Ways
  <2> QED
    BY <2>2, <2>3
<1> HIDE DEF K, w
<1>4. <<"securityContext">> \in Pos
  BY <1>1, Singleton DEF Pos
<1>5. c \o w \in Pos /\ IsPrefix(c \o w, c \o K)
  BY <1>1, <1>2, PrefixSplit, UnderSite
<1>6. j > 0 => IsPrefix(c \o <<"securityContext">>, c \o w)
  BY <1>2, <1>4, UnderSite
<1>7. c \o << >> = c
  BY ConcatEmptySeq DEF Pos
<1>8. ASSUME j < Len(K) PROVE c \o Way(o.path, j + 1) = (c \o w) \o <<K[j + 1]>>
  <2>1. c \in Seq(Texts) /\ w \in Seq(Texts) /\ <<K[j + 1]>> \in Seq(Texts)
    BY <1>2, <1>3, <1>8, Singleton DEF Pos
  <2>2. (c \o w) \o <<K[j + 1]>> = c \o (w \o <<K[j + 1]>>)
    BY <2>1, ConcatAssociative, SMTT(20)
  <2> QED
    BY <1>3, <1>8, <2>2
<1> QED
  BY <1>1, <1>2, <1>3, <1>5, <1>6, <1>7, <1>8 DEF K, w

\* A key of a mapping is a site if it has nothing but a scalar or null.
LEMMA KeySite ==
  ASSUME NEW t, NEW n \in Pos, n \in DOMAIN t, t[n].kind = "map", NEW k \in Texts,
         n \o <<k>> \in DOMAIN t => t[n \o <<k>>].kind \in {"scalar", "null"}
  PROVE  Site(t, n \o <<k>>)
<1>1. n \o <<k>> \in Pos /\ n \o <<k>> # << >> /\ Front(n \o <<k>>) = n
  BY PrefixChild
<1> QED
  BY <1>1 DEF Site

LEMMA PutEffect ==
  ASSUME IndexTexts, NEW t, IsTree(t), NEW o, NEW name, IsPath(o.path, name), o.op \in {"set", "add"},
         NEW c \in Pos, Site(t, Goal(c, o)),
         Goal(c, o) \in DOMAIN t /\ t[Goal(c, o)].kind # "null" => o.op = "set"
  PROVE  Effect(t, c, o, Goal(c, o), LeafOf(o))
<1> DEFINE w == Goal(c, o)
           sub == LeafOf(o)
           g == Graft(t, w, sub)
<1>1. w \in Pos /\ DOMAIN t \subseteq Pos
  BY GoalIs DEF IsTree, Pos
<1>2. IsPrefix(c \o <<"securityContext">>, w)
  <2>1. Len(KeysOf(o.path)) \in 0..Len(KeysOf(o.path)) /\ Len(KeysOf(o.path)) > 0
    BY KeysAre
  <2> QED
    BY <2>1, WayIs
<1>3. /\ IsPart(sub) /\ << >> \in DOMAIN sub /\ DOMAIN sub \subseteq Pos
      /\ \A q \in DOMAIN sub : sub[q].kind # "null" /\ (q = << >> \/ o.op = "add")
      /\ o.op = "set" => sub[<< >>] = Scalar(o.value)
      /\ o.op = "add" => /\ sub[<< >>].kind = "list" /\ <<ToString(0)>> \in DOMAIN sub
                         /\ sub[<<ToString(0)>>] = Scalar(o.value)
  BY LeafIs
<1>4. Site(t, w)
  OBVIOUS
<1> HIDE DEF w, sub
<1>5. /\ \A q \in DOMAIN t : IsPrefix(w, q) => q = w
      /\ IsPrefix(w, w) /\ w \o << >> = w
  BY <1>1, <1>4, SiteAlone, PrefixOrder, ConcatEmptySeq DEF Pos
<1>6. ASSUME NEW q \in DOMAIN sub
      PROVE  \/ IsPrefix(w \o q, w)
             \/ o.op = "add" /\ IsPrefix(w, w \o q) /\ w \o q \notin DOMAIN t
  <2>1. CASE q = << >>
    BY <1>5, <2>1
  <2>2. CASE q # << >>
    <3>1. IsPrefix(w, w \o q) /\ w \o q # w
      <4>1. q \in Pos /\ << >> \in Pos
        BY <1>3
      <4> QED
        BY <1>1, <1>5, <2>2, <4>1, PrefixSplit, UnderSite
    <3> QED
      BY <1>3, <1>5, <2>2, <3>1
  <2> QED
    BY <2>1, <2>2
<1>7. DoneAt(g, w, o)
  <2>1. \A q \in DOMAIN sub : w \o q \in DOMAIN g /\ g[w \o q] = sub[q]
    BY <1>1, <1>3, GraftIs
  <2> HIDE DEF g
  <2>2. w \in DOMAIN g /\ g[w] = sub[<< >>]
    BY <1>3, <1>5, <2>1
  <2>3. o.op = "add" => 0 \in 0..MaxItems /\ w \o <<ToString(0)>> \in DOMAIN g /\ g[w \o <<ToString(0)>>] = Scalar(o.value)
    BY <1>3, <2>1 DEF IndexTexts
  <2> QED
    BY <1>3, <2>2, <2>3 DEF DoneAt
<1>8. w \in DOMAIN t /\ t[w].kind # "null" => o.op = "set"
  BY DEF w
<1> QED
  <2>1. Goal(c, o) = w /\ LeafOf(o) = sub
    BY DEF w, sub
  <2> QED
    BY <1>2, <1>3, <1>4, <1>6, <1>7, <1>8, <2>1 DEF Effect

LEMMA CreateEffect ==
  ASSUME IndexTexts, NEW t, IsTree(t), NEW o, NEW name, IsPath(o.path, name), o.op \in {"set", "add"},
         NEW c \in Pos, NEW j \in 0..Len(KeysOf(o.path)) - 1, NodePath(o.path, j + 1) # << >>,
         Site(t, c \o Way(o.path, j + 1)),
         c \o Way(o.path, j + 1) \in DOMAIN t => t[c \o Way(o.path, j + 1)].kind = "null"
  PROVE  Effect(t, c, o, c \o Way(o.path, j + 1), Nested(KeysOn(o.path, j + 1), LeafOf(o)))
<1> DEFINE v == c \o Way(o.path, j + 1)
           keys == KeysOn(o.path, j + 1)
           leaf == LeafOf(o)
           sub == Nested(keys, leaf)
           g == Graft(t, v, sub)
           a == Goal(c, o)
<1>1. /\ keys \in Pos /\ keys # << >> /\ Way(o.path, j + 1) \o keys = KeysOf(o.path)
      /\ a \in Pos /\ a = c \o KeysOf(o.path)
  BY PathFrom, GoalIs DEF Goal
<1>2. Way(o.path, j + 1) \in Pos /\ IsPrefix(c \o <<"securityContext">>, v) /\ v \in Pos
  <2>1. PICK h : h = j + 1
    OBVIOUS
  <2>2. h \in 0..Len(KeysOf(o.path)) /\ h > 0
    BY <2>1, KeysAre
  <2>3. Way(o.path, h) \in Pos
    BY <2>2, Ways
  <2>4. IsPrefix(c \o <<"securityContext">>, c \o Way(o.path, h)) /\ c \o Way(o.path, h) \in Pos
    BY <2>2, WayIs
  <2> QED
    BY <2>1, <2>3, <2>4
<1>3. v \o keys = a
  <2> HIDE DEF keys
  <2>1. c \in Seq(Texts) /\ Way(o.path, j + 1) \in Seq(Texts) /\ keys \in Seq(Texts)
    BY <1>1, <1>2 DEF Pos
  <2>2. (c \o Way(o.path, j + 1)) \o keys = c \o (Way(o.path, j + 1) \o keys)
    BY <2>1, ConcatAssociative
  <2> QED
    BY <1>1, <2>2
<1>4. Site(t, v) /\ (v \in DOMAIN t => t[v].kind = "null") /\ DOMAIN t \subseteq Pos
  BY DEF IsTree, Pos
<1>5. /\ IsPart(leaf) /\ << >> \in DOMAIN leaf /\ DOMAIN leaf \subseteq Pos
      /\ \A q \in DOMAIN leaf : leaf[q].kind # "null" /\ (q = << >> \/ o.op = "add")
      /\ o.op = "set" => leaf[<< >>] = Scalar(o.value)
      /\ o.op = "add" => /\ leaf[<< >>].kind = "list" /\ <<ToString(0)>> \in DOMAIN leaf
                         /\ leaf[<<ToString(0)>>] = Scalar(o.value)
  BY LeafIs
<1> HIDE DEF v, keys, leaf, a
<1>6. /\ \A q \in DOMAIN leaf : keys \o q \in DOMAIN sub /\ sub[keys \o q] = leaf[q]
      /\ \A q \in DOMAIN sub :
           \/ q \in Pos /\ IsPrefix(q, keys) /\ sub[q].kind = "map"
           \/ \E r \in DOMAIN leaf : q = keys \o r /\ sub[q] = leaf[r]
  <2>1. keys \in Pos /\ IsPart(leaf)
    BY <1>1, <1>5
  <2>2. sub = Nested(keys, leaf)
    OBVIOUS
  <2>3. \A q \in DOMAIN leaf : keys \o q \in DOMAIN sub /\ sub[keys \o q] = leaf[q]
    BY <2>1, NestedIs
  <2>4. ASSUME NEW q \in DOMAIN Nested(keys, leaf)
        PROVE  NestedNode(keys, leaf, q)
    BY <2>1, NestedIs
  <2> QED
    BY <2>2, <2>3, <2>4 DEF NestedNode
<1>7. IsPart(sub) /\ DOMAIN sub \subseteq Pos
  <2>1. IsPart(sub)
    BY <1>1, <1>5, NestedPart
  <2> QED
    BY <2>1 DEF IsPart, IsTree, Pos
<1> HIDE DEF sub
<1>8. \A q \in DOMAIN t : IsPrefix(v, q) => q = v
  BY <1>4, SiteAlone
<1>9. ASSUME NEW r \in Pos PROVE v \o (keys \o r) = a \o r
  <2>1. v \in Seq(Texts) /\ keys \in Seq(Texts) /\ r \in Seq(Texts)
    BY <1>1, <1>2 DEF Pos
  <2>2. (v \o keys) \o r = v \o (keys \o r)
    BY <2>1, ConcatAssociative, SMTT(20)
  <2> QED
    BY <1>3, <2>2
<1>10. a \o << >> = a /\ keys \o << >> = keys
  BY <1>1, ConcatEmptySeq DEF Pos
<1>11. ASSUME NEW q \in DOMAIN sub
       PROVE  /\ sub[q].kind # "null"
              /\ \/ IsPrefix(v \o q, a)
                 \/ o.op = "add" /\ IsPrefix(a, v \o q) /\ v \o q \notin DOMAIN t
  <2>1. CASE q \in Pos /\ IsPrefix(q, keys) /\ sub[q].kind = "map"
    <3>1. IsPrefix(v \o q, v \o keys)
      BY <1>1, <1>2, <2>1, UnderSite
    <3> QED
      BY <1>3, <2>1, <3>1
  <2>2. CASE \E r \in DOMAIN leaf : q = keys \o r /\ sub[q] = leaf[r]
    <3>1. PICK r \in DOMAIN leaf : q = keys \o r /\ sub[q] = leaf[r]
      BY <2>2
    <3>2. v \o q = a \o r /\ r \in Pos
      BY <1>5, <1>9, <3>1
    <3>3. CASE r = << >>
      <4>1. v \o q = a /\ IsPrefix(a, a)
        BY <1>1, <1>10, <3>2, <3>3, PrefixOrder
      <4> QED
        BY <1>5, <3>1, <4>1
    <3>4. CASE r # << >>
      <4>1. o.op = "add" /\ sub[q].kind # "null" /\ IsPrefix(a, v \o q)
        BY <1>1, <1>5, <3>1, <3>2, <3>4, PrefixSplit
      <4>2. v \o q \notin DOMAIN t
        <5> SUFFICES ASSUME v \o q \in DOMAIN t PROVE FALSE
          OBVIOUS
        <5>1. q \in Pos /\ IsPrefix(v, v \o q) /\ << >> \in Pos /\ v \o << >> = v
          BY <1>2, <1>7, PrefixSplit, ConcatEmptySeq, EmptySeq DEF Pos
        <5>2. v \o q = v \o << >>
          BY <1>8, <5>1
        <5>3. q = << >>
          BY <1>2, <5>1, <5>2, UnderSite
        <5>4. keys = << >>
          <6>1. keys \in Seq(Texts) /\ r \in Seq(Texts) /\ keys \o r = << >>
            BY <1>1, <3>1, <3>2, <5>3 DEF Pos
          <6> QED
            BY <6>1, ConcatEqualIffEmpty
        <5> QED
          BY <1>1, <5>4
      <4> QED
        BY <4>1, <4>2
    <3> QED
      BY <3>3, <3>4
  <2> QED
    BY <1>6, <2>1, <2>2
<1>12. DoneAt(g, a, o)
  <2>1. \A q \in DOMAIN sub : v \o q \in DOMAIN g /\ g[v \o q] = sub[q]
    BY <1>2, <1>4, <1>7, GraftIs
  <2> HIDE DEF g
  <2>2. ASSUME NEW r \in DOMAIN leaf PROVE a \o r \in DOMAIN g /\ g[a \o r] = leaf[r]
    <3>1. keys \o r \in DOMAIN sub /\ sub[keys \o r] = leaf[r]
      BY <1>6
    <3>2. v \o (keys \o r) \in DOMAIN g /\ g[v \o (keys \o r)] = leaf[r]
      BY <2>1, <3>1
    <3> QED
      BY <1>5, <1>9, <3>2
  <2>3. a \in DOMAIN g /\ g[a] = leaf[<< >>]
    BY <1>5, <1>10, <2>2
  <2>4. o.op = "add" => 0 \in 0..MaxItems /\ a \o <<ToString(0)>> \in DOMAIN g /\ g[a \o <<ToString(0)>>] = Scalar(o.value)
    BY <1>5, <2>2 DEF IndexTexts
  <2> QED
    BY <1>5, <2>3, <2>4 DEF DoneAt
<1> QED
  <2>1. Effect(t, c, o, v, sub)
    BY <1>2, <1>4, <1>7, <1>11, <1>12 DEF Effect, a
  <2> QED
    BY <2>1 DEF v, sub, keys, leaf

LEMMA AppendEffect ==
  ASSUME IndexTexts, NEW t, IsTree(t), NEW o, NEW name, IsPath(o.path, name), o.op = "add",
         NEW c \in Pos, Goal(c, o) \in DOMAIN t, t[Goal(c, o)].kind = "list", Length(t, Goal(c, o)) < MaxItems
  PROVE  Effect(t, c, o, Goal(c, o) \o <<ToString(Length(t, Goal(c, o)))>>, Sole(Scalar(o.value)))
<1> DEFINE a == Goal(c, o)
           n == Length(t, a)
           w == a \o <<ToString(n)>>
           sub == Sole(Scalar(o.value))
           g == Graft(t, w, sub)
           x == c \o <<"securityContext">>
<1>1. a \in Pos /\ DOMAIN t \subseteq Pos /\ IsPrefix(x, a) /\ x \in Pos
  <2>1. Len(KeysOf(o.path)) \in 0..Len(KeysOf(o.path)) /\ Len(KeysOf(o.path)) > 0 /\ "securityContext" \in Texts
    BY KeysAre, PathKey DEF KeyTexts
  <2>2. IsPrefix(x, a)
    BY <2>1, WayIs
  <2>3. a \in Pos /\ DOMAIN t \subseteq Pos
    BY GoalIs DEF IsTree, Pos
  <2>4. x \in Pos
    BY <2>1, PrefixChild
  <2> QED
    BY <2>2, <2>3, <2>4
<1>2. n \in 0..MaxItems /\ n < MaxItems /\ t[a].kind = "list" /\ a \in DOMAIN t
  BY ListLength
<1> HIDE DEF a, n, x
<1>3. ToString(n) \in Texts
  BY <1>2 DEF IndexTexts
<1>4. w \in Pos /\ w # << >> /\ Front(w) = a /\ IsPrefix(a, w)
  BY <1>1, <1>3, PrefixChild
<1>5. Site(t, w)
  BY <1>2, <1>4 DEF Site, n
<1>6. /\ DOMAIN sub = {<< >>} /\ sub[<< >>] = Scalar(o.value) /\ << >> \in Pos /\ IsPart(sub)
      /\ Scalar(o.value).kind = "scalar"
  BY SoleIs, ScalarPart DEF Scalar
<1> HIDE DEF w, sub
<1>7. w \notin DOMAIN t /\ ~IsPrefix(w, a) /\ w \o << >> = w
  BY <1>2, <1>4, <1>5, SiteAlone, ConcatEmptySeq DEF Pos
<1>8. IsPrefix(x, w)
  BY <1>1, <1>4, PrefixOrder
<1>9. DoneAt(g, a, o)
  <2>1. /\ w \in DOMAIN g /\ g[w] = Scalar(o.value)
        /\ a \in DOMAIN g /\ g[a] = t[a]
    <3>1. DOMAIN sub \subseteq Pos
      BY <1>6
    <3>2. /\ \A p \in Pos : ~IsPrefix(w, p) => /\ p \in DOMAIN g <=> p \in DOMAIN t
                                               /\ p \in DOMAIN t => g[p] = t[p]
          /\ \A q \in Pos : /\ w \o q \in DOMAIN g <=> q \in DOMAIN sub
                            /\ q \in DOMAIN sub => g[w \o q] = sub[q]
      BY <1>1, <1>4, <3>1, GraftIs
    <3> HIDE DEF g
    <3>3. w \o << >> \in DOMAIN g /\ g[w \o << >>] = Scalar(o.value)
      BY <1>6, <3>2
    <3> QED
      BY <1>1, <1>2, <1>7, <3>2, <3>3
  <2> HIDE DEF g
  <2> QED
    BY <1>2, <2>1 DEF DoneAt, w
<1>10. \A q \in DOMAIN sub : /\ sub[q].kind # "null"
                             /\ \/ IsPrefix(w \o q, a)
                                \/ o.op = "add" /\ IsPrefix(a, w \o q) /\ w \o q \notin DOMAIN t
  <2>1. \A q \in DOMAIN sub : q = << >>
    BY <1>6
  <2>2. IsPrefix(a, w \o << >>) /\ w \o << >> \notin DOMAIN t /\ sub[<< >>].kind # "null" /\ o.op = "add"
    BY <1>4, <1>6, <1>7
  <2> QED
    BY <2>1, <2>2
<1>11. Effect(t, c, o, w, sub)
  BY <1>5, <1>6, <1>7, <1>8, <1>9, <1>10 DEF Effect, a, x
<1> QED
  BY <1>11 DEF w, sub, n, a

-----------------------------------------------------------------------------
(***************************************************************************)
(* How far Apply has come with a document.                                 *)
(***************************************************************************)
AllDone(name, t, o) == \A c \in Selected(name, t) : DoneAt(t, Goal(c, o), o)
ItemsDone(name, t, o, k) ==
  \A l \in 0..k - 1 : ItemOf(t, l) \in Selected(name, t) => DoneAt(t, Goal(ItemOf(t, l), o), o)
ListFine(t) == ContainersOf(t) \in DOMAIN t => t[ContainersOf(t)].kind \in {"null", "list"}

\* Every operation has been applied to t, if it is a workload.
Finished(name, pl, t) ==
  IsWorkload(t) => ListFine(t) /\ \A i \in DOMAIN pl : AllDone(name, t, pl[i])

AtPodSpec(t, path) == Frame(PodSpec(t), PodSpec(t), path, NotAList)
AtList(t, path, k) == Frame(ContainersOf(t), ContainersOf(t), path, k)
AtNode(c, path, j) == Frame(c \o Way(path, j), c \o Way(path, j), NodePath(path, j), NotAList)

InList(t, path, k, calls) ==
  IsList(t) /\ k \in 0..Length(t, ContainersOf(t)) /\ calls = <<AtList(t, path, k)>>
InItem(name, t, path, k, j, calls) ==
  /\ IsList(t) /\ k \in 0..Length(t, ContainersOf(t)) - 1 /\ ItemOf(t, k) \in Selected(name, t)
  /\ j \in 0..Len(KeysOf(path)) - 1 /\ ItemOf(t, k) \o Way(path, j) \in DOMAIN t
  /\ calls = <<AtNode(ItemOf(t, k), path, j), AtList(t, path, k + 1)>>

\* The calls of walk for operation o.
Calls(name, t, o, calls) ==
  \/ calls = << >> /\ AllDone(name, t, o) /\ ListFine(t)
  \/ calls = <<AtPodSpec(t, o.path)>>
  \/ \E k \in Nat : InList(t, o.path, k, calls) /\ ItemsDone(name, t, o, k)
  \/ \E k \in Nat, j \in Nat : InItem(name, t, o.path, k, j, calls) /\ ItemsDone(name, t, o, k)

\* Apply is at operation i.
Walked(name, pl, t, i, calls) ==
  /\ IsWorkload(t)
  /\ \A k \in 1..i - 1 : AllDone(name, t, pl[k])
  /\ Calls(name, t, pl[i], calls)

LEMMA PairIs ==
  ASSUME NEW x, NEW y
  PROVE  <<x>> \o <<y>> = <<x, y>>
<1> DEFINE S == {x, y}
<1>1. x \in S /\ y \in S
  OBVIOUS
<1> HIDE DEF S
<1>2. <<y>> \in Seq(S) /\ Len(<<y>>) = 1 /\ <<y>>[1] = y
  BY <1>1, Singleton
<1> DEFINE p == <<x>> \o <<y>>
           q == <<x, y>>
<1>3. p \in Seq(S) /\ Len(p) = 1 + 1 /\ p[1] = x /\ \A i \in 1..1 : p[i + 1] = <<y>>[i]
  BY <1>1, <1>2, OneMore
<1>4. q \in Seq(S) /\ Len(q) = 2 /\ q[1] = x /\ q[2] = y
  BY <1>1
<1> HIDE DEF p, q
<1>5. p[1 + 1] = y
  BY <1>2, <1>3
<1>6. \A i \in 1..2 : i = 1 \/ i = 2
  OBVIOUS
<1>7. \A i \in 1..2 : p[i] = q[i]
  BY <1>3, <1>4, <1>5, <1>6
<1>8. p = q
  BY <1>3, <1>4, <1>7, SeqEqual
<1> QED
  BY <1>8 DEF p, q

LEMMA CallsAre ==
  ASSUME NEW a, NEW b, NEW x
  PROVE  /\ Head(<<a>>) = a /\ Tail(<<a>>) = << >> /\ <<a>> # << >>
         /\ Head(<<a, b>>) = a /\ Tail(<<a, b>>) = <<b>> /\ <<a, b>> # << >>
         /\ <<x>> \o Tail(<<a>>) = <<x>> /\ <<x>> \o Tail(<<a, b>>) = <<x, b>>
         /\ <<x>> \o (<<a>> \o Tail(<<b>>)) = <<x, a>> /\ <<x>> \o << >> = <<x>>
<1>1. /\ Head(<<a>>) = a /\ Tail(<<a>>) = << >> /\ <<a>> # << >>
      /\ Head(<<a, b>>) = a /\ Tail(<<a, b>>) = <<b>> /\ <<a, b>> # << >> /\ Tail(<<b>>) = << >>
  OBVIOUS
<1>2. <<x>> \o << >> = <<x>> /\ <<a>> \o << >> = <<a>>
  OBVIOUS
<1>3. <<x>> \o <<b>> = <<x, b>> /\ <<x>> \o <<a>> = <<x, a>>
  BY PairIs
<1> QED
  BY <1>1, <1>2, <1>3

LEMMA ItemsCover ==
  ASSUME IndexTexts, TextsOfPaths, NEW t, IsTree(t), IsWorkload(t), NEW name, NEW o, IsList(t),
         ItemsDone(name, t, o, Length(t, ContainersOf(t)))
  PROVE  AllDone(name, t, o) /\ ListFine(t)
<1>1. ASSUME NEW c \in Selected(name, t) PROVE DoneAt(t, Goal(c, o), o)
  <2>1. PICK k \in 0..Length(t, ContainersOf(t)) - 1 : c = ItemOf(t, k)
    BY SelectedIs
  <2> QED
    BY <2>1 DEF ItemsDone
<1> QED
  BY <1>1 DEF AllDone, ListFine, IsList

LEMMA NoItems ==
  ASSUME IndexTexts, TextsOfPaths, NEW t, IsTree(t), IsWorkload(t), NEW name, NEW o,
         ContainersOf(t) \in DOMAIN t => t[ContainersOf(t)].kind = "null"
  PROVE  AllDone(name, t, o) /\ ListFine(t)
<1>1. \A c : c \notin Selected(name, t)
  BY SelectedIs
<1> QED
  BY <1>1 DEF AllDone, ListFine

LEMMA NextItem ==
  ASSUME NEW t, NEW name, NEW o, NEW k \in Nat, ItemsDone(name, t, o, k),
         ItemOf(t, k) \in Selected(name, t) => DoneAt(t, Goal(ItemOf(t, k), o), o)
  PROVE  ItemsDone(name, t, o, k + 1)
<1> SUFFICES ASSUME NEW l \in 0..(k + 1) - 1, ItemOf(t, l) \in Selected(name, t)
             PROVE  DoneAt(t, Goal(ItemOf(t, l), o), o)
  BY DEF ItemsDone
<1>1. l = k \/ l \in 0..k - 1
  OBVIOUS
<1> QED
  BY <1>1 DEF ItemsDone

\* The items of the list are its children; the one after the last is not there.
LEMMA ItemsAre ==
  ASSUME IndexTexts, TextsOfPaths, NEW t, IsTree(t), IsWorkload(t), IsList(t),
         NEW k \in 0..Length(t, ContainersOf(t))
  PROVE  /\ Length(t, ContainersOf(t)) \in 0..MaxItems /\ MaxItems \in Nat /\ k \in 0..MaxItems
         /\ ItemOf(t, k) \in Pos /\ IsPrefix(ContainersOf(t), ItemOf(t, k))
         /\ Len(ItemOf(t, k)) = Len(ContainersOf(t)) + 1
         /\ ItemOf(t, k) \in DOMAIN t <=> k < Length(t, ContainersOf(t))
<1> DEFINE l == ContainersOf(t)
           n == Length(t, l)
<1>1. l \in Pos /\ l \in DOMAIN t /\ t[l].kind = "list" /\ MaxItems \in Nat
  BY WorkloadIs DEF IsList, IndexTexts
<1>2. n \in 0..MaxItems /\ Children(t, l) = {l \o <<ToString(i)>> : i \in 0..n - 1}
  BY <1>1, ListLength
<1> HIDE DEF l, n
<1>3. k \in 0..MaxItems /\ k \in 0..n
  BY <1>1, <1>2 DEF l, n
<1>4. ToString(k) \in Texts
  BY <1>3 DEF IndexTexts
<1> DEFINE p == l \o <<ToString(k)>>
<1>5. p \in Pos /\ IsPrefix(l, p) /\ Len(p) = Len(l) + 1 /\ Last(p) = ToString(k)
  BY <1>1, <1>4, PrefixChild
<1> HIDE DEF p
<1>6. ASSUME p \in DOMAIN t PROVE k < n
  <2>1. p \in Children(t, l)
    BY <1>5, <1>6 DEF Children
  <2>2. PICK i \in 0..n - 1 : p = l \o <<ToString(i)>>
    BY <1>2, <2>1
  <2>3. i \in 0..MaxItems
    BY <1>1, <1>2, <2>2
  <2>4. ToString(i) \in Texts
    BY <2>3 DEF IndexTexts
  <2>5. Last(l \o <<ToString(i)>>) = ToString(i)
    BY <1>1, <2>4, PrefixChild
  <2>6. ToString(k) = ToString(i)
    BY <1>5, <2>2, <2>5
  <2>7. k = i
    BY <1>3, <2>3, <2>6 DEF IndexTexts
  <2> QED
    BY <1>2, <2>2, <2>7
<1>7. ASSUME k < n PROVE p \in DOMAIN t
  <2>1. k \in 0..n - 1
    BY <1>2, <1>3, <1>7
  <2>2. p \in Children(t, l)
    BY <1>2, <2>1 DEF p
  <2> QED
    BY <2>2 DEF Children
<1> QED
  BY <1>1, <1>2, <1>3, <1>5, <1>6, <1>7 DEF p, l, n, ItemOf

\* A container where the operation is done holds on its target what the operation wants,
\* and mappings on the way to it.
LEMMA DoneNode ==
  ASSUME IndexTexts, NEW t, IsTree(t), NEW o, NEW name, IsPath(o.path, name), NEW c \in Pos,
         DoneAt(t, Goal(c, o), o), NEW j \in 0..Len(KeysOf(o.path)) - 1
  PROVE  /\ c \o Way(o.path, j) \in DOMAIN t /\ t[c \o Way(o.path, j)].kind = "map"
         /\ j + 1 < Len(KeysOf(o.path)) =>
              c \o Way(o.path, j + 1) \in DOMAIN t /\ t[c \o Way(o.path, j + 1)].kind = "map"
         /\ Goal(c, o) \in DOMAIN t
         /\ o.op = "set" => t[Goal(c, o)] = Scalar(o.value)
         /\ o.op = "add" => /\ t[Goal(c, o)].kind = "list"
                            /\ \E k \in 0..Length(t, Goal(c, o)) - 1 :
                                 t[Goal(c, o) \o <<ToString(k)>>] = Scalar(o.value)
<1> DEFINE a == Goal(c, o)
<1>1. a \in DOMAIN t /\ a = c \o KeysOf(o.path) /\ a \in Pos
  BY GoalIs DEF DoneAt, Goal
<1>2. c \o KeysOf(o.path) \in DOMAIN t
  BY <1>1
<1>3. c \o Way(o.path, j) \in DOMAIN t /\ t[c \o Way(o.path, j)].kind = "map"
  BY <1>2, WayOfMappings
<1>4. ASSUME j + 1 < Len(KeysOf(o.path))
      PROVE  c \o Way(o.path, j + 1) \in DOMAIN t /\ t[c \o Way(o.path, j + 1)].kind = "map"
  <2>1. PICK h : h = j + 1
    OBVIOUS
  <2>2. h \in 0..Len(KeysOf(o.path)) - 1
    BY <1>4, <2>1, KeysAre
  <2>3. c \o Way(o.path, h) \in DOMAIN t /\ t[c \o Way(o.path, h)].kind = "map"
    BY <1>2, <2>2, WayOfMappings
  <2> QED
    BY <2>1, <2>3
<1> HIDE DEF a
<1>5. ASSUME o.op = "add"
      PROVE  /\ t[a].kind = "list"
             /\ \E k \in 0..Length(t, a) - 1 : t[a \o <<ToString(k)>>] = Scalar(o.value)
  <2>1. t[a].kind = "list"
    BY <1>5 DEF DoneAt, a
  <2>2. PICK k \in 0..MaxItems : a \o <<ToString(k)>> \in DOMAIN t /\ t[a \o <<ToString(k)>>] = Scalar(o.value)
    BY <1>5 DEF DoneAt, a
  <2> DEFINE p == a \o <<ToString(k)>>
  <2>3. p \in DOMAIN t /\ Len(p) = Len(a) + 1 /\ IsPrefix(a, p)
    <3>1. ToString(k) \in Texts
      BY <2>2 DEF IndexTexts
    <3> QED
      BY <1>1, <2>2, <3>1, PrefixChild
  <2> HIDE DEF p
  <2>4. p \in Children(t, a)
    BY <2>3 DEF Children
  <2>5. PICK i \in 0..Length(t, a) - 1 : p = a \o <<ToString(i)>>
    <3>1. a \in DOMAIN t
      BY <1>1
    <3>2. Children(t, a) = {a \o <<ToString(i)>> : i \in 0..Length(t, a) - 1}
      BY <2>1, <3>1, ListLength
    <3> QED
      BY <2>4, <3>2
  <2>6. t[a \o <<ToString(i)>>] = Scalar(o.value)
    BY <2>2, <2>5 DEF p
  <2> QED
    BY <2>1, <2>5, <2>6
<1> QED
  BY <1>1, <1>3, <1>4, <1>5 DEF DoneAt, a

\* After an edit the walk goes on with the next container, and all that was done stays.
LEMMA EditWalks ==
  ASSUME IndexTexts, TextsOfPaths, NEW pl, NEW name, PlanOK(pl, name), NEW t, IsTree(t), IsWorkload(t),
         NEW i \in DOMAIN pl, NEW k \in Nat, NEW j \in Nat, NEW calls,
         InItem(name, t, pl[i].path, k, j, calls), ItemsDone(name, t, pl[i], k),
         \A m \in 1..i - 1 : AllDone(name, t, pl[m]),
         NEW w, NEW sub, NEW g, Edited(t, ItemOf(t, k), pl[i], w, sub, g)
  PROVE  Walked(name, pl, g, i, Tail(calls))
<1> DEFINE c == ItemOf(t, k)
           l == ContainersOf(t)
<1>1. /\ c \in Selected(name, t) /\ k \in 0..Length(t, l) - 1 /\ IsList(t)
      /\ Tail(calls) = <<AtList(t, pl[i].path, k + 1)>>
  BY CallsAre DEF InItem
<1>2. IsPath(pl[i].path, name) /\ DOMAIN pl = 1..Len(pl) /\ Len(pl) \in Nat
  BY DEF PlanOK
<1>3. Edited(t, c, pl[i], w, sub, g)
  OBVIOUS
<1> HIDE DEF c, l
<1>4. /\ IsWorkload(g) /\ ContainersOf(g) = l /\ Selected(name, g) = Selected(name, t)
      /\ Length(g, l) = Length(t, l) /\ l \in DOMAIN g /\ g[l] = t[l]
  BY <1>1, <1>2, <1>3, EffectKeepsContainers DEF l
<1>5. ASSUME NEW e \in Selected(name, t), NEW m \in DOMAIN pl, DoneAt(t, Goal(e, pl[m]), pl[m])
      PROVE  DoneAt(g, Goal(e, pl[m]), pl[m])
  <2>1. c \in Pos /\ e \in Pos /\ Len(c) = Len(e)
    BY <1>1, SelectedIs
  <2>2. Effect(t, c, pl[i], w, sub) /\ g = Graft(t, w, sub)
    BY <1>3 DEF Edited
  <2>3. DoneAt(Graft(t, w, sub), Goal(e, pl[m]), pl[m])
    BY <1>5, <2>1, <2>2, DoneStays
  <2> QED
    BY <2>2, <2>3
<1>6. ASSUME NEW m \in 1..i - 1 PROVE AllDone(name, g, pl[m])
  <2>1. m \in DOMAIN pl
    BY <1>2
  <2> QED
    BY <1>4, <1>5, <2>1 DEF AllDone
<1>7. DoneAt(g, Goal(c, pl[i]), pl[i])
  BY <1>3 DEF Edited, Effect
<1>8. \A n : ItemOf(g, n) = ItemOf(t, n)
  BY <1>4 DEF ItemOf, l
<1>9. ItemsDone(name, g, pl[i], k)
  BY <1>4, <1>5, <1>8 DEF ItemsDone
<1>10. ItemsDone(name, g, pl[i], k + 1)
  <2>1. DoneAt(g, Goal(ItemOf(g, k), pl[i]), pl[i])
    BY <1>7, <1>8 DEF c
  <2> QED
    BY <1>9, <2>1, NextItem
<1>11. InList(g, pl[i].path, k + 1, Tail(calls))
  <2>1. IsList(g)
    BY <1>1, <1>4 DEF IsList, l
  <2>2. k + 1 \in 0..Length(g, ContainersOf(g))
    <3>1. Length(t, l) \in Nat
      <4>1. l \in DOMAIN t /\ t[l].kind = "list" /\ MaxItems \in Nat
        BY <1>1 DEF IsList, l, IndexTexts
      <4> QED
        BY <4>1, ListLength
    <3> QED
      BY <1>1, <1>4, <3>1
  <2>3. Tail(calls) = <<AtList(g, pl[i].path, k + 1)>>
    BY <1>1, <1>4 DEF AtList, l
  <2> QED
    BY <2>1, <2>2, <2>3 DEF InList
<1>12. Calls(name, g, pl[i], Tail(calls))
  <2>1. k + 1 \in Nat
    OBVIOUS
  <2> QED
    BY <1>10, <1>11, <2>1 DEF Calls
<1> QED
  BY <1>4, <1>6, <1>12 DEF Walked

(***************************************************************************)
(* What may differ between a document t and what has become of it, u.      *)
(***************************************************************************)
MayChange(name, pl, t, p) ==
  /\ IsWorkload(t)
  /\ \E c \in Selected(name, t), i \in DOMAIN pl :
       \/ IsPrefix(p, Goal(c, pl[i])) /\ Absent(t, p)
       \/ pl[i].op = "set" /\ p = Goal(c, pl[i])
       \/ pl[i].op = "add" /\ IsPrefix(Goal(c, pl[i]), p) /\ p \notin DOMAIN t

SameAliases(t, u) == Aliases(t) = Aliases(u) /\ \A a \in Aliases(t) : t[a] = u[a]

Changes(name, pl, t, u) ==
  /\ SameAliases(t, u)
  /\ IsWorkload(t) <=> IsWorkload(u)
  /\ Selected(name, u) = Selected(name, t)
  /\ \A p \in DOMAIN t : p \in DOMAIN u /\ (u[p].kind = "null" => t[p].kind = "null")
  /\ \A p \in DOMAIN u : p \notin DOMAIN t \/ u[p] # t[p] => MayChange(name, pl, t, p)

LEMMA ChangesSelf ==
  ASSUME NEW name, NEW pl, NEW t
  PROVE  Changes(name, pl, t, t)
  BY DEF Changes, SameAliases

LEMMA ChangesStep ==
  ASSUME IndexTexts, TextsOfPaths, NEW name, NEW pl, PlanOK(pl, name), NEW t, NEW u, IsTree(u), IsWorkload(u),
         Changes(name, pl, t, u), NEW i \in DOMAIN pl, NEW c \in Selected(name, u),
         NEW w, NEW sub, NEW g, Edited(u, c, pl[i], w, sub, g)
  PROVE  Changes(name, pl, t, g)
<1>1. IsPath(pl[i].path, name) /\ c \in Pos
  BY SelectedIs DEF PlanOK
<1>2. IsWorkload(g) /\ Selected(name, g) = Selected(name, u)
  BY <1>1, EffectKeepsContainers
<1>3. /\ Aliases(g) = Aliases(u) /\ \A a \in Aliases(u) : g[a] = u[a]
      /\ \A p \in DOMAIN u : p \in DOMAIN g /\ (g[p].kind = "null" => u[p].kind = "null")
  BY <1>1, EffectKeeps
<1>4. SameAliases(t, g)
  BY <1>3 DEF Changes, SameAliases
<1>5. \A p \in DOMAIN t : p \in DOMAIN g /\ (g[p].kind = "null" => t[p].kind = "null")
  BY <1>3 DEF Changes
<1>6. ASSUME NEW p \in DOMAIN g, p \notin DOMAIN t \/ g[p] # t[p] PROVE MayChange(name, pl, t, p)
  <2>1. CASE p \in DOMAIN u /\ g[p] = u[p]
    BY <1>6, <2>1 DEF Changes
  <2>2. CASE ~(p \in DOMAIN u /\ g[p] = u[p])
    <3>1. \/ IsPrefix(p, Goal(c, pl[i])) /\ Absent(u, p)
          \/ pl[i].op = "set" /\ p = Goal(c, pl[i])
          \/ pl[i].op = "add" /\ IsPrefix(Goal(c, pl[i]), p) /\ p \notin DOMAIN u
      BY <1>1, <2>2, EffectKeeps, ZenonT(30)
    <3>2. Absent(u, p) => Absent(t, p)
      BY DEF Changes, Absent
    <3>3. p \notin DOMAIN u => p \notin DOMAIN t
      BY DEF Changes
    <3>4. IsWorkload(t) /\ c \in Selected(name, t)
      BY DEF Changes
    <3> QED
      BY <3>1, <3>2, <3>3, <3>4 DEF MayChange
  <2> QED
    BY <2>1, <2>2
<1> QED
  BY <1>2, <1>4, <1>5, <1>6 DEF Changes

-----------------------------------------------------------------------------
(***************************************************************************)
(* The inductive invariant.                                                *)
(***************************************************************************)
\* The documents: decoded, first given, and edited; an edit leaves all aliases alone.
Documents ==
  /\ \E S : tree \in Seq(S)
  /\ DOMAIN given = DOMAIN tree /\ DOMAIN original = DOMAIN tree /\ DOMAIN patches = DOMAIN tree
  /\ \A d \in DOMAIN tree :
       /\ IsTree(tree[d]) /\ IsTree(given[d]) /\ IsTree(original[d]) /\ SameAliases(given[d], tree[d])
       /\ \E S : patches[d] \in Seq(S)

Types ==
  /\ container \in Names /\ PlanOK(plan, container)
  /\ Documents
  /\ op \in 0..Len(plan) /\ doc \in 1..Len(tree) + 1 /\ round \in 1..2
  /\ workloads \in Nat /\ workloads <= IF op = 0 THEN doc - 1 ELSE doc
  /\ outcome \in {"running", "patched", "conflict", "no workload"}
  /\ outcome = "patched" => doc \notin DOMAIN tree

\* Where Apply is, and what it is done with.
Position ==
  /\ op = 0 => stack = << >>
  /\ op # 0 => doc \in DOMAIN tree /\ Walked(container, plan, tree[doc], op, stack)
  /\ \A d \in DOMAIN tree : round = 2 \/ d < doc => Finished(container, plan, tree[d])

\* There is a workload where one was counted, and no edit in the second round.
Seen(d) == IsWorkload(tree[d]) /\ (d < doc \/ (d = doc /\ op # 0))
Rounds ==
  /\ workloads > 0 <=> \E d \in DOMAIN tree : Seen(d)
  /\ outcome = "patched" => workloads > 0
  /\ round = 2 => /\ \A d \in DOMAIN tree : patches[d] = << >>
                  /\ outcome \in {"running", "patched"}
                  /\ \E d \in DOMAIN tree : IsWorkload(tree[d])

ChangedOnly == \A d \in DOMAIN tree : Changes(container, plan, original[d], tree[d])

IInv == Types /\ Position /\ Rounds /\ ChangedOnly /\ PatchIsTheEdit

(***************************************************************************)
(* Steps that only move on in the document.                                *)
(***************************************************************************)
LEMMA SameDocuments ==
  ASSUME ChangedOnly, PatchIsTheEdit, Documents, UNCHANGED <<input, tree, patches>>
  PROVE  ChangedOnly' /\ PatchIsTheEdit' /\ Documents'
<1>1. /\ container' = container /\ plan' = plan /\ given' = given /\ original' = original
      /\ tree' = tree /\ patches' = patches
  BY DEF input
<1>2. ChangedOnly'
  BY <1>1 DEF ChangedOnly
<1>3. PatchIsTheEdit'
  BY <1>1 DEF PatchIsTheEdit, EditsShared, Patched
<1>4. Documents'
  BY <1>1 DEF Documents
<1> QED
  BY <1>2, <1>3, <1>4

\* Another call of walk in the same document.
LEMMA StackMove ==
  ASSUME IInv, op # 0, UNCHANGED <<doc, op, workloads, input, tree, patches, outcome>>,
         Walked(container, plan, tree[doc], op, stack')
  PROVE  IInv'
<1>1. /\ container' = container /\ plan' = plan /\ tree' = tree /\ round' = round /\ patches' = patches
      /\ doc' = doc /\ op' = op /\ workloads' = workloads /\ outcome' = outcome
  BY DEF input
<1>2. ChangedOnly' /\ PatchIsTheEdit' /\ Documents'
  BY SameDocuments DEF IInv, Types
<1>3. Types'
  BY <1>1, <1>2 DEF IInv, Types
<1>4. Position'
  BY <1>1 DEF IInv, Position
<1>5. Rounds'
  BY <1>1 DEF IInv, Rounds, Seen
<1> QED
  BY <1>2, <1>3, <1>4, <1>5 DEF IInv

\* Facts of every step of a walk.
LEMMA Walking0 ==
  ASSUME IndexTexts, TextsOfPaths, IInv, op # 0
  PROVE  /\ doc \in DOMAIN tree /\ T = tree[doc] /\ IsTree(T) /\ IsWorkload(T)
         /\ op \in DOMAIN plan /\ IsPath(plan[op].path, container) /\ plan[op].op \in {"set", "add"}
         /\ \A m \in 1..op - 1 : AllDone(container, T, plan[m])
         /\ Calls(container, T, plan[op], stack)
         /\ round = 2 => ListFine(T) /\ \A i \in DOMAIN plan : AllDone(container, T, plan[i])
<1>1. doc \in DOMAIN tree /\ T = tree[doc] /\ Walked(container, plan, T, op, stack)
  BY DEF IInv, Position, T
<1>2. op \in DOMAIN plan
  <2>1. op \in 0..Len(plan) /\ DOMAIN plan = 1..Len(plan) /\ Len(plan) \in {1, 2}
    BY DEF IInv, Types, PlanOK
  <2>2. Len(plan) \in Nat
    BY <2>1
  <2> QED
    BY <2>1, <2>2
<1>3. IsTree(T)
  BY <1>1 DEF IInv, Types, Documents
<1>4. IsPath(plan[op].path, container) /\ plan[op].op \in {"set", "add"}
  BY <1>2 DEF IInv, Types, PlanOK
<1>5. round = 2 => Finished(container, plan, T)
  BY <1>1 DEF IInv, Position
<1> QED
  BY <1>1, <1>2, <1>3, <1>4, <1>5 DEF Walked, Finished

\* The call at the pod spec.
LEMMA SpecCall ==
  ASSUME IndexTexts, TextsOfPaths, IInv, op # 0, stack = <<AtPodSpec(T, plan[op].path)>>
  PROVE  /\ Top.next = NotAList /\ Top.path = plan[op].path /\ Top.n = PodSpec(T)
         /\ T[Top.n].kind = "map" /\ Seg = ContainerSegment(container) /\ Seg.sel.kind # "none"
         /\ V = ContainersOf(T) /\ Ptr = ContainersOf(T) /\ Tail(stack) = << >>
<1> DEFINE f == AtPodSpec(T, plan[op].path)
<1>1. Top = f /\ Tail(stack) = << >>
  BY CallsAre DEF Top
<1>2. /\ f.next = NotAList /\ f.path = plan[op].path /\ f.n = PodSpec(T) /\ f.ptr = PodSpec(T)
  BY DEF AtPodSpec, Frame
<1> HIDE DEF f
<1>3. T[PodSpec(T)].kind = "map"
  BY Walking0, WorkloadIs
<1>4. Seg = ContainerSegment(container)
  BY <1>1, <1>2, Walking0 DEF Seg, IsPath
<1>5. Seg.key = "containers" /\ Seg.sel.kind # "none"
  BY <1>4 DEF ContainerSegment, Segment, NoSelector
<1> QED
  BY <1>1, <1>2, <1>3, <1>4, <1>5 DEF V, Ptr, ContainersOf

\* The call at the list of containers.
LEMMA ListCall ==
  ASSUME IndexTexts, TextsOfPaths, IInv, op # 0, NEW k \in Nat, InList(T, plan[op].path, k, stack)
  PROVE  /\ Top.next = k /\ Top.path = plan[op].path /\ Top.n = ContainersOf(T) /\ Top.ptr = ContainersOf(T)
         /\ Top = AtList(T, plan[op].path, k) /\ Seg = ContainerSegment(container)
         /\ Rest = NodePath(plan[op].path, 0) /\ Tail(stack) = << >> /\ IsList(T)
         /\ [Top EXCEPT !.next = @ + 1] = AtList(T, plan[op].path, k + 1)
<1> DEFINE f == AtList(T, plan[op].path, k)
<1>1. Top = f /\ Tail(stack) = << >>
  BY CallsAre DEF Top, InList
<1>2. /\ f.next = k /\ f.path = plan[op].path /\ f.n = ContainersOf(T) /\ f.ptr = ContainersOf(T)
      /\ [f EXCEPT !.next = @ + 1] = AtList(T, plan[op].path, k + 1)
  BY DEF AtList, Frame
<1> HIDE DEF f
<1>3. Seg = ContainerSegment(container)
  BY <1>1, <1>2, Walking0 DEF Seg, IsPath
<1>4. Rest = NodePath(plan[op].path, 0)
  <2>1. Rest = Tail(plan[op].path)
    BY <1>1, <1>2 DEF Rest
  <2>2. PICK S : plan[op].path \in Seq(S)
    BY Walking0 DEF IsPath
  <2>3. plan[op].path # << >>
    BY Walking0, EmptySeq DEF IsPath
  <2>4. Tail(plan[op].path) = SubSeq(plan[op].path, 2, Len(plan[op].path))
    BY <2>2, <2>3, TailIsSubSeq
  <2> QED
    BY <2>1, <2>4 DEF NodePath
<1> QED
  BY <1>1, <1>2, <1>3, <1>4 DEF f, InList

\* A call inside a container.
LEMMA NodeCall ==
  ASSUME IndexTexts, TextsOfPaths, IInv, op # 0, NEW k \in Nat, NEW j \in Nat,
         InItem(container, T, plan[op].path, k, j, stack)
  PROVE  LET path == plan[op].path
             c == ItemOf(T, k)
             K == KeysOf(path)
         IN  /\ Top.next = NotAList /\ Top.n = c \o Way(path, j) /\ Top.n \in DOMAIN T /\ Top.n \in Pos
             /\ c \in Pos /\ c \in Selected(container, T)
             /\ j \in 0..Len(K) - 1 /\ j \in 0..Len(K) /\ K[j + 1] \in Texts
             /\ Seg.sel.kind = "none" /\ Rest = NodePath(path, j + 1) /\ (Rest = << >> <=> j + 1 = Len(K))
             /\ V = Top.n \o <<K[j + 1]>> /\ V = c \o Way(path, j + 1) /\ Ptr = V
             /\ j + 1 = Len(K) => V = Goal(c, plan[op])
             /\ \A i \in DOMAIN Rest : Rest[i].sel.kind = "none"
             /\ Tail(stack) = <<AtList(T, path, k + 1)>>
<1> DEFINE path == plan[op].path
           c == ItemOf(T, k)
           K == KeysOf(path)
           f == AtNode(c, path, j)
<1>1. Top = f /\ Tail(stack) = <<AtList(T, path, k + 1)>>
  BY CallsAre DEF Top, InItem
<1>2. /\ f.next = NotAList /\ f.n = c \o Way(path, j) /\ f.ptr = c \o Way(path, j)
      /\ f.path = NodePath(path, j)
  BY DEF AtNode, Frame
<1> HIDE DEF f
<1>3. c \in Selected(container, T) /\ j \in 0..Len(K) - 1 /\ c \o Way(path, j) \in DOMAIN T
  BY DEF InItem
<1>4. c \in Pos /\ IsPath(path, container) /\ Len(K) \in Nat /\ IsTree(T)
  BY <1>3, Walking0, SelectedIs, KeysAre
<1>5. j \in 0..Len(K) /\ j + 1 \in 0..Len(K) /\ j < Len(K)
  BY <1>3, <1>4
<1>6. c \o Way(path, j) \in Pos /\ K[j + 1] \in Texts /\ c \o Way(path, j + 1) = (c \o Way(path, j)) \o <<K[j + 1]>>
      /\ c \o Way(path, Len(K)) = Goal(c, plan[op])
  BY <1>4, <1>5, WayIs
<1>7. /\ NodePath(path, j)[1] = Plain(K[j + 1]) /\ Tail(NodePath(path, j)) = NodePath(path, j + 1)
      /\ \A i \in DOMAIN NodePath(path, j + 1) : NodePath(path, j + 1)[i].sel.kind = "none"
  BY <1>3, <1>4, PathFrom
<1>8. NodePath(path, j + 1) = << >> <=> j + 1 = Len(K)
  BY <1>4, <1>5, NodePathIs
<1> HIDE DEF path, c, K
<1>9. Seg = Plain(K[j + 1]) /\ Rest = NodePath(path, j + 1)
  BY <1>1, <1>2, <1>7 DEF Seg, Rest
<1>10. Seg.key = K[j + 1] /\ Seg.sel.kind = "none"
  BY <1>9 DEF Plain, Segment, NoSelector
<1>11. V = (c \o Way(path, j)) \o <<K[j + 1]>> /\ Ptr = V
  BY <1>1, <1>2, <1>10 DEF V, Ptr
<1>12. j + 1 = Len(K) => V = Goal(c, plan[op])
  BY <1>6, <1>11
<1> QED
  BY <1>1, <1>2, <1>3, <1>4, <1>5, <1>6, <1>7, <1>8, <1>9, <1>10, <1>11, <1>12 DEF path, c, K

-----------------------------------------------------------------------------
(***************************************************************************)
(* The steps, one by one.                                                  *)
(***************************************************************************)
LEMMA InspectStep ==
  ASSUME IndexTexts, TextsOfPaths, IInv, Inspect
  PROVE  IInv'
<1>1. /\ container' = container /\ plan' = plan /\ tree' = tree /\ round' = round /\ patches' = patches
      /\ outcome' = outcome /\ UNCHANGED <<input, tree, patches>>
  BY DEF Inspect, input
<1>2. ChangedOnly' /\ PatchIsTheEdit' /\ Documents'
  BY <1>1, SameDocuments DEF IInv, Types
<1>3. doc \in DOMAIN tree /\ op = 0 /\ outcome = "running" /\ stack = << >> /\ T = tree[doc]
  BY DEF Inspect, Running, IInv, Position, T
<1>4. PICK S : tree \in Seq(S)
  BY DEF IInv, Types, Documents
<1>5. DOMAIN tree = 1..Len(tree) /\ Len(tree) \in Nat
  BY <1>4, LenProperties
<1>6. workloads \in Nat /\ workloads <= doc - 1 /\ doc \in 1..Len(tree) /\ DOMAIN plan = 1..Len(plan)
      /\ Len(plan) \in {1, 2}
  BY <1>3, <1>5 DEF IInv, Types, PlanOK
<1>7. CASE IsWorkload(T)
  <2>1. workloads' = workloads + 1 /\ op' = 1 /\ stack' = <<Frame(PodSpec(T), PodSpec(T), plan[1].path, NotAList)>>
        /\ doc' = doc
    BY <1>7 DEF Inspect
  <2>2. Types'
    <3>1. op' \in 0..Len(plan) /\ workloads' \in Nat /\ workloads' <= doc'
      BY <1>6, <2>1
    <3> QED
      BY <1>1, <1>2, <1>3, <2>1, <3>1 DEF IInv, Types
  <2>3. Walked(container, plan, tree[doc], 1, stack')
    <3>1. Calls(container, T, plan[1], stack')
      BY <2>1 DEF Calls, AtPodSpec
    <3> QED
      BY <1>3, <1>7, <3>1 DEF Walked
  <2>4. Position'
    BY <1>1, <1>3, <2>1, <2>3 DEF IInv, Position
  <2>5. Rounds'
    <3>1. \E d \in DOMAIN tree' : Seen(d)'
      BY <1>1, <1>3, <1>7, <2>1 DEF Seen
    <3>2. workloads' > 0
      BY <1>6, <2>1
    <3> QED
      BY <1>1, <1>3, <3>1, <3>2 DEF IInv, Rounds
  <2> QED
    BY <1>2, <2>2, <2>4, <2>5 DEF IInv
<1>8. CASE ~IsWorkload(T)
  <2>1. doc' = doc + 1 /\ op' = op /\ stack' = stack /\ workloads' = workloads
    BY <1>8 DEF Inspect
  <2>2. Types'
    <3>1. doc' \in 1..Len(tree) + 1 /\ workloads' <= doc' - 1
      BY <1>6, <2>1
    <3> QED
      BY <1>1, <1>2, <1>3, <2>1, <3>1 DEF IInv, Types
  <2>3. \A d \in DOMAIN tree : d < doc + 1 => d < doc \/ d = doc
    BY <1>5, <1>6
  <2>4. Position'
    BY <1>1, <1>3, <1>8, <2>1, <2>3 DEF IInv, Position, Finished
  <2>5. Rounds'
    <3>1. ASSUME NEW d \in DOMAIN tree PROVE Seen(d)' <=> Seen(d)
      BY <1>1, <1>3, <1>5, <1>6, <1>8, <2>1 DEF Seen
    <3> QED
      BY <1>1, <2>1, <3>1 DEF IInv, Rounds
  <2> QED
    BY <1>2, <2>2, <2>4, <2>5 DEF IInv
<1> QED
  BY <1>7, <1>8

LEMMA NextOperationStep ==
  ASSUME IndexTexts, TextsOfPaths, IInv, NextOperation
  PROVE  IInv'
<1>1. /\ container' = container /\ plan' = plan /\ tree' = tree /\ round' = round /\ patches' = patches
      /\ outcome' = outcome /\ workloads' = workloads /\ UNCHANGED <<input, tree, patches>>
  BY DEF NextOperation, input
<1>2. ChangedOnly' /\ PatchIsTheEdit' /\ Documents'
  BY <1>1, SameDocuments DEF IInv, Types
<1>3. op # 0 /\ outcome = "running" /\ stack = << >>
  BY DEF NextOperation, Running
<1>4. /\ doc \in DOMAIN tree /\ T = tree[doc] /\ IsWorkload(T) /\ op \in DOMAIN plan
      /\ \A m \in 1..op - 1 : AllDone(container, T, plan[m])
      /\ Calls(container, T, plan[op], stack)
  BY <1>3, Walking0
<1>5. PICK S : tree \in Seq(S)
  BY DEF IInv, Types, Documents
<1>6. DOMAIN tree = 1..Len(tree) /\ Len(tree) \in Nat
  BY <1>5, LenProperties
<1>7. workloads \in Nat /\ workloads <= doc /\ doc \in 1..Len(tree) /\ DOMAIN plan = 1..Len(plan)
      /\ Len(plan) \in {1, 2}
  BY <1>3, <1>4, <1>6 DEF IInv, Types, PlanOK
<1>8. AllDone(container, T, plan[op]) /\ ListFine(T)
  BY <1>3, <1>4, CallsAre DEF Calls, InList, InItem
<1>9. \A m \in 1..op : AllDone(container, T, plan[m])
  <2>1. \A m \in 1..op : m \in 1..op - 1 \/ m = op
    BY <1>4, <1>7
  <2> QED
    BY <1>4, <1>8, <2>1
<1>10. CASE op < Len(plan)
  <2>1. op' = op + 1 /\ stack' = <<Frame(PodSpec(T), PodSpec(T), plan[op + 1].path, NotAList)>> /\ doc' = doc
    BY <1>10 DEF NextOperation
  <2>2. op + 1 # 0 /\ op + 1 \in 0..Len(plan) /\ op \in Nat
    BY <1>4, <1>7, <1>10
  <2>3. Types'
    BY <1>1, <1>2, <1>3, <1>7, <2>1, <2>2 DEF IInv, Types
  <2>4. Walked(container, plan, tree[doc], op + 1, stack')
    <3>1. Calls(container, T, plan[op + 1], stack')
      BY <2>1 DEF Calls, AtPodSpec
    <3>2. \A m \in 1..(op + 1) - 1 : AllDone(container, T, plan[m])
      BY <1>9, <2>2
    <3> QED
      BY <1>4, <3>1, <3>2 DEF Walked
  <2>5. Position'
    BY <1>1, <1>4, <2>1, <2>2, <2>4 DEF IInv, Position
  <2>6. Rounds'
    <3>1. ASSUME NEW d \in DOMAIN tree PROVE Seen(d)' <=> Seen(d)
      BY <1>1, <1>3, <2>1, <2>2 DEF Seen
    <3> QED
      BY <1>1, <2>1, <3>1 DEF IInv, Rounds
  <2> QED
    BY <1>2, <2>3, <2>5, <2>6 DEF IInv
<1>11. CASE ~(op < Len(plan))
  <2>1. doc' = doc + 1 /\ op' = 0 /\ stack' = stack
    BY <1>11 DEF NextOperation
  <2>2. op = Len(plan)
    BY <1>4, <1>7, <1>11
  <2>3. Types'
    <3>1. doc' \in 1..Len(tree) + 1 /\ workloads' <= doc' - 1 /\ 0 \in 0..Len(plan)
      BY <1>1, <1>7, <2>1
    <3> QED
      BY <1>1, <1>2, <1>3, <2>1, <3>1 DEF IInv, Types
  <2>4. Finished(container, plan, tree[doc])
    BY <1>4, <1>7, <1>8, <1>9, <2>2 DEF Finished
  <2>5. \A d \in DOMAIN tree : d < doc + 1 => d < doc \/ d = doc
    BY <1>6, <1>7
  <2>6. Position'
    BY <1>1, <1>3, <2>1, <2>4, <2>5 DEF IInv, Position
  <2>7. Rounds'
    <3>1. ASSUME NEW d \in DOMAIN tree PROVE Seen(d)' <=> Seen(d)
      BY <1>1, <1>3, <1>6, <1>7, <2>1 DEF Seen
    <3> QED
      BY <1>1, <2>1, <3>1 DEF IInv, Rounds
  <2> QED
    BY <1>2, <2>3, <2>6, <2>7 DEF IInv
<1> QED
  BY <1>10, <1>11

LEMMA ConflictMove ==
  ASSUME IInv, Running, round # 2, Conflict
  PROVE  IInv'
<1>1. /\ container' = container /\ plan' = plan /\ tree' = tree /\ round' = round /\ patches' = patches
      /\ doc' = doc /\ op' = op /\ workloads' = workloads /\ stack' = stack /\ outcome' = "conflict"
      /\ UNCHANGED <<input, tree, patches>>
  BY DEF Conflict, input, progress
<1>2. ChangedOnly' /\ PatchIsTheEdit' /\ Documents'
  BY <1>1, SameDocuments DEF IInv, Types
<1>3. Types'
  BY <1>1, <1>2 DEF IInv, Types
<1>4. Position'
  BY <1>1 DEF IInv, Position
<1>5. Rounds'
  BY <1>1 DEF IInv, Rounds, Seen
<1> QED
  BY <1>2, <1>3, <1>4, <1>5 DEF IInv

\* A walk under way has no call but these.
LEMMA CallIsOne ==
  ASSUME IndexTexts, TextsOfPaths, IInv, op # 0, stack # << >>
  PROVE  \/ stack = <<AtPodSpec(T, plan[op].path)>>
         \/ \E k \in Nat : InList(T, plan[op].path, k, stack) /\ ItemsDone(container, T, plan[op], k)
         \/ \E k \in Nat, j \in Nat : /\ InItem(container, T, plan[op].path, k, j, stack)
                                      /\ ItemsDone(container, T, plan[op], k)
  BY Walking0 DEF Calls

\* No document is inspected while a call is under way.
LEMMA Walks ==
  ASSUME IInv, stack # << >>
  PROVE  op # 0
  BY DEF IInv, Position

LEMMA NotAMappingStep ==
  ASSUME IndexTexts, TextsOfPaths, IInv, NotAMapping
  PROVE  IInv'
<1>1. Running /\ Conflict /\ stack # << >> /\ Top.next = NotAList /\ T[Top.n].kind # "map"
  BY DEF NotAMapping, Walking
<1>2. op # 0
  BY <1>1, Walks
<1>3. ASSUME stack = <<AtPodSpec(T, plan[op].path)>> PROVE FALSE
  BY <1>1, <1>2, <1>3, SpecCall
<1>4. ASSUME NEW k \in Nat, InList(T, plan[op].path, k, stack) PROVE FALSE
  <2>1. Top.next = k
    BY <1>2, <1>4, ListCall
  <2> QED
    BY <1>1, <2>1 DEF NotAList
<1>5. ASSUME NEW k \in Nat, NEW j \in Nat, InItem(container, T, plan[op].path, k, j, stack), round = 2
      PROVE  FALSE
  <2> DEFINE c == ItemOf(T, k)
  <2>1. /\ Top.n = c \o Way(plan[op].path, j) /\ c \in Pos /\ c \in Selected(container, T)
        /\ j \in 0..Len(KeysOf(plan[op].path)) - 1
    BY <1>2, <1>5, NodeCall
  <2> HIDE DEF c
  <2>2. DoneAt(T, Goal(c, plan[op]), plan[op])
    BY <1>2, <1>5, <2>1, Walking0 DEF AllDone
  <2>3. T[c \o Way(plan[op].path, j)].kind = "map"
    <3> DEFINE o == plan[op]
    <3>1. IsTree(T) /\ IsPath(o.path, container)
      BY <1>2, Walking0
    <3>2. DoneAt(T, Goal(c, o), o) /\ j \in 0..Len(KeysOf(o.path)) - 1 /\ c \in Pos
      BY <2>1, <2>2
    <3> HIDE DEF o
    <3>3. T[c \o Way(o.path, j)].kind = "map"
      BY <3>1, <3>2, DoneNode
    <3> QED
      BY <3>3 DEF o
  <2> QED
    BY <1>1, <2>1, <2>3
<1>6. round # 2
  BY <1>1, <1>2, <1>3, <1>4, <1>5, CallIsOne
<1> QED
  BY <1>1, <1>6, ConflictMove

LEMMA SelectStep ==
  ASSUME IndexTexts, TextsOfPaths, IInv, Select
  PROVE  IInv'
<1>1. Running /\ stack # << >> /\ Top.next = NotAList /\ Seg.sel.kind # "none"
  BY DEF Select, OnMapping, Walking
<1>2. op # 0
  BY <1>1, Walks
<1>3. stack = <<AtPodSpec(T, plan[op].path)>>
  <2>1. ASSUME NEW k \in Nat, InList(T, plan[op].path, k, stack) PROVE FALSE
    <3>1. Top.next = k
      BY <1>2, <2>1, ListCall
    <3> QED
      BY <1>1, <3>1 DEF NotAList
  <2>2. ASSUME NEW k \in Nat, NEW j \in Nat, InItem(container, T, plan[op].path, k, j, stack) PROVE FALSE
    BY <1>1, <1>2, <2>2, NodeCall
  <2> QED
    BY <1>1, <1>2, <2>1, <2>2, CallIsOne
<1>4. /\ Top.path = plan[op].path /\ V = ContainersOf(T) /\ Ptr = ContainersOf(T) /\ Tail(stack) = << >>
  BY <1>2, <1>3, SpecCall
<1>5. /\ T = tree[doc] /\ IsTree(T) /\ IsWorkload(T) /\ \A m \in 1..op - 1 : AllDone(container, T, plan[m])
      /\ round = 2 => ListFine(T)
  BY <1>2, Walking0
<1>6. ASSUME Missing, Return PROVE IInv'
  <2>1. stack' = << >> /\ UNCHANGED <<doc, op, workloads, input, tree, patches, outcome>>
    BY <1>4, <1>6 DEF Return
  <2>2. AllDone(container, T, plan[op]) /\ ListFine(T)
    BY <1>4, <1>5, <1>6, NoItems DEF Missing
  <2>3. Walked(container, plan, T, op, stack')
    BY <1>5, <2>1, <2>2 DEF Walked, Calls
  <2> QED
    BY <1>2, <1>5, <2>1, <2>3, StackMove
<1>7. ASSUME ~Missing, T[V].kind # "list", Conflict PROVE IInv'
  <2>1. round # 2
    BY <1>4, <1>5, <1>7 DEF Missing, ListFine
  <2> QED
    BY <1>1, <1>7, <2>1, ConflictMove
<1>8. ASSUME ~Missing, T[V].kind = "list", Continue(Frame(V, Ptr, Top.path, 0)) PROVE IInv'
  <2>1. stack' = <<AtList(T, plan[op].path, 0)>>
    <3>1. stack' = <<AtList(T, plan[op].path, 0)>> \o Tail(<<AtPodSpec(T, plan[op].path)>>)
      BY <1>3, <1>4, <1>8 DEF Continue, AtList
    <3> QED
      BY <3>1, CallsAre
  <2>2. UNCHANGED <<doc, op, workloads, input, tree, patches, outcome>>
    BY <1>8 DEF Continue
  <2>3. IsList(T)
    BY <1>4, <1>8 DEF IsList, Missing
  <2>4. 0 \in 0..Length(T, ContainersOf(T))
    <3>1. MaxItems \in Nat /\ ContainersOf(T) \in DOMAIN T /\ T[ContainersOf(T)].kind = "list"
      BY <2>3 DEF IndexTexts, IsList
    <3>2. Length(T, ContainersOf(T)) \in 0..MaxItems
      BY <1>5, <3>1, ListLength
    <3> QED
      BY <3>1, <3>2
  <2>5. ItemsDone(container, T, plan[op], 0)
    BY DEF ItemsDone
  <2>6. InList(T, plan[op].path, 0, stack')
    BY <2>1, <2>3, <2>4 DEF InList
  <2>7. Walked(container, plan, T, op, stack')
    BY <1>5, <2>5, <2>6 DEF Walked, Calls
  <2> QED
    BY <1>2, <1>5, <2>2, <2>7, StackMove
<1> QED
  BY <1>6, <1>7, <1>8 DEF Select

\* Which items the selector of the plan selects.
LEMMA SelectsIs ==
  ASSUME IndexTexts, TextsOfPaths, IsTree(T), NEW c \in DOMAIN T, Len(c) = Len(ContainersOf(T)) + 1,
         IsPrefix(ContainersOf(T), c), NEW k
  PROVE  Selects(ContainerSegment(container).sel, k, c) <=> c \in Selected(container, T)
<1> DEFINE sel == ContainerSegment(container).sel
           f == c \o <<"name">>
<1>1. c \in Selected(container, T) <=> container = "" \/ IsNamed(container, T, c)
  BY DEF Selected
<1>2. CASE container = ""
  <2>1. sel.kind = "all"
    BY <1>2 DEF ContainerSegment, Segment, NoSelector
  <2> QED
    BY <1>1, <1>2, <2>1 DEF Selects
<1>3. CASE container # ""
  <2>1. sel.kind = "match" /\ sel.field = "name" /\ sel.value = container
    BY <1>3 DEF ContainerSegment, Segment, NoSelector
  <2> HIDE DEF sel
  <2>2. Selects(sel, k, c) <=> T[c].kind = "map" /\ f \in DOMAIN T /\ T[f].kind = "scalar" /\ T[f].value = container
    BY <2>1 DEF Selects
  <2>3. /\ f \in Pos /\ f # << >> /\ Front(f) = c /\ Last(f) = "name" /\ c \in Pos
        /\ Len(f) = Len(c) + 1 /\ IsPrefix(c, f)
    <3>1. "name" \in Texts /\ c \in Pos
      BY TokenTexts, TreeNodes
    <3> QED
      BY <3>1, PrefixChild
  <2> HIDE DEF f
  <2>4. ASSUME f \in DOMAIN T, T[f].kind = "scalar", T[f].value = container PROVE T[f] = Scalar(container)
    BY <2>4 DEF IsTree
  <2>5. Scalar(container).kind = "scalar" /\ Scalar(container).value = container
    BY DEF Scalar
  <2>6. ASSUME f \in DOMAIN T PROVE T[c].kind = "map"
    <3>1. T[c].kind \in {"map", "list"}
      BY <2>3, <2>6, TreeNodes
    <3>2. ASSUME T[c].kind = "list" PROVE FALSE
      <4>1. f \in Children(T, c)
        BY <2>3, <2>6 DEF Children
      <4>2. Children(T, c) = {c \o <<ToString(i)>> : i \in 0..Length(T, c) - 1} /\ Length(T, c) \in 0..MaxItems
        BY <3>2, ListLength
      <4>3. PICK i \in 0..Length(T, c) - 1 : f = c \o <<ToString(i)>>
        BY <4>1, <4>2
      <4>4. i \in 0..MaxItems
        <5>1. MaxItems \in Nat
          BY DEF IndexTexts
        <5> QED
          BY <4>2, <4>3, <5>1
      <4>5. ToString(i) \in Texts
        BY <4>4 DEF IndexTexts
      <4>6. Last(f) = ToString(i)
        BY <2>3, <4>3, <4>5, PrefixChild
      <4>7. ToString(i) # "name"
        BY <4>4, TokenTexts
      <4> QED
        BY <2>3, <4>6, <4>7
    <3> QED
      BY <3>1, <3>2
  <2>7. IsNamed(container, T, c) <=> f \in DOMAIN T /\ T[f] = Scalar(container)
    BY DEF IsNamed, f
  <2>8. Selects(sel, k, c) <=> c \in Selected(container, T)
    BY <1>1, <1>3, <2>2, <2>4, <2>5, <2>6, <2>7
  <2> QED
    BY <2>8 DEF sel
<1> QED
  BY <1>2, <1>3

LEMMA ItemStep ==
  ASSUME IndexTexts, TextsOfPaths, IInv, Item
  PROVE  IInv'
<1>1. Running /\ stack # << >> /\ Top.next # NotAList
      /\ UNCHANGED <<doc, op, workloads, input, tree, patches, outcome>>
  BY DEF Item
<1>2. op # 0
  BY <1>1, Walks
<1> DEFINE o == plan[op]
           path == o.path
           l == ContainersOf(T)
<1>3. PICK k \in Nat : InList(T, path, k, stack) /\ ItemsDone(container, T, o, k)
  <2>1. ASSUME stack = <<AtPodSpec(T, path)>> PROVE FALSE
    BY <1>1, <1>2, <2>1, SpecCall
  <2>2. ASSUME NEW k \in Nat, NEW j \in Nat, InItem(container, T, path, k, j, stack) PROVE FALSE
    BY <1>1, <1>2, <2>2, NodeCall
  <2> QED
    BY <1>1, <1>2, <2>1, <2>2, CallIsOne
<1>4. /\ Top.next = k /\ Top.n = l /\ Top.ptr = l /\ Seg = ContainerSegment(container)
      /\ Rest = NodePath(path, 0) /\ Tail(stack) = << >> /\ IsList(T)
      /\ [Top EXCEPT !.next = @ + 1] = AtList(T, path, k + 1)
  BY <1>2, <1>3, ListCall
<1>5. /\ T = tree[doc] /\ IsTree(T) /\ IsWorkload(T) /\ IsPath(path, container)
      /\ \A m \in 1..op - 1 : AllDone(container, T, plan[m])
  BY <1>2, Walking0
<1> DEFINE c == ItemOf(T, k)
<1>6. k \in 0..Length(T, l)
  BY <1>3 DEF InList
<1>7. /\ c \in Pos /\ IsPrefix(l, c) /\ Len(c) = Len(l) + 1 /\ (c \in DOMAIN T <=> k < Length(T, l))
      /\ Length(T, l) \in Nat
  BY <1>4, <1>5, <1>6, ItemsAre
<1>8. Top.n \o <<ToString(Top.next)>> = c /\ ItemPtr(Top.ptr, Top.next) = c
  BY <1>4 DEF ItemOf, ItemPtr
<1> DEFINE rest == <<[Top EXCEPT !.next = @ + 1]>> \o Tail(stack)
<1>9. stack' = IF c \notin DOMAIN T THEN Tail(stack)
               ELSE IF Selects(Seg.sel, k, c)
                 THEN <<Frame(c, c, Rest, NotAList)>> \o rest
                 ELSE rest
  BY <1>4, <1>8 DEF Item
<1>10. rest = <<AtList(T, path, k + 1)>>
  <2>1. PICK x : x = AtList(T, path, k + 1)
    OBVIOUS
  <2>2. rest = <<x>> \o << >>
    BY <1>4, <2>1
  <2>3. <<x>> \o << >> = <<x>>
    BY CallsAre
  <2> QED
    BY <2>1, <2>2, <2>3
<1>11. op \in DOMAIN plan
  BY <1>2, Walking0
<1> HIDE DEF o, rest, c, l
<1> SUFFICES ASSUME TRUE PROVE Walked(container, plan, T, op, stack')
  BY <1>1, <1>2, <1>5, StackMove
<1> SUFFICES ASSUME TRUE PROVE Calls(container, T, o, stack')
  BY <1>5 DEF Walked, o
<1>12. CASE c \notin DOMAIN T
  <2>1. k = Length(T, l) /\ stack' = << >>
    BY <1>4, <1>6, <1>7, <1>9, <1>12
  <2>2. AllDone(container, T, o) /\ ListFine(T)
    BY <1>3, <1>4, <1>5, <2>1, ItemsCover DEF l
  <2> QED
    BY <2>1, <2>2 DEF Calls
<1>13. CASE c \in DOMAIN T /\ Selects(Seg.sel, k, c)
  <2>1. c \in Selected(container, T)
    BY <1>4, <1>5, <1>7, <1>13, SelectsIs DEF l
  <2>2. c \o Way(path, 0) = c /\ 0 \in 0..Len(KeysOf(path)) - 1
    <3>1. Way(path, 0) = << >> /\ c \o << >> = c
      BY <1>5, <1>7, Ways, ConcatEmptySeq DEF Pos
    <3>2. Len(KeysOf(path)) \in {2, 3}
      BY <1>5, KeysAre
    <3>3. 0 \in 0..Len(KeysOf(path)) - 1
      BY <3>2
    <3> QED
      BY <3>1, <3>3
  <2>3. stack' = <<AtNode(c, path, 0), AtList(T, path, k + 1)>>
    <3>1. stack' = <<AtNode(c, path, 0)>> \o <<AtList(T, path, k + 1)>>
      BY <1>4, <1>9, <1>10, <1>13, <2>2 DEF AtNode
    <3> QED
      BY <3>1, PairIs
  <2>4. k \in 0..Length(T, l) - 1
    BY <1>6, <1>7, <1>13
  <2>5. InItem(container, T, path, k, 0, stack')
    BY <1>4, <1>13, <2>1, <2>2, <2>3, <2>4 DEF InItem, c, l
  <2>6. 0 \in Nat /\ k \in Nat
    OBVIOUS
  <2> QED
    BY <1>3, <2>5, <2>6 DEF Calls
<1>14. CASE c \in DOMAIN T /\ ~Selects(Seg.sel, k, c)
  <2>1. c \notin Selected(container, T)
    BY <1>4, <1>5, <1>7, <1>14, SelectsIs DEF l
  <2>2. stack' = <<AtList(T, path, k + 1)>>
    BY <1>9, <1>10, <1>14
  <2>3. k + 1 \in 0..Length(T, l) /\ k + 1 \in Nat
    BY <1>6, <1>7, <1>14
  <2>4. ItemsDone(container, T, o, k + 1)
    BY <1>3, <2>1, NextItem DEF c
  <2>5. InList(T, path, k + 1, stack')
    BY <1>4, <2>2, <2>3 DEF InList, l
  <2> QED
    BY <2>3, <2>4, <2>5 DEF Calls
<1> QED
  BY <1>12, <1>13, <1>14

\* A call at a segment without a selector is inside a container.
LEMMA InAnItem ==
  ASSUME IndexTexts, TextsOfPaths, IInv, op # 0, stack # << >>, Top.next = NotAList, Seg.sel.kind = "none"
  PROVE  \E k \in Nat, j \in Nat : /\ InItem(container, T, plan[op].path, k, j, stack)
                                   /\ ItemsDone(container, T, plan[op], k)
<1>1. ASSUME stack = <<AtPodSpec(T, plan[op].path)>> PROVE FALSE
  BY <1>1, SpecCall
<1>2. ASSUME NEW k \in Nat, InList(T, plan[op].path, k, stack) PROVE FALSE
  <2>1. Top.next = k
    BY <1>2, ListCall
  <2> QED
    BY <2>1 DEF NotAList
<1> QED
  BY <1>1, <1>2, CallIsOne

LEMMA DescendStep ==
  ASSUME IndexTexts, TextsOfPaths, IInv, Descend
  PROVE  IInv'
<1>1. /\ stack # << >> /\ Top.next = NotAList /\ Seg.sel.kind = "none" /\ Rest # << >> /\ ~Missing
      /\ stack' = <<Frame(V, Ptr, Rest, NotAList)>> \o Tail(stack)
      /\ UNCHANGED <<doc, op, workloads, input, tree, patches, outcome>>
  BY DEF Descend, OnMapping, Walking, Continue
<1>2. op # 0
  BY <1>1, Walks
<1> DEFINE o == plan[op]
           path == o.path
<1>3. PICK k \in Nat, j \in Nat : InItem(container, T, path, k, j, stack) /\ ItemsDone(container, T, o, k)
  BY <1>1, <1>2, InAnItem
<1> DEFINE c == ItemOf(T, k)
<1>4. /\ V = c \o Way(path, j + 1) /\ Ptr = V /\ Rest = NodePath(path, j + 1)
      /\ j + 1 # Len(KeysOf(path)) /\ j \in 0..Len(KeysOf(path)) - 1
      /\ Tail(stack) = <<AtList(T, path, k + 1)>>
  BY <1>1, <1>2, <1>3, NodeCall
<1>5. V \in DOMAIN T
  BY <1>1 DEF Missing
<1>6. /\ T = tree[doc] /\ IsWorkload(T) /\ IsPath(path, container)
      /\ \A m \in 1..op - 1 : AllDone(container, T, plan[m])
  BY <1>2, Walking0
<1>7. j + 1 \in 0..Len(KeysOf(path)) - 1 /\ j + 1 \in Nat
  <2>1. IsPath(path, container)
    BY <1>6
  <2>2. Len(KeysOf(path)) \in {2, 3}
    BY <2>1, KeysAre
  <2> QED
    BY <1>4, <2>2
<1>8. stack' = <<AtNode(c, path, j + 1), AtList(T, path, k + 1)>>
  <2>1. stack' = <<AtNode(c, path, j + 1)>> \o <<AtList(T, path, k + 1)>>
    BY <1>1, <1>4 DEF AtNode
  <2> QED
    BY <2>1, PairIs
<1> HIDE DEF o
<1>9. InItem(container, T, path, k, j + 1, stack')
  BY <1>3, <1>4, <1>5, <1>7, <1>8 DEF InItem
<1>10. Calls(container, T, o, stack')
  BY <1>3, <1>7, <1>9 DEF Calls
<1>11. Walked(container, plan, T, op, stack')
  BY <1>6, <1>10 DEF Walked, o
<1> QED
  BY <1>1, <1>2, <1>6, <1>11, StackMove

(***************************************************************************)
(* Steps that edit.                                                        *)
(***************************************************************************)
Shared(b, ops) == \E a \in Aliases(b), i \in DOMAIN ops : IsPrefix(b[a].target, ops[i].path)

\* o is the operation of the JSON Patch that puts sub at w.
PatchFor(t, w, sub, o) ==
  /\ o.value = sub
  /\ o.op = "replace" => w \in DOMAIN t
  /\ \/ t[Front(w)].kind = "map" /\ o.path = w
     \/ t[Front(w)].kind = "list" /\ o.path = Front(w) \o <<"-">> /\ o.op = "add"

LEMMA PatchStep ==
  ASSUME IndexTexts, TextsOfPaths, NEW b, NEW t, IsTree(t), SameAliases(b, t),
         NEW S, NEW ops \in Seq(S), NEW w, NEW sub, Site(t, w), IsPart(sub),
         NEW o, PatchFor(t, w, sub, o), Shared(b, ops) \/ ApplyPatch(Json(b), ops) = Json(t)
  PROVE  Shared(b, Append(ops, o)) \/ ApplyPatch(Json(b), Append(ops, o)) = Json(Graft(t, w, sub))
<1> DEFINE R == S \cup {o}
           more == Append(ops, o)
<1>1. ops \in Seq(R) /\ o \in R
  BY SeqGrows
<1> HIDE DEF R
<1>2. /\ more \in Seq(R) /\ Len(more) = Len(ops) + 1 /\ more[Len(ops) + 1] = o
      /\ \A i \in 1..Len(ops) : more[i] = ops[i]
  BY <1>1, AppendProperties
<1>3. DOMAIN ops = 1..Len(ops) /\ DOMAIN more = 1..Len(more) /\ Len(ops) \in Nat /\ Len(more) \in Nat
  BY <1>1, <1>2, LenProperties
<1>4. ApplyPatch(Json(b), more) = ApplyPatchOp(ApplyPatch(Json(b), ops), o)
  <2>1. PICK v : v = Json(b)
    OBVIOUS
  <2>2. \A Q : \A s \in Seq(Q), e \in Q : ApplyPatch(v, Append(s, e)) = ApplyPatchOp(ApplyPatch(v, s), e)
    BY ApplyPatchIs
  <2>3. ApplyPatch(v, Append(ops, o)) = ApplyPatchOp(ApplyPatch(v, ops), o)
    BY <1>1, <2>2
  <2> QED
    BY <2>1, <2>3
<1> HIDE DEF more
<1>5. (\A i \in DOMAIN ops : i \in DOMAIN more /\ more[i] = ops[i]) /\ Len(ops) + 1 \in DOMAIN more
  BY <1>2, <1>3
<1>6. CASE Shared(b, ops)
  BY <1>5, <1>6 DEF Shared, more
<1>7. CASE \E a \in Aliases(b) : IsPrefix(b[a].target, o.path)
  BY <1>2, <1>5, <1>7 DEF Shared, more
<1>8. CASE ~Shared(b, ops) /\ \A a \in Aliases(b) : ~IsPrefix(b[a].target, o.path)
  <2>1. ASSUME NEW a \in Aliases(t)
        PROVE  t[a].target \in DOMAIN t /\ t[a].target \in Pos /\ ~IsPrefix(t[a].target, o.path)
    <3>1. t[a].target \in DOMAIN t
      BY DEF IsTree
    <3>2. a \in Aliases(b) /\ b[a] = t[a]
      BY DEF SameAliases
    <3> QED
      BY <1>8, <3>1, <3>2, TreeNodes
  <2> DEFINE f == Front(w)
  <2>2. /\ w \in Pos /\ w # << >> /\ f \in Pos /\ f \in DOMAIN t
        /\ \A p \in Pos : IsPrefix(p, w) /\ p # w => IsPrefix(p, f)
    BY PrefixFront DEF Site
  <2> HIDE DEF f
  <2>3. NotShared(t, w)
    <3> SUFFICES ASSUME NEW a \in Aliases(t), IsPrefix(t[a].target, w) PROVE FALSE
      BY DEF NotShared
    <3>1. CASE o.path = w
      BY <2>1, <3>1
    <3>2. CASE t[f].kind = "list" /\ o.path = f \o <<"-">>
      <4>1. t[a].target # w
        BY <2>1, <3>2, SiteAlone DEF f
      <4>2. IsPrefix(t[a].target, f)
        BY <2>1, <2>2, <4>1
      <4>3. "-" \in Texts
        BY TokenTexts
      <4>4. o.path \in Pos /\ IsPrefix(f, o.path)
        BY <2>2, <3>2, <4>3, PrefixChild
      <4>5. IsPrefix(t[a].target, o.path)
        BY <2>1, <2>2, <4>2, <4>4, PrefixOrder
      <4> QED
        BY <2>1, <4>5
    <3> QED
      BY <3>1, <3>2 DEF PatchFor, f
  <2>4. ApplyPatchOp(Json(t), o) = Json(Graft(t, w, sub))
    <3>1. /\ o.value = sub
          /\ o.op = "replace" => w \in DOMAIN t
          /\ \/ t[Front(w)].kind = "map" /\ o.path = w
             \/ t[Front(w)].kind = "list" /\ o.path = Front(w) \o <<"-">> /\ o.op = "add"
      BY DEF PatchFor
    <3> QED
      BY <2>3, <3>1, PatchApplies
  <2> QED
    BY <1>4, <1>8, <2>4 DEF more
<1> QED
  BY <1>6, <1>7, <1>8

LEMMA SeqUpdated ==
  ASSUME NEW S, NEW s \in Seq(S), NEW i \in DOMAIN s, NEW x
  PROVE  /\ [s EXCEPT ![i] = x] \in Seq(S \cup {x}) /\ Len([s EXCEPT ![i] = x]) = Len(s)
         /\ DOMAIN [s EXCEPT ![i] = x] = DOMAIN s
<1> DEFINE u == [s EXCEPT ![i] = x]
           n == Len(s)
<1>1. n \in Nat /\ s \in [1..n -> S]
  BY LenProperties
<1>2. u \in [1..n -> S \cup {x}] /\ DOMAIN u = DOMAIN s
  BY <1>1
<1> HIDE DEF u, n
<1>3. u \in Seq(S \cup {x})
  BY <1>1, <1>2, SeqDef
<1>4. DOMAIN u = 1..n /\ DOMAIN u = 1..Len(u) /\ Len(u) \in Nat
  BY <1>2, <1>3, LenProperties
<1>5. Len(u) = n
  BY <1>1, <1>4
<1> QED
  BY <1>2, <1>3, <1>5 DEF u, n

\* The step of an edit in the k-th container: sub is stored at w, and reported by o.
EditStep(k, j, w, sub, o) ==
  /\ Running /\ round # 2 /\ op # 0
  /\ k \in Nat /\ j \in Nat /\ InItem(container, T, plan[op].path, k, j, stack)
  /\ ItemsDone(container, T, plan[op], k)
  /\ Effect(T, ItemOf(T, k), plan[op], w, sub)
  /\ PatchFor(T, w, sub, o)
  /\ tree' = [tree EXCEPT ![doc] = Graft(@, w, sub)]
  /\ patches' = [patches EXCEPT ![doc] = Append(@, o)]
  /\ stack' = Tail(stack)
  /\ UNCHANGED <<doc, op, workloads, input, outcome>>

LEMMA EditMove ==
  ASSUME IndexTexts, TextsOfPaths, IInv, NEW k, NEW j, NEW w, NEW sub, NEW o, EditStep(k, j, w, sub, o)
  PROVE  IInv'
<1> DEFINE c == ItemOf(T, k)
           g == Graft(T, w, sub)
<1>1. /\ container' = container /\ plan' = plan /\ round' = round /\ given' = given /\ original' = original
      /\ doc' = doc /\ op' = op /\ workloads' = workloads /\ outcome' = outcome /\ stack' = Tail(stack)
      /\ round # 2 /\ outcome = "running" /\ op # 0
  BY DEF EditStep, input, Running
<1>2. /\ doc \in DOMAIN tree /\ T = tree[doc] /\ IsTree(T) /\ IsWorkload(T) /\ op \in DOMAIN plan
      /\ IsPath(plan[op].path, container)
      /\ \A m \in 1..op - 1 : AllDone(container, T, plan[m])
  BY <1>1, Walking0
<1>3. Effect(T, c, plan[op], w, sub) /\ Site(T, w) /\ IsPart(sub) /\ PatchFor(T, w, sub, o)
  BY DEF EditStep, Effect
<1>4. Edited(T, c, plan[op], w, sub, g)
  BY <1>3 DEF Edited
<1>5. /\ k \in Nat /\ j \in Nat /\ InItem(container, T, plan[op].path, k, j, stack)
      /\ ItemsDone(container, T, plan[op], k) /\ c \in Selected(container, T)
  BY DEF EditStep, InItem
<1>6. PlanOK(plan, container)
  BY DEF IInv, Types
<1>7. c \in Pos
  BY <1>2, <1>5, SelectedIs
<1>8. /\ DOMAIN tree' = DOMAIN tree /\ tree'[doc] = g
      /\ \A d \in DOMAIN tree : d # doc => tree'[d] = tree[d]
      /\ Len(tree') = Len(tree) /\ \E S : tree' \in Seq(S)
  <2>1. tree' = [tree EXCEPT ![doc] = g]
    BY <1>2 DEF EditStep
  <2>2. PICK S : tree \in Seq(S)
    BY DEF IInv, Types, Documents
  <2> HIDE DEF g
  <2>3. /\ [tree EXCEPT ![doc] = g] \in Seq(S \cup {g}) /\ Len([tree EXCEPT ![doc] = g]) = Len(tree)
        /\ DOMAIN [tree EXCEPT ![doc] = g] = DOMAIN tree
    BY <1>2, <2>2, SeqUpdated
  <2> QED
    BY <1>2, <2>1, <2>3
<1>9. /\ DOMAIN patches = DOMAIN tree /\ DOMAIN patches' = DOMAIN tree
      /\ patches'[doc] = Append(patches[doc], o)
      /\ \A d \in DOMAIN tree : d # doc => patches'[d] = patches[d]
  <2>1. DOMAIN patches = DOMAIN tree
    BY DEF IInv, Types, Documents
  <2> QED
    BY <1>2, <2>1 DEF EditStep
<1>10. PICK S : patches[doc] \in Seq(S)
  BY <1>2 DEF IInv, Types, Documents
<1> HIDE DEF c, g
<1>11. /\ IsTree(g) /\ Aliases(g) = Aliases(T) /\ \A a \in Aliases(T) : g[a] = T[a]
  <2>1. IsTree(T) /\ IsPath(plan[op].path, container)
    BY <1>2
  <2> QED
    BY <1>4, <1>7, <2>1, EffectKeeps
<1>12. IsWorkload(g)
  BY <1>2, <1>4, <1>5, EffectKeepsContainers
<1>13. Documents'
  <2>1. SameAliases(given[doc], T)
    BY <1>2 DEF IInv, Types, Documents
  <2>2. SameAliases(given[doc], g)
    BY <1>11, <2>1 DEF SameAliases
  <2>3. \E R : patches'[doc] \in Seq(R)
    <3>1. patches[doc] \in Seq(S \cup {o}) /\ o \in S \cup {o}
      BY <1>10, SeqGrows
    <3>2. Append(patches[doc], o) \in Seq(S \cup {o})
      BY <3>1, AppendProperties
    <3> QED
      BY <1>9, <3>2
  <2>4. ASSUME NEW d \in DOMAIN tree
        PROVE  /\ IsTree(tree'[d]) /\ IsTree(given[d]) /\ IsTree(original[d]) /\ SameAliases(given[d], tree'[d])
               /\ \E R : patches'[d] \in Seq(R)
    <3>1. CASE d = doc
      BY <1>8, <1>11, <2>2, <2>3, <3>1 DEF IInv, Types, Documents
    <3>2. CASE d # doc
      BY <1>8, <1>9, <3>2 DEF IInv, Types, Documents
    <3> QED
      BY <3>1, <3>2
  <2>5. DOMAIN given = DOMAIN tree /\ DOMAIN original = DOMAIN tree
    BY DEF IInv, Types, Documents
  <2> QED
    BY <1>1, <1>8, <1>9, <2>4, <2>5 DEF Documents
<1>14. Types'
  BY <1>1, <1>8, <1>13 DEF IInv, Types
<1>15. Position'
  <2>1. Walked(container, plan, g, op, Tail(stack))
    BY <1>2, <1>4, <1>5, <1>6, EditWalks DEF c
  <2>2. ASSUME NEW d \in DOMAIN tree, d < doc PROVE Finished(container, plan, tree'[d])
    <3>1. d # doc
      <4>1. doc \in Int
        <5>1. PICK R : tree \in Seq(R)
          BY DEF IInv, Types, Documents
        <5>2. doc \in 1..Len(tree) /\ Len(tree) \in Nat
          BY <1>2, <5>1, LenProperties
        <5> QED
          BY <5>2
      <4> QED
        BY <2>2, <4>1
    <3> QED
      BY <1>8, <2>2, <3>1 DEF IInv, Position
  <2> QED
    BY <1>1, <1>2, <1>8, <2>1, <2>2 DEF Position
<1>16. Rounds'
  <2>1. ASSUME NEW d \in DOMAIN tree PROVE Seen(d)' <=> Seen(d)
    <3>1. IsWorkload(tree'[d]) <=> IsWorkload(tree[d])
      BY <1>2, <1>8, <1>12
    <3> QED
      BY <1>1, <3>1 DEF Seen
  <2> QED
    BY <1>1, <1>8, <2>1 DEF IInv, Rounds
<1>17. ChangedOnly'
  <2>1. Changes(container, plan, original[doc], T)
    BY <1>2 DEF IInv, ChangedOnly
  <2>2. Changes(container, plan, original[doc], g)
    BY <1>2, <1>4, <1>5, <1>6, <2>1, ChangesStep
  <2> QED
    BY <1>1, <1>2, <1>8, <2>2 DEF IInv, ChangedOnly
<1>18. PatchIsTheEdit'
  <2>1. Shared(given[doc], patches[doc]) \/ ApplyPatch(Json(given[doc]), patches[doc]) = Json(T)
    BY <1>2 DEF IInv, PatchIsTheEdit, EditsShared, Patched, Shared
  <2>2. SameAliases(given[doc], T)
    BY <1>2 DEF IInv, Types, Documents
  <2>3. \/ Shared(given[doc], Append(patches[doc], o))
        \/ ApplyPatch(Json(given[doc]), Append(patches[doc], o)) = Json(g)
    <3>1. PICK b, ops : b = given[doc] /\ ops = patches[doc]
      OBVIOUS
    <3>2. ops \in Seq(S) /\ SameAliases(b, T) /\ (Shared(b, ops) \/ ApplyPatch(Json(b), ops) = Json(T))
      BY <1>10, <2>1, <2>2, <3>1
    <3>3. Shared(b, Append(ops, o)) \/ ApplyPatch(Json(b), Append(ops, o)) = Json(Graft(T, w, sub))
      BY <1>2, <1>3, <3>2, PatchStep
    <3> QED
      BY <3>1, <3>3 DEF g
  <2>4. Shared(given[doc], patches'[doc]) \/ ApplyPatch(Json(given[doc]), patches'[doc]) = Json(tree'[doc])
    BY <1>8, <1>9, <2>3
  <2>5. ASSUME NEW d \in DOMAIN tree
        PROVE  Shared(given[d], patches'[d]) \/ ApplyPatch(Json(given[d]), patches'[d]) = Json(tree'[d])
    <3>1. CASE d = doc
      BY <2>4, <3>1
    <3>2. CASE d # doc
      BY <1>8, <1>9, <3>2 DEF IInv, PatchIsTheEdit, EditsShared, Patched, Shared
    <3> QED
      BY <3>1, <3>2
  <2> QED
    BY <1>1, <1>8, <2>5 DEF PatchIsTheEdit, EditsShared, Patched, Shared
<1> QED
  BY <1>14, <1>15, <1>16, <1>17, <1>18 DEF IInv

\* What a call inside a container finds when its operation has been done.
LEMMA SecondVisit ==
  ASSUME IndexTexts, TextsOfPaths, IInv, op # 0, round = 2, NEW k \in Nat, NEW j \in Nat,
         InItem(container, T, plan[op].path, k, j, stack)
  PROVE  /\ ~Missing
         /\ Rest = << >> => /\ plan[op].op = "set" => T[V] = Scalar(plan[op].value)
                            /\ plan[op].op = "add" => T[V].kind = "list" /\ ListHolds
<1> DEFINE o == plan[op]
           c == ItemOf(T, k)
           K == KeysOf(o.path)
<1>1. /\ c \in Pos /\ c \in Selected(container, T) /\ j \in 0..Len(K) - 1
      /\ V = c \o Way(o.path, j + 1) /\ (Rest = << >> <=> j + 1 = Len(K)) /\ (j + 1 = Len(K) => V = Goal(c, o))
  BY NodeCall
<1>2. IsTree(T) /\ IsPath(o.path, container) /\ o.op \in {"set", "add"}
  BY Walking0
<1>3. Len(K) \in {2, 3}
  BY <1>2, KeysAre
<1>4. DoneAt(T, Goal(c, o), o)
  <2>1. AllDone(container, T, o)
    BY Walking0
  <2> QED
    BY <1>1, <2>1 DEF AllDone
<1> HIDE DEF o, c
<1>5. /\ j + 1 < Len(K) =>
           c \o Way(o.path, j + 1) \in DOMAIN T /\ T[c \o Way(o.path, j + 1)].kind = "map"
      /\ Goal(c, o) \in DOMAIN T
      /\ o.op = "set" => T[Goal(c, o)] = Scalar(o.value)
      /\ o.op = "add" => /\ T[Goal(c, o)].kind = "list"
                         /\ \E i \in 0..Length(T, Goal(c, o)) - 1 :
                              T[Goal(c, o) \o <<ToString(i)>>] = Scalar(o.value)
  BY <1>1, <1>2, <1>4, DoneNode, ZenonT(30)
<1>6. j + 1 < Len(K) \/ j + 1 = Len(K)
  BY <1>1, <1>3
<1>7. \A v : Scalar(v).kind = "scalar" /\ Scalar(v).value = v
  BY DEF Scalar
<1>8. ASSUME j + 1 < Len(K) PROVE ~Missing /\ Rest # << >>
  <2>1. Rest # << >>
    BY <1>1, <1>3, <1>8
  <2> QED
    BY <1>1, <1>5, <1>8, <2>1 DEF Missing
<1>9. ASSUME j + 1 = Len(K)
      PROVE  /\ ~Missing
             /\ o.op = "set" => T[V] = Scalar(o.value)
             /\ o.op = "add" => T[V].kind = "list" /\ ListHolds
  <2>1. V = Goal(c, o)
    BY <1>1, <1>9
  <2>2. o.op = "set" => T[V] = Scalar(o.value)
    BY <1>5, <2>1
  <2>3. ASSUME o.op = "add" PROVE T[V].kind = "list" /\ ListHolds
    <3>1. PICK i \in 0..Length(T, V) - 1 : T[V \o <<ToString(i)>>] = Scalar(o.value)
      BY <1>5, <2>1, <2>3
    <3>2. T[V].kind = "list"
      BY <1>5, <2>1, <2>3
    <3>3. Holds(V \o <<ToString(i)>>)
      BY <1>7, <3>1 DEF Holds, o
    <3> QED
      BY <3>1, <3>2, <3>3 DEF ListHolds
  <2>4. ~Missing
    BY <1>2, <1>5, <1>7, <2>1, <2>2, <2>3 DEF Missing
  <2> QED
    BY <2>2, <2>3, <2>4
<1> QED
  BY <1>6, <1>8, <1>9 DEF o

LEMMA CreateStep ==
  ASSUME IndexTexts, TextsOfPaths, IInv, Create
  PROVE  IInv'
<1>1. /\ Running /\ stack # << >> /\ Top.next = NotAList /\ T[Top.n].kind = "map" /\ Seg.sel.kind = "none"
      /\ Rest # << >> /\ Missing
  BY DEF Create, OnMapping, Walking
<1>2. op # 0
  BY <1>1, Walks
<1> DEFINE o == plan[op]
           path == o.path
<1>3. PICK k \in Nat, j \in Nat : InItem(container, T, path, k, j, stack) /\ ItemsDone(container, T, o, k)
  BY <1>1, <1>2, InAnItem
<1> DEFINE c == ItemOf(T, k)
           K == KeysOf(path)
           sub == Nested(KeysOn(path, j + 1), LeafOf(o))
           kind == IF V \in DOMAIN T THEN "replace" ELSE "add"
           report == [op |-> kind, path |-> V, value |-> sub]
<1>4. /\ Top.n \in DOMAIN T /\ Top.n \in Pos /\ c \in Pos /\ j \in 0..Len(K) - 1 /\ K[j + 1] \in Texts
      /\ Rest = NodePath(path, j + 1)
      /\ V = Top.n \o <<K[j + 1]>> /\ V = c \o Way(path, j + 1) /\ Ptr = V
      /\ \A i \in DOMAIN Rest : Rest[i].sel.kind = "none"
  BY <1>2, <1>3, NodeCall
<1>5. IsTree(T) /\ IsPath(path, container) /\ o.op \in {"set", "add"} /\ doc \in DOMAIN tree /\ T = tree[doc]
  BY <1>2, Walking0
<1>6. round # 2
  BY <1>1, <1>2, <1>3, SecondVisit
<1>7. Put(sub)
  <2>1. [i \in DOMAIN Rest |-> Rest[i].key] = KeysOn(path, j + 1)
    BY <1>4 DEF KeysOn
  <2>2. Leaf = LeafOf(o)
    BY DEF Leaf, LeafOf
  <2>3. Put(Nested([i \in DOMAIN Rest |-> Rest[i].key], Leaf))
    BY <1>4 DEF Create
  <2> QED
    BY <2>1, <2>2, <2>3
<1>8. Site(T, V) /\ (V \in DOMAIN T => T[V].kind = "null")
  <2>1. V \in DOMAIN T => T[V].kind = "null"
    BY <1>1 DEF Missing
  <2> QED
    BY <1>1, <1>4, <2>1, KeySite
<1>9. Effect(T, c, o, V, sub)
  BY <1>1, <1>4, <1>5, <1>8, CreateEffect
<1>10. PatchFor(T, V, sub, report)
  <2>1. T[Front(V)].kind = "map"
    BY <1>1, <1>4, PrefixChild
  <2> HIDE DEF sub
  <2> QED
    BY <2>1 DEF PatchFor
<1>11. EditStep(k, j, V, sub, report)
  <2> HIDE DEF sub
  <2>1. tree' = [tree EXCEPT ![doc] = Graft(@, V, sub)]
    BY <1>7 DEF Put
  <2>2. patches' = [patches EXCEPT ![doc] = Append(@, report)]
    BY <1>4, <1>7 DEF Put, Report
  <2>3. stack' = Tail(stack) /\ UNCHANGED <<doc, op, workloads, input, outcome>>
    BY <1>7 DEF Put
  <2> QED
    BY <1>1, <1>2, <1>3, <1>6, <1>9, <1>10, <2>1, <2>2, <2>3 DEF EditStep
<1> QED
  BY <1>11, EditMove

LEMMA EditsStep ==
  ASSUME IndexTexts, TextsOfPaths, IInv, Edit
  PROVE  IInv'
<1>1. /\ Running /\ stack # << >> /\ Top.next = NotAList /\ T[Top.n].kind = "map" /\ Seg.sel.kind = "none"
      /\ Rest = << >>
  BY DEF Edit, OnMapping, Walking
<1>2. op # 0
  BY <1>1, Walks
<1> DEFINE o == plan[op]
           path == o.path
<1>3. PICK k \in Nat, j \in Nat : InItem(container, T, path, k, j, stack) /\ ItemsDone(container, T, o, k)
  BY <1>1, <1>2, InAnItem
<1> DEFINE c == ItemOf(T, k)
           K == KeysOf(path)
<1>4. /\ Top.n \in DOMAIN T /\ Top.n \in Pos /\ c \in Pos /\ j + 1 = Len(K) /\ K[j + 1] \in Texts
      /\ V = Top.n \o <<K[j + 1]>> /\ V = Goal(c, o) /\ Ptr = V /\ c \in Selected(container, T)
      /\ Tail(stack) = <<AtList(T, path, k + 1)>>
  BY <1>1, <1>2, <1>3, NodeCall
<1>5. /\ IsTree(T) /\ IsWorkload(T) /\ IsPath(path, container) /\ o.op \in {"set", "add"}
      /\ doc \in DOMAIN tree /\ T = tree[doc]
      /\ \A m \in 1..op - 1 : AllDone(container, T, plan[m])
  BY <1>2, Walking0
<1>6. V \in Pos /\ Front(V) = Top.n
  BY <1>4, PrefixChild
\* The operation is done here already.
<1>7. ASSUME DoneAt(T, V, o), Return PROVE IInv'
  <2>1. ItemsDone(container, T, o, k + 1) /\ k + 1 \in Nat
    <3>1. DoneAt(T, Goal(ItemOf(T, k), o), o)
      BY <1>4, <1>7
    <3>2. ItemsDone(container, T, o, k) /\ k \in Nat
      BY <1>3
    <3>3. ItemsDone(container, T, o, k + 1)
      BY <3>1, <3>2, NextItem
    <3> QED
      BY <3>2, <3>3
  <2>2. InList(T, path, k + 1, stack')
    <3>1. /\ IsList(T) /\ k \in 0..Length(T, ContainersOf(T)) - 1
          /\ stack' = <<AtList(T, path, k + 1)>>
      BY <1>3, <1>4, <1>7 DEF InItem, Return
    <3>2. Length(T, ContainersOf(T)) \in Nat
      <4>1. MaxItems \in Nat /\ ContainersOf(T) \in DOMAIN T /\ T[ContainersOf(T)].kind = "list"
        BY <3>1 DEF IndexTexts, IsList
      <4>2. Length(T, ContainersOf(T)) \in 0..MaxItems
        BY <1>5, <4>1, ListLength
      <4> QED
        BY <4>1, <4>2
    <3>3. k + 1 \in 0..Length(T, ContainersOf(T))
      BY <3>1, <3>2
    <3> QED
      BY <3>1, <3>3 DEF InList
  <2>3. Calls(container, T, o, stack')
    BY <2>1, <2>2 DEF Calls
  <2>4. Walked(container, plan, T, op, stack')
    BY <1>5, <2>3 DEF Walked
  <2>5. UNCHANGED <<doc, op, workloads, input, tree, patches, outcome>>
    BY <1>7 DEF Return
  <2> QED
    BY <1>2, <1>5, <2>4, <2>5, StackMove
\* The leaf is stored.
<1>8. ASSUME round # 2, Put(Leaf), V \in DOMAIN T => T[V].kind = "null" \/ (o.op = "set" /\ T[V].kind = "scalar")
      PROVE  IInv'
  <2> DEFINE kind == IF V \in DOMAIN T THEN "replace" ELSE "add"
             report == [op |-> kind, path |-> V, value |-> LeafOf(o)]
  <2>1. Leaf = LeafOf(o)
    BY DEF Leaf, LeafOf
  <2>2. Site(T, V)
    BY <1>1, <1>4, <1>8, KeySite
  <2>3. Effect(T, c, o, V, LeafOf(o))
    BY <1>4, <1>5, <1>8, <2>2, PutEffect
  <2>4. PatchFor(T, V, LeafOf(o), report)
    BY <1>1, <1>6 DEF PatchFor
  <2>5. EditStep(k, j, V, LeafOf(o), report)
    <3>1. tree' = [tree EXCEPT ![doc] = Graft(@, V, LeafOf(o))]
      BY <1>8, <2>1 DEF Put
    <3>2. patches' = [patches EXCEPT ![doc] = Append(@, report)]
      BY <1>4, <1>8, <2>1 DEF Put, Report
    <3>3. stack' = Tail(stack) /\ UNCHANGED <<doc, op, workloads, input, outcome>>
      BY <1>8 DEF Put
    <3> QED
      BY <1>1, <1>2, <1>3, <1>8, <2>3, <2>4, <3>1, <3>2, <3>3 DEF EditStep
  <2> QED
    BY <2>5, EditMove
\* The item is appended.
<1>9. ASSUME round # 2, AppendItem, V \in DOMAIN T, T[V].kind = "list", o.op = "add" PROVE IInv'
  <2> DEFINE w == V \o <<NextIndex>>
             sub == Sole(Scalar(o.value))
             report == [op |-> "add", path |-> V \o <<"-">>, value |-> sub]
  <2>1. Length(T, V) < MaxItems /\ NextIndex = ToString(Length(T, V))
    BY <1>9 DEF AppendItem, NextIndex
  <2>2. Effect(T, c, o, w, sub)
    BY <1>4, <1>5, <1>9, <2>1, AppendEffect
  <2>3. NextIndex \in Texts
    <3>1. Length(T, V) \in 0..MaxItems
      BY <1>5, <1>9, ListLength
    <3> QED
      BY <2>1, <3>1 DEF IndexTexts
  <2>4. Front(w) = V
    BY <1>6, <2>3, PrefixChild
  <2>5. PatchFor(T, w, sub, report)
    BY <1>9, <2>4 DEF PatchFor
  <2>6. EditStep(k, j, w, sub, report)
    <3>1. tree' = [tree EXCEPT ![doc] = Graft(@, w, sub)]
      BY <1>9 DEF AppendItem
    <3>2. patches' = [patches EXCEPT ![doc] = Append(@, report)]
      BY <1>4, <1>9 DEF AppendItem, Report
    <3>3. stack' = Tail(stack) /\ UNCHANGED <<doc, op, workloads, input, outcome>>
      BY <1>9 DEF AppendItem
    <3> QED
      BY <1>1, <1>2, <1>3, <1>9, <2>2, <2>5, <3>1, <3>2, <3>3 DEF EditStep
  <2> QED
    BY <2>6, EditMove
<1>10. round = 2 => /\ ~Missing
                    /\ o.op = "set" => T[V] = Scalar(o.value)
                    /\ o.op = "add" => T[V].kind = "list" /\ ListHolds
  BY <1>1, <1>2, <1>3, SecondVisit
<1>11. \A v : Scalar(v).kind = "scalar" /\ Scalar(v).value = v
  BY DEF Scalar
<1>12. CASE Missing /\ Put(Leaf)
  <2>1. round # 2
    BY <1>10, <1>12
  <2>2. V \in DOMAIN T => T[V].kind = "null"
    BY <1>12 DEF Missing
  <2>3. V \in DOMAIN T => T[V].kind = "null" \/ (o.op = "set" /\ T[V].kind = "scalar")
    BY <2>2
  <2>4. Put(Leaf)
    BY <1>12
  <2> QED
    BY <1>8, <2>1, <2>3, <2>4
<1>13. CASE /\ ~Missing /\ o.op = "set"
            /\ \/ T[V].kind # "scalar" /\ Conflict
               \/ T[V].kind = "scalar" /\ Holds(V) /\ Return
               \/ T[V].kind = "scalar" /\ ~Holds(V) /\ Put(Leaf)
  <2>1. V \in DOMAIN T
    BY <1>13 DEF Missing
  <2>2. CASE T[V].kind # "scalar" /\ Conflict
    <3>1. round # 2
      BY <1>10, <1>11, <1>13, <2>2
    <3> QED
      BY <1>1, <2>2, <3>1, ConflictMove
  <2>3. CASE T[V].kind = "scalar" /\ Holds(V) /\ Return
    <3>1. T[V] = Scalar(T[V].value)
      BY <1>5, <2>1, <2>3 DEF IsTree
    <3>2. T[V] = Scalar(o.value)
      BY <2>3, <3>1 DEF Holds
    <3>3. DoneAt(T, V, o)
      BY <1>13, <2>1, <3>2 DEF DoneAt
    <3> QED
      BY <1>7, <2>3, <3>3
  <2>4. CASE T[V].kind = "scalar" /\ ~Holds(V) /\ Put(Leaf)
    <3>1. round # 2
      BY <1>10, <1>11, <1>13, <2>4 DEF Holds
    <3> QED
      BY <1>8, <1>13, <2>4, <3>1
  <2> QED
    BY <1>13, <2>2, <2>3, <2>4
<1>14. CASE /\ ~Missing /\ o.op = "add"
            /\ \/ T[V].kind # "list" /\ Conflict
               \/ T[V].kind = "list" /\ ListHolds /\ Return
               \/ T[V].kind = "list" /\ ~ListHolds /\ AppendItem
  <2>1. V \in DOMAIN T
    BY <1>14 DEF Missing
  <2>2. CASE T[V].kind # "list" /\ Conflict
    <3>1. round # 2
      BY <1>10, <1>14, <2>2
    <3> QED
      BY <1>1, <2>2, <3>1, ConflictMove
  <2>3. CASE T[V].kind = "list" /\ ListHolds /\ Return
    <3>1. PICK i \in 0..Length(T, V) - 1 : Holds(V \o <<ToString(i)>>)
      BY <2>3 DEF ListHolds
    <3> DEFINE p == V \o <<ToString(i)>>
    <3>2. /\ Children(T, V) = {V \o <<ToString(m)>> : m \in 0..Length(T, V) - 1}
          /\ Length(T, V) \in 0..MaxItems
      BY <1>5, <2>1, <2>3, ListLength
    <3>3. p \in DOMAIN T
      <4>1. p \in Children(T, V)
        BY <3>1, <3>2
      <4> QED
        BY <4>1 DEF Children
    <3>4. T[p] = Scalar(o.value)
      <4>1. T[p].kind = "scalar" /\ T[p].value = o.value
        BY <3>1 DEF Holds
      <4>2. T[p] = Scalar(T[p].value)
        BY <1>5, <3>3, <4>1 DEF IsTree
      <4> QED
        BY <4>1, <4>2
    <3>5. i \in 0..MaxItems
      <4>1. MaxItems \in Nat
        BY DEF IndexTexts
      <4> QED
        BY <3>1, <3>2, <4>1
    <3>6. DoneAt(T, V, o)
      BY <1>14, <2>1, <2>3, <3>3, <3>4, <3>5 DEF DoneAt
    <3> QED
      BY <1>7, <2>3, <3>6
  <2>4. CASE T[V].kind = "list" /\ ~ListHolds /\ AppendItem
    <3>1. round # 2
      BY <1>10, <1>14, <2>4
    <3> QED
      BY <1>9, <1>14, <2>1, <2>4, <3>1
  <2> QED
    BY <1>14, <2>2, <2>3, <2>4
<1> QED
  BY <1>12, <1>13, <1>14 DEF Edit

(***************************************************************************)
(* The steps after the last document.                                      *)
(***************************************************************************)
LEMMA FinishStep ==
  ASSUME IInv, Finish
  PROVE  IInv'
<1>1. /\ container' = container /\ plan' = plan /\ tree' = tree /\ round' = round /\ patches' = patches
      /\ doc' = doc /\ op' = op /\ workloads' = workloads /\ stack' = stack
      /\ UNCHANGED <<input, tree, patches>> /\ doc \notin DOMAIN tree
      /\ outcome' = IF workloads = 0 THEN "no workload" ELSE "patched"
  BY DEF Finish, input, progress
<1>2. ChangedOnly' /\ PatchIsTheEdit' /\ Documents'
  BY <1>1, SameDocuments DEF IInv, Types
<1>3. Types'
  BY <1>1, <1>2 DEF IInv, Types
<1>4. Position'
  BY <1>1 DEF IInv, Position
<1>5. Rounds'
  <2>1. workloads \in Nat /\ (workloads > 0 <=> \E d \in DOMAIN tree : Seen(d))
    BY DEF IInv, Rounds, Types
  <2>2. ASSUME NEW d \in DOMAIN tree PROVE d < doc
    <3>1. PICK S : tree \in Seq(S)
      BY DEF IInv, Types, Documents
    <3>2. DOMAIN tree = 1..Len(tree) /\ Len(tree) \in Nat
      BY <3>1, LenProperties
    <3>3. doc \in 1..Len(tree) + 1
      BY DEF IInv, Types
    <3>4. doc \notin 1..Len(tree)
      BY <1>1, <3>2
    <3>5. d \in 1..Len(tree)
      BY <3>2
    <3> QED
      BY <3>2, <3>3, <3>4, <3>5
  <2>3. round = 2 => workloads > 0
    BY <2>1, <2>2 DEF IInv, Rounds, Seen
  <2>4. workloads > 0 <=> workloads # 0
    BY <2>1
  <2>5. \A d \in DOMAIN tree : Seen(d)' <=> Seen(d)
    BY <1>1 DEF Seen
  <2> QED
    BY <1>1, <2>3, <2>4, <2>5 DEF IInv, Rounds
<1> QED
  BY <1>2, <1>3, <1>4, <1>5 DEF IInv

LEMMA ApplyAgainStep ==
  ASSUME IInv, ApplyAgain
  PROVE  IInv'
<1>1. /\ container' = container /\ plan' = plan /\ tree' = tree /\ round' = 2 /\ original' = original
      /\ given' = tree /\ doc' = 1 /\ op' = 0 /\ workloads' = 0 /\ outcome' = "running" /\ stack' = stack
      /\ patches' = [d \in DOMAIN tree |-> << >>] /\ outcome = "patched"
  BY DEF ApplyAgain
<1>2. PICK S : tree \in Seq(S)
  BY DEF IInv, Types, Documents
<1>3. DOMAIN tree = 1..Len(tree) /\ Len(tree) \in Nat
  BY <1>2, LenProperties
<1>4. doc \notin DOMAIN tree /\ doc \in 1..Len(tree) + 1 /\ op = 0 /\ stack = << >>
  BY <1>1 DEF IInv, Types, Position
<1>5. \A d \in DOMAIN tree : d < doc
  BY <1>3, <1>4
<1>6. \A d \in DOMAIN tree : patches'[d] = << >>
  BY <1>1
<1>7. Documents'
  <2>1. \E S0 : << >> \in Seq(S0)
    BY EmptySeq
  <2>2. DOMAIN given = DOMAIN tree /\ DOMAIN original = DOMAIN tree
        /\ \A d \in DOMAIN tree : IsTree(tree[d]) /\ IsTree(original[d])
    BY DEF IInv, Types, Documents
  <2>3. \A d \in DOMAIN tree : SameAliases(tree[d], tree[d])
    BY DEF SameAliases
  <2>4. DOMAIN patches' = DOMAIN tree
    BY <1>1
  <2> QED
    BY <1>1, <1>2, <1>6, <2>1, <2>2, <2>3, <2>4 DEF Documents
<1>8. Types'
  <2>1. 0 \in 0..Len(plan) /\ 1 \in 1..Len(tree) + 1 /\ 0 <= 1 - 1 /\ 2 \in 1..2
    <3>1. Len(plan) \in {1, 2}
      BY DEF IInv, Types, PlanOK
    <3> QED
      BY <1>3, <3>1
  <2> QED
    BY <1>1, <1>7, <2>1 DEF IInv, Types
<1>9. Position'
  BY <1>1, <1>4, <1>5 DEF IInv, Position
<1>10. Rounds'
  <2>1. \E d \in DOMAIN tree : IsWorkload(tree[d])
    BY <1>1 DEF IInv, Rounds, Seen
  <2>2. \A d \in DOMAIN tree : ~Seen(d)'
    BY <1>1, <1>3 DEF Seen
  <2> QED
    BY <1>1, <1>6, <2>1, <2>2 DEF Rounds
<1>11. ChangedOnly'
  BY <1>1 DEF IInv, ChangedOnly
<1>12. PatchIsTheEdit'
  <2>1. ASSUME NEW d \in DOMAIN tree PROVE ApplyPatch(Json(tree[d]), << >>) = Json(tree[d])
    BY ApplyPatchIs
  <2> QED
    BY <1>1, <1>6, <2>1 DEF PatchIsTheEdit, Patched
<1> QED
  BY <1>8, <1>9, <1>10, <1>11, <1>12 DEF IInv

(***************************************************************************)
(* The initial state, and every step.                                      *)
(***************************************************************************)
LEMMA InitStep ==
  ASSUME IndexTexts, TextsOfPaths, ManifestsAreTrees, Init
  PROVE  IInv
<1>1. /\ container \in Names /\ given \in Manifests /\ tree = given /\ original = given
      /\ doc = 1 /\ op = 0 /\ stack = << >> /\ workloads = 0 /\ round = 1
      /\ patches = [d \in DOMAIN given |-> << >>]
      /\ outcome = IF IsPlan(plan) THEN "running" ELSE "invalid plan"
  BY DEF Init
<1>2. PlanOK(plan, container) /\ outcome = "running"
  <2>1. PICK rule \in DOMAIN Fixes : plan = Compiled(Plan(rule, container))
    BY DEF Init
  <2> QED
    BY <1>1, <2>1, PlanIs
<1>3. given \in Seq(ToSet(given)) /\ \A d \in DOMAIN given : IsTree(given[d])
  BY <1>1 DEF ManifestsAreTrees
<1>4. PICK S : given \in Seq(S)
  BY <1>3
<1>5. PICK n \in Nat : DOMAIN tree = 1..n /\ Len(tree) = n
  BY <1>1, <1>4, LenProperties
<1>6. \A d \in DOMAIN given : patches[d] = << >>
  BY <1>1
<1>7. Documents
  <2>1. \E R : << >> \in Seq(R)
    BY EmptySeq
  <2>2. \A d \in DOMAIN given : SameAliases(given[d], given[d])
    BY DEF SameAliases
  <2>3. DOMAIN patches = DOMAIN given
    BY <1>1
  <2> QED
    BY <1>1, <1>3, <1>4, <1>6, <2>1, <2>2, <2>3 DEF Documents
<1>8. Types
  <2>1. 0 \in 0..Len(plan)
    BY <1>2 DEF PlanOK
  <2>2. 1 \in 1..Len(tree) + 1
    BY <1>5
  <2> QED
    BY <1>1, <1>2, <1>7, <2>1, <2>2 DEF Types
<1>9. Position
  <2>1. \A d \in DOMAIN tree : ~(d < 1)
    BY <1>5
  <2>2. round = 1 /\ doc = 1 /\ op = 0 /\ stack = << >>
    BY <1>1
  <2>3. round # 2
    BY <2>2
  <2> QED
    BY <2>1, <2>2, <2>3 DEF Position
<1>10. Rounds
  <2>1. ASSUME NEW d \in DOMAIN tree PROVE ~Seen(d)
    <3>1. ~(d < 1)
      BY <1>5
    <3> QED
      BY <1>1, <3>1 DEF Seen
  <2> QED
    BY <1>1, <1>2, <2>1 DEF Rounds
<1>11. ChangedOnly
  BY <1>1, ChangesSelf DEF ChangedOnly
<1>12. PatchIsTheEdit
  <2>1. ASSUME NEW d \in DOMAIN tree PROVE ApplyPatch(Json(tree[d]), << >>) = Json(tree[d])
    BY ApplyPatchIs
  <2> QED
    BY <1>1, <1>6, <2>1 DEF PatchIsTheEdit, Patched
<1> QED
  BY <1>8, <1>9, <1>10, <1>11, <1>12 DEF IInv

LEMMA IdleStep ==
  ASSUME IInv, UNCHANGED vars
  PROVE  IInv'
<1>1. /\ UNCHANGED <<input, tree, patches>> /\ container' = container /\ plan' = plan /\ tree' = tree
      /\ round' = round /\ patches' = patches /\ doc' = doc /\ op' = op /\ workloads' = workloads
      /\ stack' = stack /\ outcome' = outcome
  BY DEF vars, input, progress
<1>2. ChangedOnly' /\ PatchIsTheEdit' /\ Documents'
  BY <1>1, SameDocuments DEF IInv, Types
<1>3. Types' /\ Position'
  BY <1>1, <1>2 DEF IInv, Types, Position
<1>4. Rounds'
  BY <1>1 DEF IInv, Rounds, Seen
<1> QED
  BY <1>2, <1>3, <1>4 DEF IInv

\* The invariant holds in every state.
THEOREM FixerInvariant == Spec => []IInv
<1>1. IndexTexts /\ TextsOfPaths /\ ManifestsAreTrees
  BY IndexTextsAssumption, PathsAssumption, ManifestsAssumption
<1>2. Init => IInv
  BY <1>1, InitStep
<1>3. IInv /\ [Next]_vars => IInv'
  <2> SUFFICES ASSUME IInv, [Next]_vars PROVE IInv'
    OBVIOUS
  <2>1. CASE Inspect
    BY <1>1, <2>1, InspectStep
  <2>2. CASE NextOperation
    BY <1>1, <2>2, NextOperationStep
  <2>3. CASE NotAMapping
    BY <1>1, <2>3, NotAMappingStep
  <2>4. CASE Select
    BY <1>1, <2>4, SelectStep
  <2>5. CASE Item
    BY <1>1, <2>5, ItemStep
  <2>6. CASE Descend
    BY <1>1, <2>6, DescendStep
  <2>7. CASE Create
    BY <1>1, <2>7, CreateStep
  <2>8. CASE Edit
    BY <1>1, <2>8, EditsStep
  <2>9. CASE Finish
    BY <1>1, <2>9, FinishStep
  <2>10. CASE ApplyAgain
    BY <1>1, <2>10, ApplyAgainStep
  <2>11. CASE UNCHANGED vars
    BY <2>11, IdleStep
  <2> QED
    BY <2>1, <2>2, <2>3, <2>4, <2>5, <2>6, <2>7, <2>8, <2>9, <2>10, <2>11 DEF Next
<1> QED
  BY <1>2, <1>3, PTL DEF Spec

-----------------------------------------------------------------------------
(***************************************************************************)
(* What the invariant gives.                                               *)
(***************************************************************************)
\* Every call of walk is at a node of the document.
LEMMA StackInTree ==
  ASSUME IndexTexts, TextsOfPaths, IInv, op # 0, NEW i \in DOMAIN stack
  PROVE  stack[i].n \in DOMAIN T
<1> DEFINE path == plan[op].path
<1>1. /\ IsTree(T) /\ IsWorkload(T) /\ Calls(container, T, plan[op], stack)
  BY Walking0
<1>2. ASSUME NEW f, stack = <<f>>, f.n \in DOMAIN T PROVE stack[i].n \in DOMAIN T
  BY <1>2
<1>3. ASSUME NEW f, NEW g, stack = <<f, g>>, f.n \in DOMAIN T, g.n \in DOMAIN T PROVE stack[i].n \in DOMAIN T
  <2>1. i = 1 \/ i = 2
    BY <1>3
  <2> QED
    BY <1>3, <2>1
<1>4. \A k : AtList(T, path, k).n = ContainersOf(T)
  BY DEF AtList, Frame
<1>5. CASE stack = << >>
  BY <1>5
<1>6. CASE stack = <<AtPodSpec(T, path)>>
  <2>1. AtPodSpec(T, path).n = PodSpec(T)
    BY DEF AtPodSpec, Frame
  <2>2. PodSpec(T) \in DOMAIN T
    BY <1>1, WorkloadIs
  <2> QED
    BY <1>2, <1>6, <2>1, <2>2
<1>7. ASSUME NEW k \in Nat, InList(T, path, k, stack) PROVE stack[i].n \in DOMAIN T
  <2>1. stack = <<AtList(T, path, k)>> /\ ContainersOf(T) \in DOMAIN T
    BY <1>7 DEF InList, IsList
  <2> QED
    BY <1>2, <1>4, <2>1
<1>8. ASSUME NEW k \in Nat, NEW j \in Nat, InItem(container, T, path, k, j, stack)
      PROVE  stack[i].n \in DOMAIN T
  <2>1. /\ stack = <<AtNode(ItemOf(T, k), path, j), AtList(T, path, k + 1)>>
        /\ ItemOf(T, k) \o Way(path, j) \in DOMAIN T /\ ContainersOf(T) \in DOMAIN T
    BY <1>8 DEF InItem, IsList
  <2>2. AtNode(ItemOf(T, k), path, j).n = ItemOf(T, k) \o Way(path, j)
    BY DEF AtNode, Frame
  <2> QED
    BY <1>3, <1>4, <2>1, <2>2
<1> QED
  BY <1>1, <1>5, <1>6, <1>7, <1>8 DEF Calls

\* Every variable stays in its type: the edited documents stay trees, and no call
\* of walk is at a node that is not there.
THEOREM FixerTypes == Spec => []TypeOK
<1>1. IndexTexts /\ TextsOfPaths
  BY IndexTextsAssumption, PathsAssumption
<1>2. IInv => TypeOK
  <2> SUFFICES ASSUME IInv PROVE TypeOK
    OBVIOUS
  <2>1. /\ doc \in 1..Len(tree) + 1 /\ op \in 0..Len(plan) /\ round \in 1..2
        /\ outcome \in {"running", "patched", "conflict", "no workload", "invalid plan"}
    BY DEF IInv, Types
  <2>2. PICK S : tree \in Seq(S)
    BY DEF IInv, Types, Documents
  <2>3. DOMAIN tree = 1..Len(tree) /\ Len(tree) \in Nat
    BY <2>2, LenProperties
  <2>4. workloads \in 0..Len(tree)
    <3>1. workloads \in Nat /\ workloads <= IF op = 0 THEN doc - 1 ELSE doc
      BY DEF IInv, Types
    <3>2. op # 0 => doc \in 1..Len(tree)
      BY <2>3 DEF IInv, Position
    <3>3. CASE op = 0
      <4>1. workloads <= doc - 1 /\ doc \in 1..Len(tree) + 1
        BY <2>1, <3>1, <3>3
      <4> QED
        BY <2>3, <3>1, <4>1
    <3>4. CASE op # 0
      <4>1. workloads <= doc
        BY <3>1, <3>4
      <4> QED
        BY <2>3, <3>1, <3>2, <3>4, <4>1
    <3> QED
      BY <3>3, <3>4
  <2>5. ASSUME NEW i \in DOMAIN stack PROVE stack[i].n \in DOMAIN T
    <3>1. CASE op = 0
      <4>1. stack = << >>
        BY <3>1 DEF IInv, Position
      <4> QED
        BY <4>1
    <3>2. CASE op # 0
      BY <1>1, <3>2, StackInTree
    <3> QED
      BY <3>1, <3>2
  <2>6. \A d \in DOMAIN tree : IsTree(tree[d])
    BY DEF IInv, Types, Documents
  <2> QED
    BY <2>1, <2>4, <2>5, <2>6 DEF TypeOK
<1> QED
  BY <1>2, FixerInvariant, PTL

\* The JSON Patch of a document turns the document given into the one edited.
THEOREM PatchesAreTheEdits == Spec => []PatchIsTheEdit
<1>1. IInv => PatchIsTheEdit
  BY DEF IInv
<1> QED
  BY <1>1, FixerInvariant, PTL

\* A plan applied to what it returned changes nothing, whatever the manifest.
THEOREM SecondApplyIsIdle == Spec => []SecondApplyChangesNothing
<1>1. IInv => SecondApplyChangesNothing
  <2> SUFFICES ASSUME IInv, round = 2
               PROVE  /\ outcome \notin {"conflict", "no workload"}
                      /\ \A d \in DOMAIN patches : patches[d] = << >>
    BY DEF SecondApplyChangesNothing
  <2>1. outcome \in {"running", "patched"} /\ \A d \in DOMAIN tree : patches[d] = << >>
    BY DEF IInv, Rounds
  <2>2. DOMAIN patches = DOMAIN tree
    BY DEF IInv, Types, Documents
  <2>3. outcome \notin {"conflict", "no workload"}
    BY <2>1
  <2> QED
    BY <2>1, <2>2, <2>3
<1> QED
  BY <1>1, FixerInvariant, PTL

-----------------------------------------------------------------------------
(***************************************************************************)
(* The edited documents, as JSON values.                                   *)
(***************************************************************************)
\* Trees with the same aliases have the same homes, and at a home is no alias.
LEMMA HomeStays ==
  ASSUME NEW t, NEW u, IsTree(t), IsTree(u), SameAliases(t, u), NEW p \in Pos
  PROVE  LET h == Home(t, p) IN h \in Pos /\ Home(u, p) = h /\ Home(t, h) = h
<1> DEFINE h == Home(t, p)
<1>1. h \in Pos
  BY HomeIs
<1>2. Aliases(u) = Aliases(t) /\ \A a \in Aliases(t) : u[a] = t[a]
  BY DEF SameAliases
<1>3. ASSUME NEW a \in Aliases(t)
      PROVE  /\ a \in Pos /\ a \in DOMAIN t /\ t[a].kind = "alias"
             /\ t[a].target \in Pos /\ t[a].target \in DOMAIN t
             /\ \A b \in Aliases(t) : ~IsPrefix(t[a].target, b)
  BY <1>3, TreeNodes DEF IsTree, Aliases, Pos
<1>4. CASE \A a \in Aliases(t) : ~IsPrefix(a, p)
  <2>1. h = p /\ Home(u, p) = p
    BY <1>2, <1>4, HomeIs
  <2> QED
    BY <1>1, <2>1
<1>5. ASSUME NEW a \in Aliases(t), IsPrefix(a, p)
      PROVE  Home(u, p) = h /\ Home(t, h) = h
  <2> DEFINE g == t[a].target
             b == Below(a, p)
  <2>1. h = g \o b /\ Home(u, p) = g \o b
    <3>1. Home(t, p) = t[a].target \o Below(a, p)
      BY <1>5, HomeIs
    <3>2. a \in Aliases(u) /\ u[a].target = t[a].target
      BY <1>2, <1>5
    <3>3. Home(u, p) = u[a].target \o Below(a, p)
      BY <1>5, <3>2, HomeIs
    <3> QED
      BY <3>1, <3>2, <3>3
  <2>2. g \in Pos /\ g \in DOMAIN t /\ a \in Pos
    BY <1>3
  <2>3. b \in Pos
    BY <1>5, <2>2, PrefixBelow
  <2> HIDE DEF b, h
  <2>4. IsPrefix(g, h)
    BY <2>1, <2>2, <2>3, PrefixSplit
  <2>5. ASSUME NEW e \in Aliases(t), IsPrefix(e, h) PROVE FALSE
    <3>1. e \in Pos /\ e \in DOMAIN t /\ t[e].kind = "alias" /\ ~IsPrefix(g, e)
      BY <1>3
    <3>2. IsPrefix(e, g)
      BY <1>1, <2>2, <2>4, <2>5, <3>1, PrefixOrder DEF h
    <3>3. e = g
      BY <2>2, <3>1, <3>2, LeafAlone
    <3> QED
      BY <2>2, <3>1, <3>3, PrefixOrder
  <2>6. Home(t, h) = h
    BY <1>1, <2>5, HomeIs DEF h
  <2> QED
    BY <2>1, <2>6
<1> QED
  BY <1>1, <1>4, <1>5

\* The nodes of a JSON value.
LEMMA JsonAt ==
  ASSUME NEW t, IsTree(t)
  PROVE  /\ \A x : x \in DOMAIN Json(t) <=> x \in Pos /\ Home(t, x) \in DOMAIN t
         /\ \A x \in DOMAIN Json(t) : Json(t)[x] = t[Home(t, x)]
<1> DEFINE j == Json(t)
           E == {x \in Pos : Home(t, x) \in DOMAIN t}
<1>1. j = [x \in E |-> t[Home(t, x)]]
  BY JsonIs
<1> HIDE DEF j
<1>2. DOMAIN j = E /\ \A x \in E : j[x] = t[Home(t, x)]
  BY <1>1
<1> QED
  BY <1>2 DEF j

\* What is done in the tree shows in its JSON value.
LEMMA HardenedIs ==
  ASSUME IndexTexts, NEW t, IsTree(t), NEW o, o.op \in {"set", "add"}, NEW name, IsPath(o.path, name),
         NEW c \in Pos, DoneAt(t, Goal(c, o), o)
  PROVE  Hardened(Json(t), Goal(c, o), o)
<1> DEFINE a == Goal(c, o)
           j == Json(t)
<1>1. 0 \in 0..Len(KeysOf(o.path)) - 1
  BY KeysAre
<1>2. /\ a \in DOMAIN t
      /\ o.op = "set" => t[a] = Scalar(o.value)
      /\ o.op = "add" => /\ t[a].kind = "list"
                         /\ \E k \in 0..Length(t, a) - 1 : t[a \o <<ToString(k)>>] = Scalar(o.value)
  BY <1>1, DoneNode
<1>3. \A v : Scalar(v).kind = "scalar"
  BY DEF Scalar
<1> HIDE DEF a
<1>4. t[a].kind # "alias"
  BY <1>2, <1>3
<1>5. a \in DOMAIN j /\ j[a] = t[a] /\ Length(j, a) = Length(t, a)
  BY <1>2, <1>4, JsonNode DEF Length
<1>6. ASSUME o.op = "add" PROVE \E k \in 0..Length(j, a) - 1 : j[a \o <<ToString(k)>>] = Scalar(o.value)
  <2>1. PICK k \in 0..Length(t, a) - 1 : t[a \o <<ToString(k)>>] = Scalar(o.value)
    BY <1>2, <1>6
  <2> DEFINE p == a \o <<ToString(k)>>
  <2>2. Children(t, a) = {a \o <<ToString(i)>> : i \in 0..Length(t, a) - 1}
    BY <1>2, <1>6, ListLength
  <2>3. p \in Children(t, a)
    BY <2>1, <2>2
  <2>4. p \in DOMAIN t
    BY <2>3 DEF Children
  <2>5. t[p].kind # "alias"
    BY <1>3, <2>1
  <2>6. j[p] = t[p]
    BY <2>4, <2>5, JsonNode
  <2> QED
    BY <1>5, <2>1, <2>6
<1> HIDE DEF j
<1>7. Hardened(j, a, o)
  BY <1>2, <1>5, <1>6 DEF Hardened
<1> QED
  BY <1>7 DEF a, j

\* What has not changed in the tree has not in its JSON value.
LEMMA KeptIs ==
  ASSUME NEW name, NEW pl, NEW t, NEW u, IsTree(t), IsTree(u), Changes(name, pl, t, u),
         NEW p \in DOMAIN Json(t) \cup DOMAIN Json(u), ~MayChange(name, pl, t, Home(t, p))
  PROVE  p \in DOMAIN Json(t) /\ p \in DOMAIN Json(u) /\ Json(t)[p] = Json(u)[p]
<1> DEFINE h == Home(t, p)
<1>1. /\ p \in Pos
      /\ p \in DOMAIN Json(t) <=> Home(t, p) \in DOMAIN t
      /\ p \in DOMAIN Json(u) <=> Home(u, p) \in DOMAIN u
  BY JsonAt
<1>2. Home(u, p) = h
  BY <1>1, HomeStays DEF Changes
<1>3. /\ h \in DOMAIN t => h \in DOMAIN u
      /\ h \in DOMAIN u => h \in DOMAIN t /\ u[h] = t[h]
  BY DEF Changes
<1> HIDE DEF h
<1>4. p \in DOMAIN Json(t) /\ p \in DOMAIN Json(u)
  BY <1>1, <1>2, <1>3 DEF h
<1>5. Json(t)[p] = t[h] /\ Json(u)[p] = u[h]
  BY <1>2, <1>4, JsonAt DEF h
<1> QED
  BY <1>1, <1>2, <1>3, <1>4, <1>5

\* At a home, what is absent of the JSON value is absent of the tree.
LEMMA AbsentIs ==
  ASSUME NEW t, IsTree(t), NEW h \in Pos, Home(t, h) = h
  PROVE  /\ h \in DOMAIN Json(t) <=> h \in DOMAIN t
         /\ Absent(Json(t), h) <=> Absent(t, h)
<1>1. h \in DOMAIN Json(t) <=> h \in DOMAIN t
  BY JsonAt
<1>2. h \in DOMAIN Json(t) => Json(t)[h] = t[h]
  BY JsonAt
<1> QED
  BY <1>1, <1>2 DEF Absent

\* The targets of a plan in a document: where its operations apply.
TargetsOf(name, pl, t) ==
  IF IsWorkload(t) THEN {<<Goal(c, pl[i]), pl[i]>> : c \in Selected(name, t), i \in DOMAIN pl} ELSE {}
MayChangeJson(name, pl, t, p) ==
  \E x \in TargetsOf(name, pl, t) :
    \/ IsPrefix(p, x[1]) /\ Absent(Json(t), p)
    \/ x[2].op = "set" /\ p = x[1]
    \/ x[2].op = "add" /\ IsPrefix(x[1], p) /\ p \notin DOMAIN Json(t)

LEMMA MayChangeIs ==
  ASSUME NEW name, NEW pl, NEW t, IsTree(t), NEW h \in Pos, Home(t, h) = h, MayChange(name, pl, t, h)
  PROVE  MayChangeJson(name, pl, t, h)
<1>1. PICK c \in Selected(name, t), i \in DOMAIN pl :
        \/ IsPrefix(h, Goal(c, pl[i])) /\ Absent(t, h)
        \/ pl[i].op = "set" /\ h = Goal(c, pl[i])
        \/ pl[i].op = "add" /\ IsPrefix(Goal(c, pl[i]), h) /\ h \notin DOMAIN t
  BY DEF MayChange
<1> DEFINE x == <<Goal(c, pl[i]), pl[i]>>
<1>2. x \in TargetsOf(name, pl, t)
  BY DEF TargetsOf, MayChange
<1>3. x[1] = Goal(c, pl[i]) /\ x[2] = pl[i]
  OBVIOUS
<1> HIDE DEF x
<1>4. \/ IsPrefix(h, x[1]) /\ Absent(Json(t), h)
      \/ x[2].op = "set" /\ h = x[1]
      \/ x[2].op = "add" /\ IsPrefix(x[1], h) /\ h \notin DOMAIN Json(t)
  BY <1>1, <1>3, AbsentIs
<1> QED
  BY <1>2, <1>4 DEF MayChangeJson

\* A document that is finished.
LEMMA FinishedHardens ==
  ASSUME IndexTexts, TextsOfPaths, NEW name, NEW pl, PlanOK(pl, name), NEW t, NEW u, IsTree(t), IsTree(u),
         Changes(name, pl, t, u), Finished(name, pl, u)
  PROVE  /\ \A x \in TargetsOf(name, pl, t) : Hardened(Json(u), x[1], x[2])
         /\ \A p \in DOMAIN Json(t) \cup DOMAIN Json(u) :
              ~MayChangeJson(name, pl, t, Home(t, p)) =>
                p \in DOMAIN Json(t) /\ p \in DOMAIN Json(u) /\ Json(t)[p] = Json(u)[p]
<1>1. ASSUME NEW x \in TargetsOf(name, pl, t) PROVE Hardened(Json(u), x[1], x[2])
  <2>1. PICK c \in Selected(name, t), i \in DOMAIN pl : x = <<Goal(c, pl[i]), pl[i]>>
    BY <1>1 DEF TargetsOf
  <2>2. IsWorkload(t)
    BY <1>1 DEF TargetsOf
  <2>3. IsWorkload(u) /\ c \in Selected(name, u)
    BY <2>2 DEF Changes
  <2>4. c \in Pos /\ DoneAt(u, Goal(c, pl[i]), pl[i])
    BY <2>3, SelectedIs DEF Finished, AllDone
  <2>5. pl[i].op \in {"set", "add"} /\ IsPath(pl[i].path, name)
    BY DEF PlanOK
  <2>6. Hardened(Json(u), Goal(c, pl[i]), pl[i])
    BY <2>4, <2>5, HardenedIs
  <2> QED
    BY <2>1, <2>6
<1>2. ASSUME NEW p \in DOMAIN Json(t) \cup DOMAIN Json(u), ~MayChangeJson(name, pl, t, Home(t, p))
      PROVE  p \in DOMAIN Json(t) /\ p \in DOMAIN Json(u) /\ Json(t)[p] = Json(u)[p]
  <2>1. p \in Pos
    BY JsonAt
  <2>2. Home(t, p) \in Pos /\ Home(t, Home(t, p)) = Home(t, p)
    BY <2>1, HomeStays DEF Changes
  <2>3. ~MayChange(name, pl, t, Home(t, p))
    BY <1>2, <2>2, MayChangeIs
  <2> QED
    BY <2>3, KeptIs
<1> QED
  BY <1>1, <1>2

LEMMA Hardens ==
  ASSUME IndexTexts, TextsOfPaths, IInv
  PROVE  HardensExactlyTheTargets
<1>1. outcome # "running" => PatchStatus # 500
  <2>1. outcome \in {"running", "patched", "conflict", "no workload"}
    BY DEF IInv, Types
  <2>2. outcome = "patched" => PatchStatus = 200
    BY DEF PatchStatus
  <2>3. outcome \in {"conflict", "no workload"} => PatchStatus = 422
    BY DEF PatchStatus
  <2>4. CASE outcome = "running"
    BY <2>4
  <2>5. CASE outcome = "patched"
    <3>1. PatchStatus = 200
      BY <2>2, <2>5
    <3> QED
      BY <3>1
  <2>6. CASE outcome \in {"conflict", "no workload"}
    <3>1. PatchStatus = 422
      BY <2>3, <2>6
    <3> QED
      BY <3>1
  <2> QED
    BY <2>1, <2>4, <2>5, <2>6
<1>2. ASSUME outcome = "patched", NEW d \in DOMAIN tree
      PROVE  LET before == Json(original[d])
                 after == Json(tree[d])
                 targets == IF IsWorkload(original[d])
                              THEN {<<Target(c, i), plan[i]>> : c \in Targeted(original[d]), i \in DOMAIN plan}
                              ELSE {}
                 mayChange(p) == \E t \in targets :
                                   \/ IsPrefix(p, t[1]) /\ Absent(before, p)
                                   \/ t[2].op = "set" /\ p = t[1]
                                   \/ t[2].op = "add" /\ IsPrefix(t[1], p) /\ p \notin DOMAIN before
             IN  /\ \A t \in targets : Hardened(after, t[1], t[2])
                 /\ \A p \in DOMAIN before \cup DOMAIN after :
                      ~mayChange(Home(original[d], p)) =>
                        p \in DOMAIN before /\ p \in DOMAIN after /\ before[p] = after[p]
  <2> DEFINE targets == IF IsWorkload(original[d])
                          THEN {<<Target(c, i), plan[i]>> : c \in Targeted(original[d]), i \in DOMAIN plan}
                          ELSE {}
  <2>1. PICK n \in Nat : DOMAIN tree = 1..n /\ Len(tree) = n
    <3>1. PICK S : tree \in Seq(S)
      BY DEF IInv, Types, Documents
    <3> QED
      BY <3>1, LenProperties
  <2>2. doc \in 1..n + 1 /\ doc \notin 1..n
    BY <1>2, <2>1 DEF IInv, Types
  <2>3. d < doc
    <3>1. d \in 1..n
      BY <2>1
    <3> QED
      BY <2>2, <3>1
  <2>4. Finished(container, plan, tree[d])
    BY <2>3 DEF IInv, Position
  <2>5. /\ IsTree(original[d]) /\ IsTree(tree[d]) /\ PlanOK(plan, container)
        /\ Changes(container, plan, original[d], tree[d])
    BY DEF IInv, Types, Documents, ChangedOnly
  <2>6. PICK t, u : t = original[d] /\ u = tree[d]
    OBVIOUS
  <2>7. Targeted(t) = Selected(container, t)
    BY DEF Targeted, Selected, ContainersOf, IsNamed
  <2>8. \A c, i : Target(c, i) = Goal(c, plan[i])
    BY DEF Target, Goal, KeysOf
  <2>9. targets = TargetsOf(container, plan, t)
    BY <2>6, <2>7, <2>8 DEF TargetsOf
  <2>10. /\ \A x \in TargetsOf(container, plan, t) : Hardened(Json(u), x[1], x[2])
         /\ \A p \in DOMAIN Json(t) \cup DOMAIN Json(u) :
              ~MayChangeJson(container, plan, t, Home(t, p)) =>
                p \in DOMAIN Json(t) /\ p \in DOMAIN Json(u) /\ Json(t)[p] = Json(u)[p]
    BY <2>4, <2>5, <2>6, FinishedHardens
  <2> HIDE DEF targets
  <2>11. \A p : MayChangeJson(container, plan, t, p) <=>
                  \E x \in targets :
                    \/ IsPrefix(p, x[1]) /\ Absent(Json(original[d]), p)
                    \/ x[2].op = "set" /\ p = x[1]
                    \/ x[2].op = "add" /\ IsPrefix(x[1], p) /\ p \notin DOMAIN Json(original[d])
    BY <2>6, <2>9 DEF MayChangeJson
  <2>12. \A x \in targets : Hardened(Json(tree[d]), x[1], x[2])
    BY <2>6, <2>9, <2>10
  <2>13. \A p \in DOMAIN Json(original[d]) \cup DOMAIN Json(tree[d]) :
           ~(\E x \in targets :
                 \/ IsPrefix(Home(original[d], p), x[1]) /\ Absent(Json(original[d]), Home(original[d], p))
                 \/ x[2].op = "set" /\ Home(original[d], p) = x[1]
                 \/ /\ x[2].op = "add" /\ IsPrefix(x[1], Home(original[d], p))
                    /\ Home(original[d], p) \notin DOMAIN Json(original[d])) =>
             /\ p \in DOMAIN Json(original[d]) /\ p \in DOMAIN Json(tree[d])
             /\ Json(original[d])[p] = Json(tree[d])[p]
    BY <2>6, <2>10, <2>11
  <2> QED
    BY <2>12, <2>13 DEF targets
<1> QED
  BY <1>1, <1>2 DEF HardensExactlyTheTargets

\* When Apply succeeds, every container the plan is for is hardened as the rule says,
\* and nothing else of the manifest has changed but what shares it by an alias; no
\* plan of a rule is refused.
THEOREM ExactlyTheTargets == Spec => []HardensExactlyTheTargets
<1>1. IndexTexts /\ TextsOfPaths
  BY IndexTextsAssumption, PathsAssumption
<1>2. IInv => HardensExactlyTheTargets
  BY <1>1, Hardens
<1> QED
  BY <1>2, FixerInvariant, PTL

-----------------------------------------------------------------------------
(***************************************************************************)
(* The members of a finite set of numbers, in order.                       *)
(***************************************************************************)
UpTo(S, p) == {q \in S : q <= p}

\* The greater a member, the more members are not behind it.
LEMMA UpToGrows ==
  ASSUME NEW S \in SUBSET Nat, IsFiniteSet(S), NEW p \in S, NEW q \in S
  PROVE  /\ Cardinality(UpTo(S, p)) \in 1..Cardinality(S)
         /\ p < q <=> Cardinality(UpTo(S, p)) < Cardinality(UpTo(S, q))
<1>1. ASSUME NEW x \in S
      PROVE  /\ UpTo(S, x) \in SUBSET S /\ x \in UpTo(S, x) /\ IsFiniteSet(UpTo(S, x))
             /\ Cardinality(UpTo(S, x)) \in 1..Cardinality(S)
  <2>1. UpTo(S, x) \in SUBSET S /\ x \in UpTo(S, x)
    BY DEF UpTo
  <2>2. IsFiniteSet(UpTo(S, x)) /\ Cardinality(UpTo(S, x)) <= Cardinality(S)
    BY <2>1, FS_Subset
  <2>3. Cardinality(UpTo(S, x)) # 0 /\ Cardinality(UpTo(S, x)) \in Nat /\ Cardinality(S) \in Nat
    BY <2>1, <2>2, FS_EmptySet, FS_CardinalityType
  <2> QED
    BY <2>1, <2>2, <2>3
<1>2. ASSUME NEW x \in S, NEW y \in S, x < y
      PROVE  Cardinality(UpTo(S, x)) < Cardinality(UpTo(S, y))
  <2>1. UpTo(S, x) \in SUBSET UpTo(S, y) /\ y \notin UpTo(S, x) /\ y \in UpTo(S, y)
    <3>1. x \in Nat /\ y \in Nat /\ S \subseteq Nat
      OBVIOUS
    <3>2. y <= y /\ ~(y <= x) /\ \A z \in Nat : z <= x => z <= y
      BY <1>2, <3>1
    <3> QED
      BY <3>1, <3>2 DEF UpTo
  <2>2. /\ Cardinality(UpTo(S, x)) <= Cardinality(UpTo(S, y))
        /\ Cardinality(UpTo(S, x)) # Cardinality(UpTo(S, y))
    BY <1>1, <2>1, FS_Subset
  <2> QED
    BY <1>1, <2>2
<1>3. p \in Nat /\ q \in Nat
  OBVIOUS
<1>4. Cardinality(UpTo(S, p)) \in Nat /\ Cardinality(UpTo(S, q)) \in Nat
  BY <1>1
<1> QED
  BY <1>1, <1>2, <1>3, <1>4

\* Nth lists the members, each once and in order.
LEMMA NthIs ==
  ASSUME NEW S \in SUBSET Nat, IsFiniteSet(S)
  PROVE  /\ \A k \in 1..Cardinality(S) : Nth(S, k) \in S /\ Cardinality(UpTo(S, Nth(S, k))) = k
         /\ \A p \in S : p = Nth(S, Cardinality(UpTo(S, p)))
         /\ \A p \in S : Cardinality(UpTo(S, p)) \in 1..Cardinality(S)
         /\ \A j, k \in 1..Cardinality(S) : j < k => Nth(S, j) < Nth(S, k)
<1> DEFINE n == Cardinality(S)
           rank == [p \in S |-> Cardinality(UpTo(S, p))]
<1>1. n \in Nat /\ IsFiniteSet(1..n) /\ Cardinality(1..n) = n
  BY FS_CardinalityType, FS_Interval
<1>2. rank \in Injection(S, 1..n)
  <2>1. rank \in [S -> 1..n]
    BY UpToGrows
  <2>2. ASSUME NEW p \in S, NEW q \in S, rank[p] = rank[q] PROVE p = q
    <3>1. ~(p < q) /\ ~(q < p) /\ p \in Nat /\ q \in Nat
      BY <2>2, UpToGrows
    <3> QED
      BY <3>1
  <2> HIDE DEF rank, n
  <2> QED
    BY <2>1, <2>2, Fun_IsInj
<1>3. rank \in Surjection(S, 1..n)
  BY <1>1, <1>2, FS_Injection
<1>4. ASSUME NEW k \in 1..n PROVE Nth(S, k) \in S /\ Cardinality(UpTo(S, Nth(S, k))) = k
  <2>1. \E p \in S : rank[p] = k
    <3>1. k \in 1..n
      OBVIOUS
    <3> HIDE DEF rank, n
    <3>2. \A i \in 1..n : \E p \in S : rank[p] = i
      BY <1>3, Fun_SurjectionProperties, Zenon
    <3> QED
      BY <3>1, <3>2
  <2>2. \E p \in S : Cardinality({q \in S : q <= p}) = k
    BY <2>1 DEF UpTo
  <2> QED
    BY <2>2 DEF Nth, UpTo
<1>5. ASSUME NEW p \in S PROVE Cardinality(UpTo(S, p)) \in 1..n /\ p = Nth(S, Cardinality(UpTo(S, p)))
  <2> DEFINE k == Cardinality(UpTo(S, p))
  <2>1. k \in 1..n
    BY UpToGrows
  <2>2. Nth(S, k) \in S /\ Cardinality(UpTo(S, Nth(S, k))) = k
    BY <1>4, <2>1
  <2> DEFINE x == Nth(S, k)
  <2>3. x \in S /\ rank[x] = rank[p]
    BY <2>2
  <2> HIDE DEF rank, k, x
  <2>4. x = p
    BY <1>2, <2>3, Fun_InjectionProperties
  <2> QED
    BY <2>1, <2>4 DEF x, k
<1>6. ASSUME NEW j \in 1..n, NEW k \in 1..n, j < k PROVE Nth(S, j) < Nth(S, k)
  <2>1. /\ Nth(S, j) \in S /\ Cardinality(UpTo(S, Nth(S, j))) = j
        /\ Nth(S, k) \in S /\ Cardinality(UpTo(S, Nth(S, k))) = k
    BY <1>4
  <2> QED
    BY <1>6, <2>1, UpToGrows
<1> QED
  BY <1>4, <1>5, <1>6

\* What grows at each step grows.
LEMMA Increasing ==
  ASSUME NEW n \in Nat, NEW f \in [1..n -> Nat], \A i \in 1..n - 1 : f[i] < f[i + 1]
  PROVE  \A i, j \in 1..n : i < j => f[i] < f[j]
<1> SUFFICES ASSUME NEW i \in 1..n PROVE \A j \in 1..n : i < j => f[i] < f[j]
  OBVIOUS
<1> DEFINE P == {k \in Nat : i + k + 1 <= n => f[i] < f[i + k + 1]}
<1>1. 0 \in P
  OBVIOUS
<1>2. ASSUME NEW k \in P PROVE k + 1 \in P
  <2> SUFFICES ASSUME i + k + 2 <= n PROVE f[i] < f[i + k + 2]
    OBVIOUS
  <2>1. k \in Nat /\ f[i] < f[i + k + 1]
    BY <1>2
  <2>2. i + k + 1 \in 1..n - 1 /\ (i + k + 1) + 1 = i + k + 2
    BY <2>1
  <2>3. f[i + k + 1] < f[i + k + 2]
    BY <2>2
  <2>4. f[i] \in Nat /\ f[i + k + 1] \in Nat /\ f[i + k + 2] \in Nat
    BY <2>1
  <2> QED
    BY <2>1, <2>3, <2>4
<1> HIDE DEF P
<1>3. P = Nat
  <2>1. P \in SUBSET Nat
    BY DEF P
  <2> QED
    BY <1>1, <1>2, <2>1, SetInduction
<1> SUFFICES ASSUME NEW j \in 1..n, i < j PROVE f[i] < f[j]
  OBVIOUS
<1>4. j - i - 1 \in P /\ i + (j - i - 1) + 1 = j
  BY <1>3
<1> QED
  BY <1>4 DEF P

\* f lists the members of S in order.
ListedBy(S, f, n) ==
  /\ f \in [1..n -> Nat]
  /\ \A i \in 1..n - 1 : f[i] < f[i + 1]
  /\ \A i \in 1..n : f[i] \in S
  /\ \A q \in S : \E i \in 1..n : q = f[i]
NthFrom(S, f, n) == Cardinality(S) = n /\ \A k \in 1..n : Nth(S, k) = f[k]

\* A growing sequence of all the members is what Nth lists.
LEMMA NthOf ==
  ASSUME NEW n \in Nat, NEW f, NEW S, ListedBy(S, f, n)
  PROVE  NthFrom(S, f, n)
<1> SUFFICES ASSUME f \in [1..n -> Nat], \A i \in 1..n - 1 : f[i] < f[i + 1],
                    \A i \in 1..n : f[i] \in S, \A q \in S : \E i \in 1..n : q = f[i]
             PROVE  Cardinality(S) = n /\ \A k \in 1..n : Nth(S, k) = f[k]
  BY DEF ListedBy, NthFrom
<1>1. \A i, j \in 1..n : i < j => f[i] < f[j]
  BY Increasing
<1>2. ASSUME NEW k \in 0..n
      PROVE  /\ IsFiniteSet({f[i] : i \in 1..k})
             /\ Cardinality({f[i] : i \in 1..k}) = k
  <2> DEFINE g == [i \in 1..k |-> f[i]]
             U == {f[i] : i \in 1..k}
  <2>1. g \in [1..k -> U]
    OBVIOUS
  <2>2. \A i, j \in 1..k : g[i] = g[j] => i = j
    <3> SUFFICES ASSUME NEW i \in 1..k, NEW j \in 1..k, g[i] = g[j] PROVE i = j
      OBVIOUS
    <3>1. i \in 1..n /\ j \in 1..n /\ f[i] = f[j] /\ f[i] \in Nat
      OBVIOUS
    <3>2. ~(i < j) /\ ~(j < i)
      BY <1>1, <3>1
    <3> QED
      BY <3>2
  <2>3. \A t \in U : \E i \in 1..k : g[i] = t
    OBVIOUS
  <2>4. IsFiniteSet(1..k) /\ Cardinality(1..k) = k
    BY FS_Interval
  <2> HIDE DEF g, U
  <2>5. g \in Bijection(1..k, U)
    BY <2>1, <2>2, <2>3, Fun_IsBij
  <2>6. ExistsBijection(1..k, U)
    BY <2>5 DEF ExistsBijection
  <2>7. IsFiniteSet(U) /\ Cardinality(U) = k
    BY <2>4, <2>6, FS_Bijection
  <2> QED
    BY <2>7 DEF U
<1>3. IsFiniteSet(S) /\ Cardinality(S) = n /\ S \in SUBSET Nat
  <2>1. S = {f[i] : i \in 1..n} /\ n \in 0..n
    OBVIOUS
  <2>2. S \in SUBSET Nat
    OBVIOUS
  <2> QED
    BY <1>2, <2>1, <2>2
<1>4. ASSUME NEW k \in 1..n PROVE Nth(S, k) = f[k]
  <2>1. f[k] \in S
    OBVIOUS
  <2>2. UpTo(S, f[k]) = {f[i] : i \in 1..k}
    <3>1. ASSUME NEW i \in 1..n PROVE f[i] <= f[k] <=> i <= k
      <4>1. f[i] \in Nat /\ f[k] \in Nat
        OBVIOUS
      <4>2. (i < k => f[i] < f[k]) /\ (k < i => f[k] < f[i]) /\ (i = k => f[i] = f[k])
        BY <1>1
      <4> QED
        BY <4>1, <4>2
    <3>2. \A i \in 1..k : i \in 1..n /\ i <= k
      OBVIOUS
    <3>3. ASSUME NEW q PROVE q \in UpTo(S, f[k]) <=> q \in {f[i] : i \in 1..k}
      <4>1. ASSUME q \in UpTo(S, f[k]) PROVE q \in {f[i] : i \in 1..k}
        <5>1. PICK i \in 1..n : q = f[i]
          BY <4>1 DEF UpTo
        <5>2. i \in 1..k
          BY <3>1, <4>1, <5>1 DEF UpTo
        <5> QED
          BY <5>1, <5>2
      <4>2. ASSUME NEW i \in 1..k, q = f[i] PROVE q \in UpTo(S, f[k])
        BY <3>1, <3>2, <4>2 DEF UpTo
      <4> QED
        BY <4>1, <4>2
    <3> QED
      BY <3>3
  <2>3. Cardinality(UpTo(S, f[k])) = k
    <3>1. k \in 0..n
      OBVIOUS
    <3> QED
      BY <1>2, <2>2, <3>1
  <2> QED
    BY <1>3, <2>1, <2>3, NthIs
<1> QED
  BY <1>3, <1>4

-----------------------------------------------------------------------------
(***************************************************************************)
(* The rows of a stream as the decoder reads them, one after the other.    *)
(***************************************************************************)
IsBlank(row) == row.text \in {"", "#"}

\* What is before a row that is neither blank nor a comment.
LEMMA BeforeIs ==
  ASSUME NEW R, NEW s \in Seq(R)
  PROVE  /\ Before(s, 1) = ""
         /\ \A p \in DOMAIN s : IsBlank(s[p]) => Before(s, p + 1) = Before(s, p)
         /\ \A p \in DOMAIN s : ~IsBlank(s[p]) => Before(s, p + 1) = s[p].text
<1> DEFINE rows(p) == {q \in 1..p - 1 : ~IsBlank(s[q])}
<1>0. \A p : Before(s, p) = IF rows(p) = {} THEN "" ELSE s[Max(rows(p))].text
  BY DEF Before, IsBlank
<1>1. DOMAIN s = 1..Len(s) /\ Len(s) \in Nat
  OBVIOUS
<1>2. rows(1) = {}
  OBVIOUS
<1>3. ASSUME NEW p \in DOMAIN s, IsBlank(s[p]) PROVE rows(p + 1) = rows(p)
  <2>1. \A q : q \in 1..(p + 1) - 1 <=> q \in 1..p - 1 \/ q = p
    BY <1>1
  <2> QED
    BY <1>3, <2>1
<1>4. ASSUME NEW p \in DOMAIN s, ~IsBlank(s[p]) PROVE rows(p + 1) # {} /\ Max(rows(p + 1)) = p
  <2>1. p \in rows(p + 1) /\ \A q \in rows(p + 1) : p >= q /\ q \in Int
    <3>1. p \in 1..(p + 1) - 1 /\ \A q \in 1..(p + 1) - 1 : p >= q /\ q \in Int
      BY <1>1
    <3> QED
      BY <1>4, <3>1
  <2> HIDE DEF rows
  <2>2. p \in Int
    BY <1>1
  <2>3. /\ Max(rows(p + 1)) \in rows(p + 1)
        /\ \A q \in rows(p + 1) : Max(rows(p + 1)) >= q
    BY <2>1 DEF Max
  <2> QED
    BY <2>1, <2>2, <2>3
<1> HIDE DEF rows
<1> QED
  BY <1>0, <1>2, <1>3, <1>4

\* Blank rows and comments leave what was before them the last row.
LEMMA BlankRun ==
  ASSUME NEW R, NEW s \in Seq(R), NEW p \in 1..Len(s) + 1, NEW q \in p..Len(s) + 1,
         \A r \in p..q - 1 : IsBlank(s[r])
  PROVE  Before(s, q) = Before(s, p)
<1> DEFINE P == {k \in Nat : p + k <= q => Before(s, p + k) = Before(s, p)}
<1>1. Len(s) \in Nat /\ DOMAIN s = 1..Len(s) /\ p \in Nat /\ q \in Nat
  OBVIOUS
<1>2. 0 \in P
  BY <1>1
<1>3. ASSUME NEW k \in P PROVE k + 1 \in P
  <2> SUFFICES ASSUME p + k + 1 <= q PROVE Before(s, p + k + 1) = Before(s, p)
    OBVIOUS
  <2>1. k \in Nat /\ Before(s, p + k) = Before(s, p) /\ p + k \in p..q - 1 /\ p + k \in DOMAIN s
    BY <1>1, <1>3
  <2>2. Before(s, p + k + 1) = Before(s, p + k)
    BY <2>1, BeforeIs
  <2> QED
    BY <2>1, <2>2
<1> HIDE DEF P
<1>4. P = Nat
  <2>1. P \in SUBSET Nat
    BY DEF P
  <2> QED
    BY <1>2, <1>3, <2>1, SetInduction
<1>5. q - p \in P /\ p + (q - p) = q
  BY <1>1, <1>4
<1> QED
  BY <1>1, <1>5 DEF P

\* The n rows of out from x on are those of s from p on; what is before them is alike.
SameRows(s, p, out, x, n) == \A k \in 0..n - 1 : out[x + k] = s[p + k]
SameBefore(s, p, out, x, n) == \A k \in 0..n : Before(out, x + k) = Before(s, p + k)

\* A run of rows is read alike wherever it is, when what is before it is alike.
LEMMA CopyRun ==
  ASSUME NEW R, NEW s \in Seq(R), NEW Q, NEW out \in Seq(Q),
         NEW p \in 1..Len(s) + 1, NEW x \in 1..Len(out) + 1, NEW n \in Nat,
         p + n <= Len(s) + 1, x + n <= Len(out) + 1,
         SameRows(s, p, out, x, n), Before(out, x) = Before(s, p)
  PROVE  SameBefore(s, p, out, x, n)
<1> DEFINE P == {k \in Nat : k <= n => Before(out, x + k) = Before(s, p + k)}
<1>1. /\ Len(s) \in Nat /\ DOMAIN s = 1..Len(s) /\ p \in Nat
      /\ Len(out) \in Nat /\ DOMAIN out = 1..Len(out) /\ x \in Nat
  OBVIOUS
<1>2. 0 \in P
  BY <1>1
<1>3. ASSUME NEW k \in P PROVE k + 1 \in P
  <2> SUFFICES ASSUME k + 1 <= n PROVE Before(out, x + k + 1) = Before(s, p + k + 1)
    OBVIOUS
  <2>1. k \in Nat /\ Before(out, x + k) = Before(s, p + k) /\ k \in 0..n - 1
    BY <1>3
  <2>2. p + k \in DOMAIN s /\ x + k \in DOMAIN out
    BY <1>1, <2>1
  <2>3. out[x + k] = s[p + k]
    BY <2>1 DEF SameRows
  <2>4. /\ IsBlank(s[p + k]) => Before(s, p + k + 1) = Before(s, p + k)
        /\ ~IsBlank(s[p + k]) => Before(s, p + k + 1) = s[p + k].text
    BY <2>2, BeforeIs
  <2>5. /\ IsBlank(out[x + k]) => Before(out, x + k + 1) = Before(out, x + k)
        /\ ~IsBlank(out[x + k]) => Before(out, x + k + 1) = out[x + k].text
    BY <2>2, BeforeIs
  <2> QED
    BY <2>1, <2>3, <2>4, <2>5
<1> HIDE DEF P
<1>4. P = Nat
  <2>1. P \in SUBSET Nat
    BY DEF P
  <2> QED
    BY <1>2, <1>3, <2>1, SetInduction
<1>5. \A k \in Nat : k <= n => Before(out, x + k) = Before(s, p + k)
  BY <1>4 DEF P
<1>6. \A k \in 0..n : k \in Nat /\ k <= n
  OBVIOUS
<1> QED
  BY <1>5, <1>6 DEF SameBefore

\* Where a marker does not begin a document, but something before it does, there are
\* only directives, blank rows and comments between the two.
LEMMA DirectivesOnly ==
  ASSUME NEW R, NEW s \in Seq(R), IsStream(s), NEW b \in 1..Len(s), NEW m \in b + 1..Len(s),
         s[m].text = "---", \A p \in b + 1..m : ~Begins(s, p)
  PROVE  \A q \in b..m - 1 : s[q].text \in {"%", "", "#"}
<1> DEFINE P == {k \in Nat : m - k >= b + 1 => Before(s, m - k) = "%"}
<1>1. Len(s) \in Nat /\ DOMAIN s = 1..Len(s) /\ b \in Nat /\ m \in Nat
  OBVIOUS
<1>2. 0 \in P
  <2>1. m \in b + 1..m /\ m - 0 = m
    BY <1>1
  <2>2. ~Begins(s, m)
    BY <2>1
  <2>3. Before(s, m) = "%"
    BY <2>2 DEF Begins
  <2> QED
    BY <2>1, <2>3
<1>3. ASSUME NEW k \in P PROVE k + 1 \in P
  <2> SUFFICES ASSUME m - (k + 1) >= b + 1 PROVE Before(s, m - (k + 1)) = "%"
    OBVIOUS
  <2> DEFINE q == m - (k + 1)
  <2>1. k \in Nat /\ q \in DOMAIN s /\ q \in b + 1..m /\ q + 1 = m - k /\ m - k >= b + 1
    BY <1>1, <1>3
  <2> HIDE DEF q
  <2>2. Before(s, q + 1) = "%"
    BY <1>3, <2>1
  <2>3. CASE IsBlank(s[q])
    <3>1. Before(s, q + 1) = Before(s, q)
      BY <2>1, <2>3, BeforeIs
    <3> QED
      BY <2>2, <3>1 DEF q
  <2>4. CASE ~IsBlank(s[q])
    <3>1. s[q].text = "%"
      BY <2>1, <2>2, <2>4, BeforeIs
    <3>2. Before(s, q) \in {"", "...", "%"}
      BY <2>1, <3>1 DEF IsStream
    <3>3. ~Begins(s, q)
      BY <2>1
    <3>4. Before(s, q) \notin {"", "..."}
      BY <3>1, <3>3 DEF Begins
    <3> QED
      BY <3>2, <3>4 DEF q
  <2> QED
    BY <2>3, <2>4
<1> HIDE DEF P
<1>4. P = Nat
  <2>1. P \in SUBSET Nat
    BY DEF P
  <2> QED
    BY <1>2, <1>3, <2>1, SetInduction
<1>5. ASSUME NEW q \in b..m - 1 PROVE s[q].text \in {"%", "", "#"}
  <2>1. m - (q + 1) \in P /\ m - (m - (q + 1)) = q + 1 /\ q + 1 >= b + 1 /\ q \in DOMAIN s
    BY <1>1, <1>4
  <2>2. Before(s, q + 1) = "%"
    BY <2>1 DEF P
  <2>3. IsBlank(s[q]) \/ s[q].text = "%"
    BY <2>1, <2>2, BeforeIs
  <2> QED
    BY <2>3 DEF IsBlank
<1> QED
  BY <1>5

\* A document has at most one marker.
LEMMA OneMarker ==
  ASSUME NEW R, NEW s \in Seq(R), IsStream(s), NEW b \in 1..Len(s), NEW m \in b + 1..Len(s),
         s[b].text = "---", s[m].text = "---"
  PROVE  \E p \in b + 1..m : Begins(s, p)
<1> SUFFICES ASSUME \A p \in b + 1..m : ~Begins(s, p) PROVE FALSE
  OBVIOUS
<1>1. b \in b..m - 1
  OBVIOUS
<1>2. s[b].text \in {"%", "", "#"}
  BY <1>1, DirectivesOnly
<1> QED
  BY <1>2

-----------------------------------------------------------------------------
(***************************************************************************)
(* The documents of a stream: b is where each of the n documents begins,   *)
(* but that the first has the rows before it, and the last one ends before *)
(* b[n + 1].                                                               *)
(***************************************************************************)
Begun(s, n, b, first) ==
  /\ n \in Nat \ {0}
  /\ b \in [1..n + 1 -> Nat]
  /\ b[1] = 1
  /\ b[n + 1] = Len(s) + 1
  /\ \A i \in 1..n : b[i] < b[i + 1]
  /\ \A i \in 2..n : Begins(s, b[i])
  /\ first \in 1..b[2] - 1
  /\ Begins(s, first)
  /\ \A p \in DOMAIN s : Begins(s, p) => p = first \/ \E i \in 2..n : p = b[i]

\* The documents of every stream.
LEMMA DocumentsAre ==
  ASSUME NEW R, NEW s \in Seq(R), Count(s) # 0
  PROVE  \E first : Begun(s, Count(s), [i \in 1..Count(s) + 1 |-> From(s, i)], first)
<1> DEFINE n == Count(s)
           B == Beginnings(s)
           b == [i \in 1..n + 1 |-> From(s, i)]
           first == Nth(B, 1)
<1>1. DOMAIN s = 1..Len(s) /\ Len(s) \in Nat
  OBVIOUS
<1>2. B \in SUBSET Nat /\ IsFiniteSet(B) /\ B \in SUBSET (1..Len(s)) /\ \A p \in B : Begins(s, p)
  <2>1. B \in SUBSET (1..Len(s)) /\ \A p \in B : Begins(s, p)
    BY <1>1 DEF Beginnings
  <2>2. IsFiniteSet(1..Len(s)) /\ 1..Len(s) \in SUBSET Nat
    BY <1>1, FS_Interval
  <2> QED
    BY <2>1, <2>2, FS_Subset
<1>3. n = Cardinality(B) /\ n \in Nat \ {0}
  BY <1>2, FS_CardinalityType DEF Count
<1>4. /\ From(s, 1) = 1
      /\ \A i \in 2..n : From(s, i) = Nth(B, i)
      /\ From(s, n + 1) = Len(s) + 1
  <2>1. \A i \in 2..n : i # 1
    BY <1>3
  <2>2. n + 1 # 1 /\ n + 1 \notin 2..n
    BY <1>3
  <2> QED
    BY <2>1, <2>2 DEF From
<1> HIDE DEF n, B
<1>5. /\ \A k \in 1..n : Nth(B, k) \in B
      /\ \A p \in B : \E k \in 1..n : p = Nth(B, k)
      /\ \A j, k \in 1..n : j < k => Nth(B, j) < Nth(B, k)
  <2>1. \A k \in 1..n : Nth(B, k) \in B
    BY <1>2, <1>3, NthIs
  <2>2. \A p \in B : p = Nth(B, Cardinality(UpTo(B, p))) /\ Cardinality(UpTo(B, p)) \in 1..n
    BY <1>2, <1>3, NthIs
  <2>3. \A j, k \in 1..n : j < k => Nth(B, j) < Nth(B, k)
    BY <1>2, <1>3, NthIs
  <2> QED
    BY <2>1, <2>2, <2>3
<1>6. 1 \in 1..n /\ first \in B /\ first \in 1..Len(s)
  <2>1. 1 \in 1..n
    BY <1>3
  <2>2. first \in B
    BY <1>5, <2>1
  <2> QED
    BY <1>2, <2>1, <2>2
<1>60. \A k \in 2..n : first < Nth(B, k)
  <2>1. \A k \in 2..n : k \in 1..n /\ 1 < k
    BY <1>3
  <2> QED
    BY <1>5, <1>6, <2>1
<1>7. /\ b[1] = 1
      /\ b[n + 1] = Len(s) + 1
      /\ \A i \in 2..n : b[i] = Nth(B, i) /\ b[i] \in B /\ b[i] \in 1..Len(s)
  <2>1. 1 \in 1..n + 1 /\ n + 1 \in 1..n + 1 /\ \A i \in 2..n : i \in 1..n /\ i \in 1..n + 1
    BY <1>3
  <2> QED
    BY <1>2, <1>4, <1>5, <2>1
<1>70. b = [i \in 1..n + 1 |-> b[i]]
  OBVIOUS
<1> HIDE DEF b, first
<1>8. b \in [1..n + 1 -> Nat]
  <2>1. \A i \in 1..n + 1 : i = 1 \/ i \in 2..n \/ i = n + 1
    BY <1>3
  <2>2. \A i \in 1..n + 1 : b[i] \in Nat
    BY <1>1, <1>7, <2>1
  <2> QED
    BY <1>70, <2>2
<1>9. first \in 1..b[2] - 1
  <2>1. CASE n = 1
    BY <1>1, <1>6, <1>7, <2>1
  <2>2. CASE n # 1
    <3>1. 2 \in 2..n /\ 2 \in 1..n
      BY <1>3, <2>2
    <3>2. first < b[2] /\ b[2] \in Nat
      BY <1>60, <1>7, <3>1
    <3> QED
      BY <1>1, <1>6, <3>2
  <2> QED
    BY <2>1, <2>2
<1>10. ASSUME NEW i \in 1..n PROVE b[i] < b[i + 1]
  <2>1. CASE i = 1
    <3>1. b[2] \in Nat
      BY <1>3, <1>8
    <3> QED
      BY <1>1, <1>6, <1>7, <1>9, <2>1, <3>1
  <2>2. CASE i # 1 /\ i = n
    <3>1. i \in 2..n
      BY <1>3, <2>2
    <3>2. b[i] \in 1..Len(s) /\ b[i + 1] = Len(s) + 1
      BY <1>7, <2>2, <3>1
    <3> QED
      BY <1>1, <3>2
  <2>3. CASE i # 1 /\ i # n
    <3>1. i \in 2..n /\ i + 1 \in 2..n /\ i \in 1..n /\ i + 1 \in 1..n /\ i < i + 1
      BY <1>3, <2>3
    <3> QED
      BY <1>5, <1>7, <3>1
  <2> QED
    BY <2>1, <2>2, <2>3
<1>11. ASSUME NEW p \in DOMAIN s, Begins(s, p) PROVE p = first \/ \E i \in 2..n : p = b[i]
  <2>1. p \in B
    BY <1>11 DEF B, Beginnings
  <2>2. PICK k \in 1..n : p = Nth(B, k)
    BY <1>5, <2>1
  <2>3. k = 1 \/ k \in 2..n
    BY <1>3, <2>2
  <2> QED
    BY <1>7, <2>2, <2>3 DEF first
<1>12. Begun(s, n, b, first)
  BY <1>2, <1>3, <1>6, <1>7, <1>8, <1>9, <1>10, <1>11 DEF Begun
<1> QED
  BY <1>12 DEF n, b

\* What begins within a document is the first one.
LEMMA BeginsWithin ==
  ASSUME NEW s, NEW n, NEW b, NEW first, Begun(s, n, b, first),
         NEW i \in 1..n, NEW p \in DOMAIN s, p \in b[i] + 1..b[i + 1] - 1 \/ (i = 1 /\ p \in 1..b[2] - 1), Begins(s, p)
  PROVE  i = 1 /\ p = first
<1>1. /\ n \in Nat \ {0} /\ b \in [1..n + 1 -> Nat] /\ b[1] = 1
      /\ \A j \in 1..n : b[j] < b[j + 1]
      /\ first \in 1..b[2] - 1
  BY DEF Begun
<1>2. \A j, k \in 1..n + 1 : j < k => b[j] < b[k]
  <2>1. (n + 1) - 1 = n /\ n + 1 \in Nat
    BY <1>1
  <2>2. \A j \in 1..(n + 1) - 1 : b[j] < b[j + 1]
    BY <1>1, <2>1
  <2> QED
    BY <1>1, <2>1, <2>2, Increasing
<1>3. p \in Int /\ i \in Nat
  BY <1>1
<1>4. b[i] \in Nat /\ b[i + 1] \in Nat /\ b[2] \in Nat
  BY <1>1
<1>5. ASSUME NEW j \in 2..n, p = b[j] PROVE FALSE
  <2>1. j \in 1..n + 1 /\ i \in 1..n + 1 /\ i + 1 \in 1..n + 1 /\ 2 \in 1..n + 1 /\ b[j] \in Nat
    BY <1>1, SMTT(20)
  <2>2. CASE p \in b[i] + 1..b[i + 1] - 1
    <3>1. b[i] < b[j] /\ b[j] < b[i + 1]
      BY <1>4, <1>5, <2>1, <2>2
    <3>2. ~(j < i) /\ j # i /\ ~(i + 1 < j) /\ j # i + 1
      BY <1>2, <1>4, <2>1, <3>1
    <3> QED
      BY <1>3, <3>2
  <2>3. CASE p \in 1..b[2] - 1
    <3>1. ~(2 < j) /\ j # 2
      BY <1>2, <1>4, <1>5, <2>1, <2>3
    <3> QED
      BY <3>1
  <2> QED
    BY <2>2, <2>3
<1>6. p = first
  BY <1>5 DEF Begun
<1>7. i = 1
  <2> SUFFICES ASSUME i # 1 PROVE FALSE
    OBVIOUS
  <2>1. 2 \in 1..n + 1 /\ i \in 1..n + 1 /\ (2 < i \/ i = 2)
    BY <1>1
  <2>2. b[2] <= b[i] /\ p \in b[i] + 1..b[i + 1] - 1
    BY <1>2, <1>4, <2>1
  <2> QED
    BY <1>1, <1>4, <1>6, <2>2, SMTT(20)
<1> QED
  BY <1>6, <1>7

-----------------------------------------------------------------------------
(***************************************************************************)
(* The lines of render.  A line ends no earlier than the decoder's line of *)
(* the same number.                                                        *)
(***************************************************************************)
LEMMA LinesAre ==
  ASSUME NEW R, NEW s \in Seq(R)
  PROVE  /\ LineCount(s) \in Nat \ {0}
         /\ LineStart(s, 1) = 1
         /\ LineStart(s, LineCount(s) + 1) = Len(s) + 1
         /\ \A k \in 1..LineCount(s) : LineStart(s, k) \in k..Len(s) + 1
         /\ \A j, k \in 1..LineCount(s) : j < k => LineStart(s, j) < LineStart(s, k)
         /\ (\A p \in DOMAIN s : s[p].lf) =>
               /\ LineCount(s) = Len(s) + 1
               /\ \A k \in 1..Len(s) + 1 : LineStart(s, k) = k
<1> DEFINE S == LineStarts(s)
           c == LineCount(s)
<1>1. DOMAIN s = 1..Len(s) /\ Len(s) \in Nat
  OBVIOUS
<1>2. S \in SUBSET (1..Len(s) + 1) /\ 1 \in S
  BY <1>1 DEF LineStarts
<1>3. S \in SUBSET Nat /\ IsFiniteSet(S)
  <2>1. IsFiniteSet(1..Len(s) + 1) /\ 1..Len(s) + 1 \in SUBSET Nat
    BY <1>1, FS_Interval
  <2> QED
    BY <1>2, <2>1, FS_Subset
<1>4. c = Cardinality(S) /\ c \in Nat \ {0}
  <2>1. Cardinality(S) \in Nat /\ Cardinality(S) # 0
    BY <1>2, <1>3, FS_CardinalityType, FS_EmptySet
  <2> QED
    BY <2>1 DEF LineCount
<1>5. ASSUME NEW k \in 1..c PROVE LineStart(s, k) = Nth(S, k)
  BY <1>5 DEF LineStart
<1>6. LineStart(s, c + 1) = Len(s) + 1
  <2>1. c + 1 \notin 1..c
    BY <1>4
  <2> QED
    BY <2>1 DEF LineStart
<1> HIDE DEF S, c
<1>7. ASSUME NEW p \in S PROVE Cardinality(UpTo(S, p)) \in 1..p
  <2>1. UpTo(S, p) \in SUBSET (1..p) /\ p \in Nat /\ IsFiniteSet(1..p) /\ Cardinality(1..p) = p
    <3>1. p \in Nat /\ p >= 1
      BY <1>1, <1>2
    <3>2. \A q \in S : q <= p => q \in 1..p
      BY <1>1, <1>2, <3>1
    <3>3. IsFiniteSet(1..p) /\ Cardinality(1..p) = p
      BY <3>1, FS_Interval
    <3> QED
      BY <3>1, <3>2, <3>3 DEF UpTo
  <2>2. Cardinality(UpTo(S, p)) <= p
    BY <2>1, FS_Subset
  <2>3. Cardinality(UpTo(S, p)) \in 1..Cardinality(S)
    BY <1>3, NthIs
  <2>4. Cardinality(S) \in Nat
    BY <1>4
  <2> QED
    BY <2>1, <2>2, <2>3, <2>4
<1>8. ASSUME NEW k \in 1..c PROVE LineStart(s, k) \in k..Len(s) + 1
  <2>1. Nth(S, k) \in S /\ Cardinality(UpTo(S, Nth(S, k))) = k
    BY <1>3, <1>4, NthIs
  <2>2. k \in 1..Nth(S, k)
    BY <1>7, <2>1
  <2>3. Nth(S, k) \in 1..Len(s) + 1
    BY <1>2, <2>1
  <2> QED
    BY <1>1, <1>5, <2>2, <2>3
<1>9. ASSUME NEW j \in 1..c, NEW k \in 1..c, j < k PROVE LineStart(s, j) < LineStart(s, k)
  BY <1>3, <1>4, <1>5, <1>9, NthIs
<1>10. LineStart(s, 1) = 1
  <2>1. Cardinality(UpTo(S, 1)) = 1
    BY <1>2, <1>7
  <2>2. 1 = Nth(S, Cardinality(UpTo(S, 1)))
    BY <1>2, <1>3, NthIs
  <2>3. 1 \in 1..c
    BY <1>4
  <2> QED
    BY <1>5, <2>1, <2>2, <2>3
<1>11. ASSUME \A p \in DOMAIN s : s[p].lf
       PROVE  c = Len(s) + 1 /\ \A k \in 1..Len(s) + 1 : LineStart(s, k) = k
  <2>1. ASSUME NEW k \in 1..Len(s) + 1 PROVE k \in S
    <3>1. CASE k = 1
      BY <1>2, <3>1
    <3>2. CASE k # 1
      <4>1. k - 1 \in DOMAIN s /\ (k - 1) + 1 = k
        BY <1>1, <3>2
      <4>2. k - 1 \in {q \in DOMAIN s : s[q].lf}
        BY <1>11, <4>1
      <4> QED
        BY <4>1, <4>2 DEF S, LineStarts
    <3> QED
      BY <3>1, <3>2
  <2> DEFINE f == [k \in 1..Len(s) + 1 |-> k]
             n == Len(s) + 1
  <2>2. n \in Nat /\ f \in [1..n -> Nat] /\ \A k \in 1..n : f[k] = k
    BY <1>1
  <2> HIDE DEF f, n
  <2>3. \A k \in 1..n - 1 : f[k] < f[k + 1]
    BY <2>2
  <2>4. (\A k \in 1..n : f[k] \in S) /\ \A q \in S : \E k \in 1..n : q = f[k]
    BY <1>2, <2>1, <2>2 DEF n
  <2>5. Cardinality(S) = n /\ \A k \in 1..n : Nth(S, k) = f[k]
    <3>1. ListedBy(S, f, n)
      BY <2>2, <2>3, <2>4 DEF ListedBy
    <3> QED
      BY <2>2, <3>1, NthOf DEF NthFrom
  <2> QED
    BY <1>4, <1>5, <2>2, <2>5 DEF n
<1> QED
  BY <1>4, <1>6, <1>8, <1>9, <1>10, <1>11 DEF c

\* The rows of a line that is a marker.
MarkerRows(R, s, k) ==
  /\ LineStart(s, k) \in k..Len(s)
  /\ s[LineStart(s, k)].text = "---"
  /\ Line(s, k) \in Seq(R)
  /\ Line(s, k) # << >>
  /\ Line(s, k)[1].text = "---"
  /\ \A p \in 2..Len(Line(s, k)) : Line(s, k)[p].text = ""

LEMMA MarkerIs ==
  ASSUME NEW R, NEW s \in Seq(R), NEW k \in 1..LineCount(s), IsMarker(Line(s, k))
  PROVE  MarkerRows(R, s, k)
<1> DEFINE line == Line(s, k)
           a == LineStart(s, k)
           z == LineStart(s, k + 1) - 1
<1>1. a \in k..Len(s) + 1 /\ Len(s) \in Nat /\ k \in Nat \ {0}
  BY LinesAre
<1>2. z \in Int /\ z <= Len(s)
  <2>1. CASE k = LineCount(s)
    BY <1>1, <2>1, LinesAre
  <2>2. CASE k # LineCount(s)
    <3>1. k + 1 \in 1..LineCount(s)
      BY <2>2, LinesAre
    <3>2. LineStart(s, k + 1) \in k + 1..Len(s) + 1
      BY <3>1, LinesAre
    <3> QED
      BY <1>1, <3>2
  <2> QED
    BY <2>1, <2>2
<1>3. line = SubSeq(s, a, z) /\ line # << >> /\ line[1].text = "---" /\ \A p \in 2..Len(line) : line[p].text = ""
  BY DEF Line, IsMarker
<1> HIDE DEF line, a, z
<1>4. a <= z
  <2> SUFFICES ASSUME ~(a <= z) PROVE FALSE
    OBVIOUS
  <2>1. SubSeq(s, a, z) = << >>
    BY <1>1, <1>2
  <2> QED
    BY <1>3, <2>1
<1>5. SubSeq(s, a, z) \in Seq(R) /\ Len(SubSeq(s, a, z)) = z - a + 1 /\ SubSeq(s, a, z)[1] = s[a]
  BY <1>1, <1>2, <1>4
<1>6. a \in k..Len(s)
  BY <1>1, <1>2, <1>4
<1>7. line \in Seq(R) /\ s[a].text = "---"
  BY <1>3, <1>5
<1> QED
  BY <1>3, <1>6, <1>7 DEF a, line, MarkerRows

-----------------------------------------------------------------------------
(***************************************************************************)
(* The lines that render takes for the starts of the documents, when it    *)
(* has found a marker at each: m is their first rows.  Each is in its      *)
(* document, for a document has only one marker and none is left for a     *)
(* document whose line lies in a later one.  Before it there are only      *)
(* directives.                                                             *)
(***************************************************************************)
Marked(s, n, b, m) ==
  /\ m \in [1..n + 1 -> Nat]
  /\ m[1] = 1
  /\ m[n + 1] = Len(s) + 1
  /\ \A i \in 1..n : b[i] <= m[i] /\ m[i] < b[i + 1] /\ m[i] < m[i + 1]
  /\ \A i \in 2..n : s[m[i]].text = "---" /\ \A q \in b[i]..m[i] - 1 : s[q].text \in {"%", "", "#"}

\* What Verbatim tells of the lines: each is a marker, at or behind the row wanted.
Marks(s, n, b, m) ==
  /\ m \in [1..n + 1 -> Nat]
  /\ m[1] = 1
  /\ m[n + 1] = Len(s) + 1
  /\ \A i \in 2..n : b[i] <= m[i] /\ m[i] <= Len(s)
  /\ \A i \in 2..n : s[m[i]].text = "---"
  /\ \A i \in 2..n - 1 : m[i] < m[i + 1]

\* None lies in a later document.
LEMMA MarkersAreApart ==
  ASSUME NEW R, NEW s \in Seq(R), IsStream(s), NEW n, NEW b, NEW first, Begun(s, n, b, first),
         NEW m, Marks(s, n, b, m)
  PROVE  \A i \in 2..n : m[i] < b[i + 1]
<1> DEFINE P == {k \in Nat : n - k >= 2 => m[n - k] < b[n - k + 1]}
<1>1. /\ n \in Nat \ {0} /\ b \in [1..n + 1 -> Nat] /\ b[n + 1] = Len(s) + 1
      /\ \A j \in 1..n : b[j] < b[j + 1]
      /\ DOMAIN s = 1..Len(s) /\ Len(s) \in Nat
  BY DEF Begun
<1>0. m \in [1..n + 1 -> Nat] /\ \A i \in 2..n : m[i] <= Len(s)
  BY DEF Marks
<1>2. 0 \in P
  <2> SUFFICES ASSUME n >= 2 PROVE m[n] < b[n + 1]
    BY <1>1
  <2>1. n \in 2..n /\ m[n] \in Nat
    BY <1>0, <1>1
  <2>2. m[n] <= Len(s)
    BY <1>0, <2>1
  <2> QED
    BY <1>1, <2>1, <2>2
<1>3. ASSUME NEW k \in P PROVE k + 1 \in P
  <2> DEFINE i == n - (k + 1)
  <2> SUFFICES ASSUME i >= 2, ~(m[i] < b[i + 1]) PROVE FALSE
    OBVIOUS
  <2>1. k \in Nat /\ i \in 2..n - 1 /\ i + 1 \in 2..n /\ i \in 2..n /\ i + 1 = n - k /\ n - k + 1 = i + 2 /\ n - k >= 2
    BY <1>1, <1>3
  <2> HIDE DEF i
  <2>2. m[i + 1] < b[i + 2]
    BY <1>3, <2>1
  <2>3. m[i] < m[i + 1] /\ m[i] <= Len(s) /\ m[i + 1] <= Len(s) /\ s[m[i]].text = "---" /\ s[m[i + 1]].text = "---"
    BY <2>1 DEF Marks
  <2>4. i \in 1..n + 1 /\ i + 1 \in 1..n + 1 /\ i + 2 \in 1..n + 1
    BY <1>1, <2>1
  <2>5. m[i] \in Nat /\ m[i + 1] \in Nat /\ b[i + 1] \in Nat /\ b[i + 2] \in Nat /\ b[i] \in Nat
    BY <1>0, <1>1, <2>4
  <2>6. b[i + 1] >= 1
    <3>1. i \in 1..n /\ b[i] < b[i + 1]
      BY <1>1, <2>1
    <3> QED
      BY <2>5, <3>1
  <2>7. m[i] \in 1..Len(s) /\ m[i + 1] \in m[i] + 1..Len(s)
    BY <2>3, <2>5, <2>6
  <2>8. PICK p \in m[i] + 1..m[i + 1] : Begins(s, p)
    BY <2>3, <2>7, OneMarker
  <2>9. p \in b[i + 1] + 1..b[i + 2] - 1 /\ p \in DOMAIN s
    <3>1. m[i + 1] < b[i + 2] /\ ~(m[i] < b[i + 1]) /\ m[i + 1] <= Len(s) /\ DOMAIN s = 1..Len(s) /\ Len(s) \in Nat
      BY <1>1, <2>2, <2>3 DEF i
    <3>2. p \in m[i] + 1..m[i + 1]
      BY <2>8
    <3> QED
      BY <2>5, <3>1, <3>2
  <2>10. i + 1 \in 1..n /\ (i + 1) + 1 = i + 2 /\ i + 1 # 1
    BY <1>1, <2>1
  <2>11. p \in b[i + 1] + 1..b[(i + 1) + 1] - 1
    BY <2>9, <2>10
  <2>12. i + 1 = 1
    <3>1. p \in b[i + 1] + 1..b[(i + 1) + 1] - 1 \/ (i + 1 = 1 /\ p \in 1..b[2] - 1)
      BY <2>11
    <3>2. p \in DOMAIN s /\ Begins(s, p) /\ i + 1 \in 1..n
      BY <2>8, <2>9, <2>10
    <3> QED
      BY <3>1, <3>2, BeginsWithin
  <2> QED
    BY <2>10, <2>12
<1> HIDE DEF P
<1>4. P = Nat
  <2>1. P \in SUBSET Nat
    BY DEF P
  <2> QED
    BY <1>2, <1>3, <2>1, SetInduction
<1>5. ASSUME NEW i \in 2..n PROVE m[i] < b[i + 1]
  <2>1. n - i \in P /\ n - (n - i) = i /\ i >= 2
    BY <1>1, <1>4
  <2> QED
    BY <2>1 DEF P
<1> QED
  BY <1>5

LEMMA MarkersAre ==
  ASSUME NEW R, NEW s \in Seq(R), IsStream(s), NEW n, NEW b, NEW first, Begun(s, n, b, first),
         NEW m, Marks(s, n, b, m)
  PROVE  Marked(s, n, b, m)
<1>1. /\ n \in Nat \ {0} /\ b \in [1..n + 1 -> Nat] /\ b[n + 1] = Len(s) + 1 /\ b[1] = 1
      /\ \A j \in 1..n : b[j] < b[j + 1]
      /\ \A j \in 2..n : Begins(s, b[j])
      /\ DOMAIN s = 1..Len(s) /\ Len(s) \in Nat
  BY DEF Begun
<1>0. m \in [1..n + 1 -> Nat] /\ m[1] = 1 /\ m[n + 1] = Len(s) + 1 /\ \A i \in 2..n : b[i] <= m[i] /\ m[i] <= Len(s)
  BY DEF Marks
<1>2. \A i \in 2..n : m[i] < b[i + 1]
  BY MarkersAreApart
<1>3. ASSUME NEW i \in 1..n PROVE b[i] <= m[i] /\ m[i] < b[i + 1]
  <2>1. CASE i = 1
    BY <1>0, <1>1, <2>1
  <2>2. CASE i # 1
    <3>1. i \in 2..n
      BY <1>1, <2>2
    <3> QED
      BY <1>0, <1>2, <3>1
  <2> QED
    BY <2>1, <2>2
<1>4. ASSUME NEW i \in 1..n PROVE m[i] < m[i + 1]
  <2>1. /\ i + 1 \in 1..n + 1 /\ i \in 1..n + 1 /\ m[i] \in Nat /\ m[i + 1] \in Nat
        /\ b[i + 1] \in Nat /\ m[i] < b[i + 1]
    BY <1>0, <1>1, <1>3
  <2>2. b[i + 1] <= m[i + 1]
    <3>1. CASE i = n
      BY <1>0, <1>1, <3>1
    <3>2. CASE i # n
      <4>1. i + 1 \in 1..n
        BY <1>1, <3>2
      <4> QED
        BY <1>3, <4>1
    <3> QED
      BY <3>1, <3>2
  <2> QED
    BY <2>1, <2>2
<1>5. ASSUME NEW i \in 2..n PROVE \A q \in b[i]..m[i] - 1 : s[q].text \in {"%", "", "#"}
  <2>1. /\ i \in 1..n /\ i \in 1..n + 1 /\ i + 1 \in 1..n + 1 /\ i # 1 /\ i - 1 \in 1..n
        /\ i - 1 \in 1..n + 1 /\ (i - 1) + 1 = i
    BY <1>1
  <2>2. b[i] \in Nat /\ m[i] \in Nat /\ b[i + 1] \in Nat /\ b[i - 1] \in Nat
    BY <1>0, <1>1, <2>1
  <2>3. b[i - 1] < b[i] /\ b[i] <= m[i] /\ m[i] < b[i + 1] /\ m[i] <= Len(s) /\ Len(s) \in Nat
    BY <1>0, <1>1, <1>3, <2>1
  <2>4. CASE b[i] = m[i]
    <3>1. \A q : q \notin b[i]..m[i] - 1
      BY <2>2, <2>4
    <3> QED
      BY <3>1
  <2>5. CASE b[i] # m[i]
    <3>1. ASSUME NEW p \in b[i] + 1..m[i] PROVE ~Begins(s, p)
      <4>1. p \in b[i] + 1..b[i + 1] - 1 \/ (i = 1 /\ p \in 1..b[2] - 1)
        BY <2>2, <2>3
      <4>2. p \in 1..Len(s)
        BY <2>2, <2>3
      <4>3. p \in DOMAIN s /\ i \in 1..n
        BY <1>1, <2>1, <4>2
      <4> QED
        BY <2>1, <4>1, <4>3, BeginsWithin
    <3>2. b[i] \in 1..Len(s) /\ m[i] \in b[i] + 1..Len(s)
      BY <2>2, <2>3, <2>5
    <3>3. s[m[i]].text = "---"
      BY DEF Marks
    <3> QED
      BY <3>1, <3>2, <3>3, DirectivesOnly
  <2> QED
    BY <2>4, <2>5
<1>6. \A i \in 2..n : s[m[i]].text = "---"
  BY DEF Marks
<1> QED
  BY <1>0, <1>3, <1>4, <1>5, <1>6 DEF Marked

-----------------------------------------------------------------------------
(***************************************************************************)
(* The pieces that render writes, one behind the other.                    *)
(***************************************************************************)
Join(f, w, n) == f = [i \in 0..n |-> IF i = 0 THEN << >> ELSE f[i - 1] \o w[i]]

\* The recursion that joins them has a solution.
LEMMA JoinExists ==
  ASSUME NEW n \in Nat, NEW w
  PROVE  \E f : Join(f, w, n)
<1> DEFINE P == {k \in Nat : \E f : Join(f, w, k)}
<1>1. 0 \in P
  <2> DEFINE f == [i \in 0..0 |-> << >>]
  <2>1. f = [i \in 0..0 |-> IF i = 0 THEN << >> ELSE f[i - 1] \o w[i]]
    <3>1. \A i \in 0..0 : i = 0
      OBVIOUS
    <3> QED
      BY <3>1
  <2> HIDE DEF f
  <2>2. Join(f, w, 0)
    BY <2>1 DEF Join
  <2> QED
    BY <2>2
<1>2. ASSUME NEW k \in P PROVE k + 1 \in P
  <2>1. PICK f : Join(f, w, k)
    OBVIOUS
  <2>2. k \in Nat
    OBVIOUS
  <2>3. /\ f[0] = << >>
        /\ \A i \in 1..k : f[i] = f[i - 1] \o w[i]
    <3>1. f = [i \in 0..k |-> IF i = 0 THEN << >> ELSE f[i - 1] \o w[i]]
      BY <2>1 DEF Join
    <3>2. 0 \in 0..k /\ \A i \in 1..k : i \in 0..k /\ i # 0
      BY <2>2
    <3> QED
      BY <3>1, <3>2
  <2> DEFINE g == [i \in 0..k + 1 |-> IF i = k + 1 THEN f[k] \o w[k + 1] ELSE f[i]]
             h == [i \in 0..k + 1 |-> IF i = 0 THEN << >> ELSE g[i - 1] \o w[i]]
  <2>4. ASSUME NEW i \in 0..k + 1 PROVE g[i] = h[i]
    <3>1. CASE i = 0
      BY <2>2, <2>3, <3>1
    <3>2. CASE i \in 1..k
      <4>1. i # 0 /\ i # k + 1 /\ i - 1 \in 0..k + 1 /\ i - 1 # k + 1
        BY <2>2, <3>2
      <4>2. g[i] = f[i] /\ g[i - 1] = f[i - 1]
        BY <4>1
      <4>3. h[i] = g[i - 1] \o w[i]
        BY <4>1
      <4> QED
        BY <2>3, <3>2, <4>2, <4>3
    <3>3. CASE i = k + 1
      <4>1. i # 0 /\ i - 1 = k /\ k \in 0..k + 1 /\ k # k + 1
        BY <2>2, <3>3
      <4>2. g[i] = f[k] \o w[k + 1] /\ g[i - 1] = f[k]
        BY <3>3, <4>1
      <4>3. h[i] = g[i - 1] \o w[i]
        BY <4>1
      <4> QED
        BY <3>3, <4>2, <4>3
    <3> QED
      BY <2>2, <3>1, <3>2, <3>3
  <2>5. g = h
    BY <2>4
  <2>6. Join(g, w, k + 1)
    BY <2>5 DEF Join
  <2> HIDE DEF g
  <2> QED
    BY <2>2, <2>6
<1> HIDE DEF P
<1>3. P = Nat
  <2>1. P \in SUBSET Nat
    BY DEF P
  <2> QED
    BY <1>1, <1>2, <2>1, SetInduction
<1> QED
  BY <1>3 DEF P

\* off[i] is the last row of the i-th piece.
Joined(out, w, n, off) ==
  /\ off \in [0..n -> Nat]
  /\ off[0] = 0
  /\ Len(out) = off[n]
  /\ \A i \in 1..n : off[i] = off[i - 1] + Len(w[i])
  /\ \A i \in 1..n : \A k \in 1..Len(w[i]) : out[off[i - 1] + k] = w[i][k]
  /\ \A p \in 1..Len(out) : \E i \in 1..n : p \in off[i - 1] + 1..off[i]

\* Each row of what is joined is one of a piece.
LEMMA JoinIs ==
  ASSUME NEW n \in Nat, NEW R, NEW w \in [1..n -> Seq(R)], NEW f, Join(f, w, n)
  PROVE  f[n] \in Seq(R) /\ \E off : Joined(f[n], w, n, off)
<1> DEFINE P == {k \in Nat : k <= n => f[k] \in Seq(R) /\ \E off : Joined(f[k], w, k, off)}
<1>1. f[0] = << >> /\ \A i \in 1..n : f[i] = f[i - 1] \o w[i]
  <2>1. f = [i \in 0..n |-> IF i = 0 THEN << >> ELSE f[i - 1] \o w[i]]
    BY DEF Join
  <2>2. 0 \in 0..n /\ \A i \in 1..n : i \in 0..n /\ i # 0
    OBVIOUS
  <2> QED
    BY <2>1, <2>2
<1>2. 0 \in P
  <2> DEFINE off == [i \in 0..0 |-> 0]
  <2>1. off \in [0..0 -> Nat] /\ off[0] = 0 /\ Len(<< >>) = 0 /\ << >> \in Seq(R)
    OBVIOUS
  <2>2. \A i : i \notin 1..0
    OBVIOUS
  <2> HIDE DEF off
  <2>3. Joined(<< >>, w, 0, off)
    BY <2>1, <2>2 DEF Joined
  <2> QED
    BY <1>1, <2>1, <2>3
<1>3. ASSUME NEW k \in P PROVE k + 1 \in P
  <2> SUFFICES ASSUME k + 1 <= n PROVE f[k + 1] \in Seq(R) /\ \E off : Joined(f[k + 1], w, k + 1, off)
    OBVIOUS
  <2>1. k \in Nat /\ k <= n /\ f[k] \in Seq(R) /\ k + 1 \in 1..n /\ (k + 1) - 1 = k
    OBVIOUS
  <2>2. PICK off : Joined(f[k], w, k, off)
    BY <2>1
  <2> DEFINE a == f[k]
             b == w[k + 1]
             new == [i \in 0..k + 1 |-> IF i = k + 1 THEN off[k] + Len(b) ELSE off[i]]
             out == f[k + 1]
  <2>3. a \in Seq(R) /\ b \in Seq(R) /\ out = a \o b
    BY <1>1, <2>1
  <2>4. /\ off \in [0..k -> Nat] /\ off[0] = 0 /\ Len(a) = off[k]
        /\ \A i \in 1..k : off[i] = off[i - 1] + Len(w[i])
    BY <2>2 DEF Joined
  <2>5. /\ \A i \in 1..k : \A j \in 1..Len(w[i]) : a[off[i - 1] + j] = w[i][j]
        /\ \A p \in 1..Len(a) : \E i \in 1..k : p \in off[i - 1] + 1..off[i]
    BY <2>2 DEF Joined
  <2>6. new = [i \in 0..k + 1 |-> new[i]] /\ new[k + 1] = off[k] + Len(b) /\ \A i \in 0..k : new[i] = off[i]
    <3>1. k + 1 \in 0..k + 1 /\ \A i \in 0..k : i \in 0..k + 1 /\ i # k + 1
      BY <2>1
    <3> QED
      BY <3>1
  <2> HIDE DEF P, a, b, new, out
  <2>7. /\ Len(a) \in Nat /\ Len(b) \in Nat /\ out \in Seq(R) /\ Len(out) = Len(a) + Len(b)
        /\ \A j \in 1..Len(a) : out[j] = a[j]
        /\ \A j \in 1..Len(b) : out[Len(a) + j] = b[j]
    BY <2>3
  <2>8. new \in [0..k + 1 -> Nat]
    <3>1. \A i \in 0..k + 1 : i = k + 1 \/ i \in 0..k
      BY <2>1
    <3>2. off[k] \in Nat /\ \A i \in 0..k : off[i] \in Nat
      BY <2>1, <2>4
    <3>3. \A i \in 0..k + 1 : new[i] \in Nat
      <4>1. off[k] + Len(b) \in Nat
        BY <2>7, <3>2
      <4> QED
        BY <2>6, <3>1, <3>2, <4>1
    <3> QED
      BY <2>6, <3>3
  <2>9. new[0] = 0 /\ Len(out) = new[k + 1]
    <3>1. 0 \in 0..k
      BY <2>1
    <3> QED
      BY <2>4, <2>6, <2>7, <3>1
  <2>10. ASSUME NEW i \in 1..k + 1
         PROVE  /\ new[i] = new[i - 1] + Len(w[i])
                /\ \A j \in 1..Len(w[i]) : out[new[i - 1] + j] = w[i][j]
    <3>1. CASE i = k + 1
      <4>1. i - 1 = k /\ k \in 0..k /\ w[i] = b /\ new[i] = new[k + 1]
        BY <2>1, <3>1 DEF b
      <4>2. new[i - 1] = off[k] /\ new[i] = off[k] + Len(b)
        BY <2>6, <4>1
      <4>3. off[k] = Len(a)
        BY <2>4
      <4>4. \A j \in 1..Len(b) : out[off[k] + j] = b[j]
        BY <2>7, <4>3
      <4> QED
        BY <4>1, <4>2, <4>4
    <3>2. CASE i # k + 1
      <4>1. i \in 1..k /\ i - 1 \in 0..k /\ i \in 0..k
        BY <2>1, <3>2
      <4>2. new[i] = off[i] /\ new[i - 1] = off[i - 1] /\ off[i] = off[i - 1] + Len(w[i])
        BY <2>4, <2>6, <4>1
      <4>3. off[i] <= Len(a)
        <5> DEFINE Q == {j \in Nat : i + j <= k => off[i] <= off[i + j]}
        <5>1. 0 \in Q
          BY <2>4, <4>1, SMTT(20)
        <5>2. ASSUME NEW j \in Q PROVE j + 1 \in Q
          <6> SUFFICES ASSUME i + j + 1 <= k PROVE off[i] <= off[i + j + 1]
            OBVIOUS
          <6>1. j \in Nat /\ i + j \in 0..k /\ i + j + 1 \in 1..k /\ i + j + 1 \in 0..k /\ (i + j + 1) - 1 = i + j
            BY <2>1, <4>1
          <6>2. off[i] <= off[i + j] /\ off[i + j + 1] = off[i + j] + Len(w[i + j + 1])
            BY <2>1, <2>4, <5>2, <6>1
          <6>3. i + j + 1 \in 1..n /\ Len(w[i + j + 1]) \in Nat
            <7>1. i + j + 1 \in 1..n
              BY <2>1, <6>1
            <7>2. w[i + j + 1] \in Seq(R)
              BY <7>1
            <7> QED
              BY <7>1, <7>2
          <6>4. off[i] \in Nat /\ off[i + j] \in Nat
            BY <2>4, <4>1, <6>1
          <6> QED
            BY <6>2, <6>3, <6>4
        <5> HIDE DEF Q
        <5>3. Q = Nat
          <6>1. Q \in SUBSET Nat
            BY DEF Q
          <6> QED
            BY <5>1, <5>2, <6>1, SetInduction
        <5>4. k - i \in Q /\ i + (k - i) = k
          BY <2>1, <4>1, <5>3
        <5> QED
          BY <2>1, <2>4, <5>4 DEF Q
      <4>4. ASSUME NEW j \in 1..Len(w[i]) PROVE out[new[i - 1] + j] = w[i][j]
        <5>1. a[off[i - 1] + j] = w[i][j]
          BY <2>5, <4>1
        <5>2. off[i - 1] \in Nat /\ off[i] \in Nat
          BY <2>4, <4>1
        <5>3. i \in 1..n
          BY <2>1, <4>1
        <5>4. w[i] \in Seq(R)
          BY <5>3
        <5>5. Len(w[i]) \in Nat
          BY <5>4
        <5>6. off[i - 1] + j \in 1..Len(a)
          <6>1. off[i] = off[i - 1] + Len(w[i]) /\ off[i] <= Len(a) /\ Len(a) \in Nat
            BY <2>7, <4>2, <4>3
          <6> QED
            BY <5>2, <5>5, <6>1
        <5> QED
          BY <2>7, <4>2, <5>1, <5>6
      <4> QED
        BY <4>2, <4>4
    <3> QED
      BY <3>1, <3>2
  <2>11. ASSUME NEW p \in 1..Len(out) PROVE \E i \in 1..k + 1 : p \in new[i - 1] + 1..new[i]
    <3>1. CASE p \in 1..Len(a)
      <4>1. PICK i \in 1..k : p \in off[i - 1] + 1..off[i]
        BY <2>5, <3>1
      <4>2. i \in 1..k + 1 /\ i \in 0..k /\ i - 1 \in 0..k
        BY <2>1
      <4>3. new[i] = off[i] /\ new[i - 1] = off[i - 1]
        BY <2>6, <4>2
      <4> QED
        BY <4>1, <4>2, <4>3
    <3>2. CASE p \notin 1..Len(a)
      <4>1. k + 1 \in 1..k + 1 /\ k \in 0..k /\ new[k] = off[k]
        <5>1. k + 1 \in 1..k + 1 /\ k \in 0..k
          BY <2>1
        <5> QED
          BY <2>6, <5>1
      <4>2. p \in new[(k + 1) - 1] + 1..new[k + 1]
        BY <2>1, <2>4, <2>6, <2>7, <3>2, <4>1
      <4> QED
        BY <4>1, <4>2
    <3> QED
      BY <3>1, <3>2
  <2>12. Joined(out, w, k + 1, new)
    BY <2>8, <2>9, <2>10, <2>11 DEF Joined
  <2> QED
    BY <2>7, <2>12 DEF out
<1> HIDE DEF P
<1>4. P = Nat
  <2>1. P \in SUBSET Nat
    BY DEF P
  <2> QED
    BY <1>2, <1>3, <2>1, SetInduction
<1>5. n \in P /\ n <= n
  BY <1>4
<1> QED
  BY <1>5 DEF P

-----------------------------------------------------------------------------
(***************************************************************************)
(* What render writes: the pieces of the documents in C are copies of the  *)
(* rows from one marker to the next, the others are encoded documents with *)
(* a marker before them, but perhaps not before the first.                 *)
(***************************************************************************)
Placed(s, out, n, m, C, off) ==
  /\ n \in Nat \ {0}
  /\ C \in SUBSET (1..n)
  /\ off \in [0..n -> Nat]
  /\ off[0] = 0
  /\ off[n] = Len(out)
  /\ \A i \in 1..n : off[i - 1] < off[i]
  /\ \A p \in 1..Len(out) : \E i \in 1..n : p \in off[i - 1] + 1..off[i]
  /\ \A i \in C : off[i] = off[i - 1] + (m[i + 1] - m[i])

CopiesOf(s, out, m, C, off) ==
  \A i \in C : \A k \in 0..m[i + 1] - m[i] - 1 : out[off[i - 1] + 1 + k] = s[m[i] + k]

EncodesOthers(out, n, C, off) ==
  \A i \in (1..n) \ C :
    /\ out[off[i]] = Encoded(i)
    /\ off[i] > off[i - 1] + 1 => out[off[i - 1] + 1].text = "---"
    /\ \A p \in off[i - 1] + 2..off[i] - 1 : out[p].text = ""
    /\ i # 1 => off[i] > off[i - 1] + 1

Pieces(s, out, n, b, m, first, C, off) ==
  /\ IsStream(s)
  /\ Placed(s, out, n, m, C, off)
  /\ CopiesOf(s, out, m, C, off)
  /\ EncodesOthers(out, n, C, off)
  /\ C # {} => Begun(s, n, b, first) /\ Marked(s, n, b, m)

\* Numbers that grow at each step, from 0 on.
LEMMA Ascending ==
  ASSUME NEW n \in Nat, NEW f \in [0..n -> Nat], \A i \in 1..n : f[i - 1] < f[i]
  PROVE  \A i, j \in 0..n : i < j => f[i] < f[j]
<1> DEFINE g == [i \in 1..n + 1 |-> f[i - 1]]
<1>1. \A i \in 1..n + 1 : i - 1 \in 0..n
  OBVIOUS
<1>2. g \in [1..n + 1 -> Nat] /\ \A i \in 1..n + 1 : g[i] = f[i - 1]
  BY <1>1
<1>3. \A i \in 0..n : i + 1 \in 1..n + 1 /\ f[i] = g[i + 1]
  BY <1>2
<1> HIDE DEF g
<1>4. ASSUME NEW i \in 1..(n + 1) - 1 PROVE g[i] < g[i + 1]
  <2>1. i \in 1..n /\ i \in 1..n + 1 /\ i + 1 \in 1..n + 1 /\ (i + 1) - 1 = i
    OBVIOUS
  <2> QED
    BY <1>2, <2>1
<1>5. n + 1 \in Nat
  OBVIOUS
<1>6. \A i, j \in 1..n + 1 : i < j => g[i] < g[j]
  BY <1>2, <1>4, <1>5, Increasing
<1>7. \A i, j \in 0..n : i < j => i + 1 < j + 1
  OBVIOUS
<1> QED
  BY <1>3, <1>6, <1>7

\* The numbers of a stream with its markers.
LEMMA MarkBounds ==
  ASSUME NEW R, NEW s \in Seq(R), NEW n, NEW b, NEW m, NEW first,
         Begun(s, n, b, first), Marked(s, n, b, m), NEW i \in 1..n
  PROVE  /\ n \in Nat \ {0}
         /\ m[i] \in 1..Len(s) /\ m[i + 1] \in m[i] + 1..Len(s) + 1
         /\ b[i] \in 1..m[i] /\ b[i + 1] \in m[i] + 1..m[i + 1]
         /\ i = 1 => m[i] = 1
         /\ i = n => b[i + 1] = m[i + 1]
<1>1. n \in Nat \ {0}
  BY DEF Begun
<1>3. /\ b \in [1..n + 1 -> Nat] /\ m \in [1..n + 1 -> Nat]
      /\ b[1] = 1 /\ m[1] = 1 /\ b[n + 1] = Len(s) + 1 /\ m[n + 1] = Len(s) + 1
      /\ \A j \in 1..n : b[j] < b[j + 1]
  BY DEF Begun, Marked
<1>4. \A j \in 1..n : b[j] <= m[j] /\ m[j] < b[j + 1] /\ m[j] < m[j + 1]
  BY DEF Marked
<1>5. i \in 1..n + 1 /\ i + 1 \in 1..n + 1
  BY <1>1
<1>6. b[i] \in Nat /\ b[i + 1] \in Nat /\ m[i] \in Nat /\ m[i + 1] \in Nat
  BY <1>3, <1>5
<1>7. b[i] <= m[i] /\ m[i] < b[i + 1] /\ m[i] < m[i + 1]
  BY <1>4
<1>8. b[i + 1] <= m[i + 1] /\ (i = n => b[i + 1] = m[i + 1])
  <2>1. CASE i = n
    BY <1>3, <1>6, <2>1
  <2>2. CASE i # n
    <3>1. i + 1 \in 1..n
      BY <1>1, <2>2
    <3> QED
      BY <1>4, <2>2, <3>1
  <2> QED
    BY <2>1, <2>2
<1>9. b[i] >= 1
  <2>1. CASE i = 1
    BY <1>3, <2>1
  <2>2. CASE i # 1
    <3>1. i - 1 \in 1..n /\ i - 1 \in 1..n + 1 /\ (i - 1) + 1 = i
      BY <1>1, <2>2
    <3>2. b[i - 1] < b[i] /\ b[i - 1] \in Nat
      BY <1>3, <3>1
    <3> QED
      BY <1>6, <3>2
  <2> QED
    BY <2>1, <2>2
<1>10. m[i + 1] <= Len(s) + 1
  <2>1. n + 1 \in Nat /\ (n + 1) - 1 = n
    BY <1>1
  <2>2. \A j \in 1..(n + 1) - 1 : m[j] < m[j + 1]
    BY <1>4, <2>1
  <2>3. \A j, k \in 1..n + 1 : j < k => m[j] < m[k]
    BY <1>3, <2>1, <2>2, Increasing
  <2>4. n + 1 \in 1..n + 1 /\ (i + 1 < n + 1 \/ i + 1 = n + 1) /\ m[n + 1] \in Nat
    BY <1>1, <1>3
  <2>5. m[i + 1] <= m[n + 1]
    BY <1>5, <1>6, <2>3, <2>4
  <2> QED
    BY <1>3, <2>5
<1>11. Len(s) \in Nat /\ (i = 1 => m[i] = 1)
  BY <1>3
<1>12. m[i] \in 1..Len(s) /\ m[i + 1] \in m[i] + 1..Len(s) + 1
  BY <1>6, <1>7, <1>9, <1>10, <1>11
<1>13. b[i] \in 1..m[i] /\ b[i + 1] \in m[i] + 1..m[i + 1]
  BY <1>6, <1>7, <1>8, <1>9
<1> QED
  BY <1>1, <1>8, <1>11, <1>12, <1>13

\* The numbers of a piece.
LEMMA PieceBounds ==
  ASSUME NEW s, NEW Q, NEW out \in Seq(Q), NEW n, NEW m, NEW C, NEW off, Placed(s, out, n, m, C, off), NEW i \in 1..n
  PROVE  off[i - 1] \in Nat /\ off[i] \in Nat /\ off[i - 1] < off[i] /\ off[i] <= Len(out)
<1>1. /\ n \in Nat \ {0} /\ off \in [0..n -> Nat] /\ off[n] = Len(out)
      /\ \A j \in 1..n : off[j - 1] < off[j]
  BY DEF Placed
<1>2. off[i - 1] \in Nat /\ off[i] \in Nat /\ off[i - 1] < off[i]
  <2>1. i - 1 \in 0..n /\ i \in 0..n
    BY <1>1
  <2> QED
    BY <1>1, <2>1
<1>3. off[i] <= Len(out)
  <2>1. \A j, k \in 0..n : j < k => off[j] < off[k]
    BY <1>1, Ascending
  <2>2. n \in 0..n /\ i \in 0..n /\ (i < n \/ i = n) /\ off[n] \in Nat
    BY <1>1
  <2>3. off[i] <= off[n]
    BY <1>2, <2>1, <2>2
  <2> QED
    BY <1>1, <2>3
<1> QED
  BY <1>2, <1>3
\* The numbers of a copied piece.
LEMMA CopyBounds ==
  ASSUME NEW R, NEW s \in Seq(R), NEW Q, NEW out \in Seq(Q),
         NEW n, NEW b, NEW m, NEW first, NEW C, NEW off, Pieces(s, out, n, b, m, first, C, off), NEW i \in C
  PROVE  /\ n \in Nat \ {0} /\ i \in 1..n
         /\ m[i] \in 1..Len(s) /\ m[i + 1] \in m[i] + 1..Len(s) + 1
         /\ b[i] \in 1..m[i] /\ b[i + 1] \in m[i] + 1..m[i + 1]
         /\ off[i - 1] \in Nat /\ off[i] \in 1..Len(out)
         /\ off[i] = off[i - 1] + (m[i + 1] - m[i])
         /\ i = 1 => m[i] = 1 /\ off[i - 1] = 0
         /\ i = n => b[i + 1] = m[i + 1] /\ off[i] = Len(out)
<1>1. /\ n \in Nat \ {0} /\ i \in 1..n /\ Placed(s, out, n, m, C, off) /\ off[0] = 0 /\ off[n] = Len(out)
      /\ off[i] = off[i - 1] + (m[i + 1] - m[i])
  BY DEF Pieces, Placed
<1>2. Begun(s, n, b, first) /\ Marked(s, n, b, m)
  BY DEF Pieces
<1>3. off[i - 1] \in Nat /\ off[i] \in 1..Len(out)
  <2>1. off[i - 1] \in Nat /\ off[i] \in Nat /\ off[i - 1] < off[i] /\ off[i] <= Len(out)
    BY <1>1, PieceBounds
  <2>2. Len(out) \in Nat
    OBVIOUS
  <2> QED
    BY <2>1, <2>2
<1>4. (i = 1 => off[i - 1] = 0) /\ (i = n => off[i] = Len(out))
  BY <1>1
<1>5. /\ m[i] \in 1..Len(s) /\ m[i + 1] \in m[i] + 1..Len(s) + 1
      /\ b[i] \in 1..m[i] /\ b[i + 1] \in m[i] + 1..m[i + 1]
      /\ i = 1 => m[i] = 1
      /\ i = n => b[i + 1] = m[i + 1]
  BY <1>1, <1>2, MarkBounds
<1> QED
  BY <1>1, <1>3, <1>4, <1>5

\* What is before the rows of a copied piece is what was before them in s; only of the
\* first row of a later piece it may be something else.
LEMMA BeforeCopied ==
  ASSUME NEW R, NEW s \in Seq(R), NEW Q, NEW out \in Seq(Q),
         NEW n, NEW b, NEW m, NEW first, NEW C, NEW off, Pieces(s, out, n, b, m, first, C, off),
         NEW i \in C
  PROVE  \A k \in 0..m[i + 1] - m[i] :
           k # 0 \/ i = 1 => Before(out, off[i - 1] + 1 + k) = Before(s, m[i] + k)
<1> DEFINE a == off[i - 1] + 1
           p == m[i]
           len == m[i + 1] - m[i]
<1>1. /\ i \in 1..n /\ p \in 1..Len(s) /\ len \in Nat /\ len >= 1 /\ p + len <= Len(s) + 1
      /\ a \in 1..Len(out) /\ a + len <= Len(out) + 1
      /\ i = 1 => p = 1 /\ a = 1
  <2>1. /\ n \in Nat \ {0} /\ i \in 1..n
        /\ m[i] \in 1..Len(s) /\ m[i + 1] \in m[i] + 1..Len(s) + 1
        /\ off[i - 1] \in Nat /\ off[i] \in 1..Len(out)
        /\ off[i] = off[i - 1] + (m[i + 1] - m[i])
        /\ i = 1 => m[i] = 1 /\ off[i - 1] = 0
    BY CopyBounds
  <2>2. Len(s) \in Nat /\ Len(out) \in Nat
    OBVIOUS
  <2>3. m[i] \in Int /\ m[i + 1] \in Int
    BY <2>1, <2>2
  <2>4. len \in Nat /\ len >= 1 /\ p + len <= Len(s) + 1
    BY <2>1, <2>2, <2>3, SMTT(20)
  <2>5. off[i] > off[i - 1] /\ off[i] <= Len(out) /\ off[i - 1] \in Nat /\ off[i] \in Nat
    BY <2>1, <2>2, <2>3, <2>4, SMTT(20)
  <2>6. a \in 1..Len(out)
    BY <2>2, <2>5
  <2>7. a + len <= Len(out) + 1
    <3>1. off[i] = off[i - 1] + (m[i + 1] - m[i])
      BY <2>1
    <3> QED
      BY <2>2, <2>3, <2>5, <3>1
  <2> QED
    BY <2>1, <2>4, <2>6, <2>7
<1>2. \A k \in 0..len - 1 : out[a + k] = s[p + k]
  BY DEF Pieces, CopiesOf
<1>3. /\ Len(s) \in Nat /\ DOMAIN s = 1..Len(s)
      /\ Len(out) \in Nat /\ DOMAIN out = 1..Len(out)
  OBVIOUS
<1>4. i # 1 => s[p].text = "---"
  <2> SUFFICES ASSUME i # 1 PROVE s[p].text = "---"
    OBVIOUS
  <2>1. n \in Nat /\ Marked(s, n, b, m)
    BY DEF Pieces, Placed
  <2>2. i \in 2..n
    BY <1>1, <2>1
  <2> QED
    BY <2>1, <2>2 DEF Marked
<1> SUFFICES \A k \in 0..len : k # 0 \/ i = 1 => Before(out, a + k) = Before(s, p + k)
  OBVIOUS
<1> HIDE DEF a, p, len
<1>5. CASE i = 1
  <2>1. Before(out, a) = Before(s, p)
    BY <1>1, <1>5, BeforeIs
  <2>2. a \in 1..Len(out) + 1 /\ p \in 1..Len(s) + 1
    BY <1>1, <1>3
  <2>3. len \in Nat /\ p + len <= Len(s) + 1 /\ a + len <= Len(out) + 1
    BY <1>1
  <2>5. SameRows(s, p, out, a, len)
    BY <1>2 DEF SameRows
  <2>4. \A k \in 0..len : Before(out, a + k) = Before(s, p + k)
    BY <2>1, <2>2, <2>3, <2>5, CopyRun DEF SameBefore
  <2> QED
    BY <2>4
<1>6. CASE i # 1
  <2>1. p \in DOMAIN s /\ a \in DOMAIN out /\ 0 \in 0..len - 1
    BY <1>1, <1>3
  <2>2. out[a] = s[p] /\ s[p].text = "---"
    <3>1. out[a + 0] = s[p + 0]
      BY <1>2, <2>1
    <3> QED
      BY <1>1, <1>4, <1>6, <3>1
  <2>3. Before(out, a + 1) = Before(s, p + 1)
    <3>1. ~IsBlank(s[p]) /\ ~IsBlank(out[a])
      BY <2>2 DEF IsBlank
    <3> QED
      BY <2>1, <2>2, <3>1, BeforeIs
  <2>4. /\ a + 1 \in 1..Len(out) + 1 /\ p + 1 \in 1..Len(s) + 1 /\ len - 1 \in Nat
        /\ (p + 1) + (len - 1) <= Len(s) + 1 /\ (a + 1) + (len - 1) <= Len(out) + 1
    BY <1>1, <1>3
  <2>5. \A k \in 0..(len - 1) - 1 : out[(a + 1) + k] = s[(p + 1) + k]
    <3> SUFFICES ASSUME NEW k \in 0..(len - 1) - 1 PROVE out[(a + 1) + k] = s[(p + 1) + k]
      OBVIOUS
    <3>1. k + 1 \in 0..len - 1 /\ a + (k + 1) = (a + 1) + k /\ p + (k + 1) = (p + 1) + k
      BY <1>1, <1>3
    <3> QED
      BY <1>2, <3>1
  <2>6. \A k \in 0..len - 1 : Before(out, (a + 1) + k) = Before(s, (p + 1) + k)
    <3>1. SameRows(s, p + 1, out, a + 1, len - 1)
      BY <2>5 DEF SameRows
    <3> QED
      BY <2>3, <2>4, <3>1, CopyRun DEF SameBefore
  <2> SUFFICES ASSUME NEW k \in 0..len, k # 0 PROVE Before(out, a + k) = Before(s, p + k)
    BY <1>6
  <2>7. k - 1 \in 0..len - 1 /\ (a + 1) + (k - 1) = a + k /\ (p + 1) + (k - 1) = p + k
    BY <1>1, <1>3
  <2> QED
    BY <2>6, <2>7
<1> QED
  BY <1>5, <1>6

\* The rows of an encoded piece, and what is before them.
EncodedPiece(out, off, i) ==
  /\ off[i] \in 1..Len(out)
  /\ out[off[i]] = Encoded(i)
  /\ Before(out, off[i] + 1) = "a"
  /\ off[i] = off[i - 1] + 1 => i = 1 /\ off[i] = 1 /\ Before(out, 1) = ""
  /\ off[i] # off[i - 1] + 1 => \A p \in off[i - 1] + 2..off[i] : Before(out, p) = "---"

\* What is before the rows of an encoded piece.
LEMMA BeforeEncoded ==
  ASSUME NEW s, NEW Q, NEW out \in Seq(Q), NEW n, NEW m, NEW C, NEW off,
         Placed(s, out, n, m, C, off), EncodesOthers(out, n, C, off), NEW i \in (1..n) \ C
  PROVE  EncodedPiece(out, off, i)
<1>1. off[i - 1] \in Nat /\ off[i] \in Nat /\ off[i - 1] < off[i] /\ off[i] <= Len(out)
  BY PieceBounds
<1>2. /\ out[off[i]] = Encoded(i)
      /\ off[i] > off[i - 1] + 1 => out[off[i - 1] + 1].text = "---"
      /\ \A p \in off[i - 1] + 2..off[i] - 1 : out[p].text = ""
      /\ i # 1 => off[i] > off[i - 1] + 1
  BY DEF EncodesOthers
<1>3. Len(out) \in Nat /\ DOMAIN out = 1..Len(out)
  OBVIOUS
<1>4. off[i] \in 1..Len(out) /\ off[i] \in DOMAIN out
  BY <1>1, <1>3
<1>5. Before(out, off[i] + 1) = "a"
  <2>1. Encoded(i).text = "a"
    BY DEF Encoded
  <2>2. ~IsBlank(out[off[i]]) /\ out[off[i]].text = "a"
    BY <1>2, <2>1 DEF IsBlank
  <2> QED
    BY <1>4, <2>2, BeforeIs
<1>6. ASSUME off[i] = off[i - 1] + 1 PROVE i = 1 /\ off[i] = 1 /\ Before(out, 1) = ""
  <2>1. i = 1
    <3>1. ~(off[i] > off[i - 1] + 1)
      BY <1>1, <1>6
    <3> QED
      BY <1>2, <3>1
  <2>2. off[0] = 0 /\ i - 1 = 0
    BY <2>1 DEF Placed
  <2>3. off[i] = 1
    BY <1>6, <2>2
  <2> QED
    BY <2>1, <2>3, BeforeIs
<1>7. ASSUME off[i] # off[i - 1] + 1, NEW p \in off[i - 1] + 2..off[i] PROVE Before(out, p) = "---"
  <2> DEFINE x == off[i - 1] + 1
  <2>1. x \in DOMAIN out /\ out[x].text = "---"
    <3>1. off[i] > off[i - 1] + 1 /\ x \in DOMAIN out
      BY <1>1, <1>3, <1>7
    <3> QED
      BY <1>2, <3>1
  <2>2. x + 1 \in 1..Len(out) + 1 /\ p \in x + 1..Len(out) + 1 /\ p <= off[i] /\ p \in Int /\ x \in Nat /\ x + 1 = off[i - 1] + 2
    BY <1>1, <1>3, SMTT(20)
  <2> HIDE DEF x
  <2>3. Before(out, x + 1) = "---"
    <3>1. ~IsBlank(out[x])
      BY <2>1 DEF IsBlank
    <3> QED
      BY <2>1, <3>1, BeforeIs
  <2>4. ASSUME NEW r \in x + 1..p - 1 PROVE IsBlank(out[r])
    <3>1. r \in off[i - 1] + 2..off[i] - 1
      BY <1>1, <2>2
    <3> QED
      BY <1>2, <3>1 DEF IsBlank
  <2>5. Before(out, p) = Before(out, x + 1)
    BY <2>2, <2>4, BlankRun
  <2> QED
    BY <2>3, <2>5
<1> QED
  BY <1>2, <1>4, <1>5, <1>6, <1>7 DEF EncodedPiece

\* Each piece but the first starts with a marker, and what is before it.
LEMMA BeforePiece ==
  ASSUME NEW R, NEW s \in Seq(R), NEW Q, NEW out \in Seq(Q),
         NEW n, NEW b, NEW m, NEW first, NEW C, NEW off, Pieces(s, out, n, b, m, first, C, off),
         NEW i \in 2..n
  PROVE  /\ out[off[i - 1] + 1].text = "---"
         /\ i - 1 \in C => Before(out, off[i - 1] + 1) = Before(s, m[i])
         /\ i - 1 \notin C => Before(out, off[i - 1] + 1) = "a"
<1>1. /\ n \in Nat /\ Placed(s, out, n, m, C, off) /\ EncodesOthers(out, n, C, off)
      /\ CopiesOf(s, out, m, C, off)
  BY DEF Pieces, Placed
<1>2. i \in 1..n /\ i - 1 \in 1..n /\ (i - 1) + 1 = i /\ i # 1
  BY <1>1
<1>3. out[off[i - 1] + 1].text = "---"
  <2>1. CASE i \in C
    <3>1. Marked(s, n, b, m)
      BY <2>1 DEF Pieces
    <3>2. s[m[i]].text = "---"
      BY <3>1 DEF Marked
    <3>3. off[i - 1] \in Nat /\ m[i] \in Nat /\ 0 \in 0..m[i + 1] - m[i] - 1
      <4>1. off[i - 1] \in Nat /\ m[i] \in 1..Len(s) /\ m[i + 1] \in m[i] + 1..Len(s) + 1 /\ Len(s) \in Nat
        BY <2>1, CopyBounds
      <4> QED
        BY <4>1
    <3>4. out[off[i - 1] + 1 + 0] = s[m[i] + 0]
      BY <1>1, <2>1, <3>3 DEF CopiesOf
    <3>5. off[i - 1] + 1 + 0 = off[i - 1] + 1 /\ m[i] + 0 = m[i]
      BY <3>3
    <3> QED
      BY <3>2, <3>4, <3>5
  <2>2. CASE i \notin C
    BY <1>1, <1>2, <2>2 DEF EncodesOthers
  <2> QED
    BY <2>1, <2>2
<1>4. ASSUME i - 1 \in C PROVE Before(out, off[i - 1] + 1) = Before(s, m[i])
  <2> DEFINE j == i - 1
             len == m[j + 1] - m[j]
  <2>1. /\ m[j] \in 1..Len(s) /\ m[j + 1] \in m[j] + 1..Len(s) + 1 /\ off[j - 1] \in Nat
        /\ off[j] = off[j - 1] + (m[j + 1] - m[j]) /\ Len(s) \in Nat
    BY <1>4, CopyBounds
  <2>5. m[j] \in Int /\ m[j + 1] \in Int /\ off[j] \in Int
    BY <2>1
  <2>2. len \in 0..len /\ len # 0 /\ m[j] + len = m[j + 1] /\ off[j - 1] + 1 + len = off[j] + 1
    <3>1. m[j + 1] > m[j]
      BY <2>1, <2>5
    <3>2. len \in 0..len /\ len # 0 /\ m[j] + len = m[j + 1]
      BY <2>5, <3>1
    <3>3. off[j - 1] + 1 + len = off[j] + 1
      <4>1. off[j] = off[j - 1] + (m[j + 1] - m[j]) /\ off[j - 1] \in Nat
        BY <2>1
      <4> QED
        BY <2>5, <4>1, SMTT(20)
    <3> QED
      BY <3>2, <3>3
  <2>3. Before(out, off[j - 1] + 1 + len) = Before(s, m[j] + len)
    BY <1>4, <2>2, BeforeCopied, SMTT(20)
  <2>4. Before(out, off[j] + 1) = Before(s, m[j + 1])
    BY <2>2, <2>3
  <2> QED
    BY <1>2, <2>4
<1>5. ASSUME i - 1 \notin C PROVE Before(out, off[i - 1] + 1) = "a"
  <2> DEFINE j == i - 1
  <2>1. j \in (1..n) \ C
    BY <1>2, <1>5
  <2> HIDE DEF j
  <2>2. Before(out, off[j] + 1) = "a"
    <3>1. EncodedPiece(out, off, j)
      BY <1>1, <2>1, BeforeEncoded
    <3> QED
      BY <3>1 DEF EncodedPiece
  <2> QED
    BY <2>2 DEF j
<1> QED
  BY <1>3, <1>4, <1>5

\* The rows of the i-th piece: copied rows, the marker, the encoded document, blanks
\* behind the marker, and the marker of a first document that is encoded.
RowOf(s, out, m, C, off, i, x) ==
  \/ /\ i \in C
     /\ \E p \in m[i]..m[i + 1] - 1 :
          /\ x = off[i - 1] + 1 + (p - m[i])
          /\ p # m[i] \/ i = 1
          /\ out[x] = s[p]
          /\ Before(out, x) = Before(s, p)
  \/ /\ i # 1
     /\ x = off[i - 1] + 1
     /\ out[x].text = "---"
  \/ /\ i \notin C
     /\ x = off[i]
     /\ out[x] = Encoded(i)
     /\ \/ x # off[i - 1] + 1 /\ Before(out, x) = "---"
        \/ i = 1 /\ x = 1 /\ Before(out, x) = ""
  \/ /\ i \notin C
     /\ x # off[i]
     /\ x # off[i - 1] + 1
     /\ out[x].text = ""
  \/ /\ i \notin C
     /\ x # off[i]
     /\ i = 1 /\ x = 1
     /\ out[x].text = "---"
     /\ Before(out, x) = ""

\* Every row of a piece is of one of these kinds.
LEMMA RowIs ==
  ASSUME NEW R, NEW s \in Seq(R), NEW Q, NEW out \in Seq(Q),
         NEW n, NEW b, NEW m, NEW first, NEW C, NEW off, Pieces(s, out, n, b, m, first, C, off),
         NEW i \in 1..n, NEW x \in off[i - 1] + 1..off[i]
  PROVE  RowOf(s, out, m, C, off, i, x)
<1>1. /\ n \in Nat \ {0} /\ Placed(s, out, n, m, C, off) /\ EncodesOthers(out, n, C, off)
      /\ CopiesOf(s, out, m, C, off) /\ off[0] = 0
  BY DEF Pieces, Placed
<1>2. off[i - 1] \in Nat /\ off[i] \in Nat /\ off[i - 1] < off[i] /\ off[i] <= Len(out) /\ Len(out) \in Nat
  BY <1>1, PieceBounds
<1>3. CASE i \in C /\ (x # off[i - 1] + 1 \/ i = 1)
  <2> DEFINE k == x - (off[i - 1] + 1)
             p == m[i] + k
  <2>1. m[i] \in 1..Len(s) /\ m[i + 1] \in m[i] + 1..Len(s) + 1 /\ Len(s) \in Nat
    BY <1>3, CopyBounds
  <2>2. off[i] = off[i - 1] + (m[i + 1] - m[i])
    BY <1>3, CopyBounds
  <2>3. m[i] \in Nat /\ m[i + 1] \in Nat /\ m[i] < m[i + 1]
    BY <2>1
  <2>4. k \in 0..m[i + 1] - m[i] - 1 /\ k \in 0..m[i + 1] - m[i] /\ (k # 0 \/ i = 1)
    <3>1. x \in Int /\ x >= off[i - 1] + 1 /\ x <= off[i]
      BY <1>2
    <3>2. k \in Nat /\ (k # 0 \/ i = 1)
      BY <1>2, <1>3, <3>1
    <3>3. k <= off[i] - off[i - 1] - 1
      BY <1>2, <3>1
    <3>4. off[i] - off[i - 1] = m[i + 1] - m[i]
      BY <1>2, <2>2, <2>3
    <3> QED
      BY <1>2, <2>3, <3>2, <3>3, <3>4
  <2>5. off[i - 1] + 1 + k = x /\ p - m[i] = k
    BY <1>2, <2>3, <2>4, SMTT(20)
  <2>6. out[off[i - 1] + 1 + k] = s[m[i] + k]
    BY <1>1, <1>3, <2>4 DEF CopiesOf
  <2>7. Before(out, off[i - 1] + 1 + k) = Before(s, m[i] + k)
    BY <1>3, <2>4, BeforeCopied
  <2>8. p \in m[i]..m[i + 1] - 1 /\ (p # m[i] \/ i = 1)
    BY <2>3, <2>4, SMTT(20)
  <2>9. x = off[i - 1] + 1 + (p - m[i]) /\ out[x] = s[p] /\ Before(out, x) = Before(s, p)
    BY <2>5, <2>6, <2>7
  <2> HIDE DEF p
  <2> QED
    BY <1>3, <2>8, <2>9 DEF RowOf
<1>4. CASE x = off[i - 1] + 1 /\ i # 1
  <2>1. i \in 2..n
    BY <1>1, <1>4
  <2>2. out[off[i - 1] + 1].text = "---"
    BY <2>1, BeforePiece
  <2> QED
    BY <1>4, <2>2 DEF RowOf
<1>5. CASE i \notin C
  <2>1. EncodedPiece(out, off, i)
    <3>1. i \in (1..n) \ C
      BY <1>5
    <3> QED
      BY <1>1, <3>1, BeforeEncoded
  <2>2. /\ off[i] > off[i - 1] + 1 => out[off[i - 1] + 1].text = "---"
        /\ \A p \in off[i - 1] + 2..off[i] - 1 : out[p].text = ""
    BY <1>1, <1>5 DEF EncodesOthers
  <2>3. CASE x = off[i] /\ x = off[i - 1] + 1
    <3>1. out[x] = Encoded(i) /\ i = 1 /\ x = 1 /\ Before(out, 1) = ""
      BY <2>1, <2>3 DEF EncodedPiece
    <3> QED
      BY <1>5, <2>3, <3>1 DEF RowOf
  <2>4. CASE x = off[i] /\ x # off[i - 1] + 1
    <3>1. out[x] = Encoded(i) /\ \A p \in off[i - 1] + 2..off[i] : Before(out, p) = "---"
      BY <2>1, <2>4 DEF EncodedPiece
    <3>2. x \in off[i - 1] + 2..off[i]
      BY <1>2, <2>4
    <3>3. Before(out, x) = "---"
      BY <3>1, <3>2
    <3> QED
      BY <1>5, <2>4, <3>1, <3>3 DEF RowOf
  <2>5. CASE x # off[i] /\ x # off[i - 1] + 1
    <3>1. x \in off[i - 1] + 2..off[i] - 1
      BY <1>2, <2>5
    <3> QED
      BY <1>5, <2>2, <2>5, <3>1 DEF RowOf
  <2>6. CASE x # off[i] /\ x = off[i - 1] + 1 /\ i = 1
    <3>1. off[i] > off[i - 1] + 1 /\ x = 1
      BY <1>1, <1>2, <2>6
    <3>2. out[x].text = "---" /\ Before(out, x) = ""
      BY <2>2, <2>6, <3>1, BeforeIs
    <3> QED
      BY <1>5, <2>6, <3>1, <3>2 DEF RowOf
  <2> QED
    BY <1>4, <2>3, <2>4, <2>5, <2>6
<1> QED
  BY <1>3, <1>4, <1>5

\* A row that is read alike begins a document alike.
LEMMA SameBegins ==
  ASSUME NEW s, NEW out, NEW p, NEW x, out[x] = s[p], Before(out, x) = Before(s, p)
  PROVE  Begins(out, x) <=> Begins(s, p)
  BY DEF Begins

\* Where the i-th document of what is written begins.
Start(b, m, C, off, i) == off[i - 1] + 1 - (IF i - 1 \in C THEN m[i] - b[i] ELSE 0)
StartOf(n, b, m, first, C, off) ==
  [i \in 1..n |-> IF i = 1 THEN (IF 1 \in C THEN first ELSE 1) ELSE Start(b, m, C, off, i)]

\* The next one begins behind the first row of a piece: at its end, or as in s.
StartBetween(b, m, C, off, i) ==
  /\ Start(b, m, C, off, i + 1) \in off[i - 1] + 2..off[i] + 1
  /\ i \notin C => Start(b, m, C, off, i + 1) = off[i] + 1
  /\ i \in C => Start(b, m, C, off, i + 1) = off[i - 1] + 1 + (b[i + 1] - m[i])
  /\ i \in C => Start(b, m, C, off, i + 1) = off[i] + 1 - (m[i + 1] - b[i + 1])

LEMMA StartBounds ==
  ASSUME NEW R, NEW s \in Seq(R), NEW Q, NEW out \in Seq(Q),
         NEW n, NEW b, NEW m, NEW first, NEW C, NEW off, Pieces(s, out, n, b, m, first, C, off),
         NEW i \in 1..n - 1
  PROVE  StartBetween(b, m, C, off, i)
<1>1. n \in Nat \ {0} /\ Placed(s, out, n, m, C, off)
  BY DEF Pieces, Placed
<1>2. i \in 1..n /\ (i + 1) - 1 = i
  BY <1>1
<1>3. off[i - 1] \in Nat /\ off[i] \in Nat /\ off[i - 1] < off[i]
  BY <1>1, <1>2, PieceBounds
<1>4. CASE i \notin C
  <2>1. Start(b, m, C, off, i + 1) = off[i] + 1
    BY <1>2, <1>3, <1>4 DEF Start
  <2> QED
    BY <1>3, <1>4, <2>1, SMTT(20) DEF StartBetween
<1>5. CASE i \in C
  <2>1. /\ m[i] \in 1..Len(s) /\ m[i + 1] \in m[i] + 1..Len(s) + 1
        /\ b[i + 1] \in m[i] + 1..m[i + 1] /\ Len(s) \in Nat
    BY <1>5, CopyBounds
  <2>2. off[i] = off[i - 1] + (m[i + 1] - m[i])
    BY <1>5, CopyBounds
  <2>3. m[i] \in Nat /\ m[i + 1] \in Nat /\ b[i + 1] \in Nat
    BY <2>1
  <2>4. m[i] < b[i + 1] /\ b[i + 1] <= m[i + 1]
    BY <2>1, <2>3
  <2>5. Start(b, m, C, off, i + 1) = off[i] + 1 - (m[i + 1] - b[i + 1])
    BY <1>2, <1>5 DEF Start
  <2> DEFINE x == Start(b, m, C, off, i + 1)
  <2>6. x = off[i - 1] + 1 + (b[i + 1] - m[i])
    <3>1. off[i] + 1 - (m[i + 1] - b[i + 1]) = off[i - 1] + 1 + (b[i + 1] - m[i])
      BY <1>3, <2>2, <2>3, SMTT(20)
    <3> QED
      BY <2>5, <3>1
  <2>7. x \in off[i - 1] + 2..off[i] + 1
    <3>1. b[i + 1] - m[i] >= 1 /\ b[i + 1] - m[i] \in Int /\ m[i + 1] - b[i + 1] >= 0 /\ m[i + 1] - b[i + 1] \in Int
      BY <2>3, <2>4
    <3>2. x = off[i] + 1 - (m[i + 1] - b[i + 1])
      BY <2>5
    <3>3. x \in Int
      BY <1>3, <2>6, <3>1
    <3>4. x >= off[i - 1] + 2
      BY <1>3, <2>6, <3>1
    <3>5. x <= off[i] + 1
      BY <1>3, <3>1, <3>2
    <3> HIDE DEF x
    <3> QED
      BY <1>3, <3>3, <3>4, <3>5
  <2> QED
    BY <1>5, <2>5, <2>6, <2>7 DEF StartBetween
<1> QED
  BY <1>4, <1>5

\* The beginnings are rows of what is written, one behind the other.
LEMMA StartsAre ==
  ASSUME NEW R, NEW s \in Seq(R), NEW Q, NEW out \in Seq(Q),
         NEW n, NEW b, NEW m, NEW first, NEW C, NEW off, Pieces(s, out, n, b, m, first, C, off)
  PROVE  /\ StartOf(n, b, m, first, C, off) \in [1..n -> Nat]
         /\ \A i \in 1..n : StartOf(n, b, m, first, C, off)[i] \in 1..Len(out)
         /\ \A i \in 1..n - 1 : StartOf(n, b, m, first, C, off)[i] < StartOf(n, b, m, first, C, off)[i + 1]
         /\ \A i \in 1..n - 1 : StartOf(n, b, m, first, C, off)[i + 1] = Start(b, m, C, off, i + 1)
<1> DEFINE f == StartOf(n, b, m, first, C, off)
<1>1. n \in Nat \ {0} /\ Placed(s, out, n, m, C, off) /\ off[0] = 0 /\ Len(out) \in Nat
  BY DEF Pieces, Placed
<1>2. f[1] = IF 1 \in C THEN first ELSE 1
  <2>1. 1 \in 1..n
    BY <1>1
  <2> QED
    BY <2>1 DEF StartOf
<1>3. \A i \in 1..n - 1 : f[i + 1] = Start(b, m, C, off, i + 1)
  <2>1. \A i \in 1..n - 1 : i + 1 \in 1..n /\ i + 1 # 1
    BY <1>1
  <2> QED
    BY <2>1 DEF StartOf
<1>4. f = [i \in 1..n |-> f[i]]
  BY DEF StartOf
<1> HIDE DEF f
<1>5. 1 \in C => first \in 1..b[2] - 1 /\ b[2] \in 2..m[2] /\ off[1] = m[2] - 1 /\ m[2] \in Nat /\ off[1] \in 1..Len(out)
  <2> SUFFICES ASSUME 1 \in C PROVE first \in 1..b[2] - 1 /\ b[2] \in 2..m[2] /\ off[1] = m[2] - 1 /\ m[2] \in Nat /\ off[1] \in 1..Len(out)
    OBVIOUS
  <2>1. /\ m[1] \in 1..Len(s) /\ m[1 + 1] \in m[1] + 1..Len(s) + 1 /\ Len(s) \in Nat
        /\ b[1 + 1] \in m[1] + 1..m[1 + 1]
        /\ m[1] = 1
    BY CopyBounds
  <2>2. off[1] = off[1 - 1] + (m[1 + 1] - m[1]) /\ off[1] \in 1..Len(out)
    BY CopyBounds
  <2>3. 1 + 1 = 2 /\ 1 - 1 = 0
    OBVIOUS
  <2>4. first \in 1..b[2] - 1
    BY DEF Pieces, Begun
  <2>5. m[2] \in Nat /\ b[2] \in 2..m[2]
    BY <2>1, <2>3
  <2>6. off[1] = m[2] - 1
    BY <1>1, <2>1, <2>2, <2>3, <2>5
  <2> QED
    BY <2>2, <2>4, <2>5, <2>6
<1>6. f[1] \in 1..off[1] /\ off[1] \in Nat /\ off[1] <= Len(out)
  <2>1. off[1] \in Nat /\ off[1] <= Len(out) /\ off[1 - 1] < off[1] /\ 1 - 1 = 0
    <3>1. 1 \in 1..n
      BY <1>1
    <3>2. off[1] \in Nat /\ off[1 - 1] < off[1] /\ off[1] <= Len(out)
      BY <1>1, <3>1, PieceBounds
    <3> QED
      BY <3>2
  <2>2. CASE 1 \notin C
    BY <1>1, <1>2, <2>1, <2>2
  <2>3. CASE 1 \in C
    <3>1. first \in Int /\ first >= 1 /\ first <= b[2] - 1 /\ b[2] \in Int /\ b[2] <= m[2] /\ m[2] \in Int
      BY <1>5, <2>3
    <3>2. first <= off[1]
      BY <1>5, <2>3, <3>1
    <3> QED
      BY <1>2, <2>1, <2>3, <3>1, <3>2
  <2> QED
    BY <2>1, <2>2, <2>3
<1>7. ASSUME NEW i \in 1..n - 1
      PROVE  /\ f[i + 1] \in off[i - 1] + 2..off[i] + 1 /\ f[i + 1] \in 1..Len(out)
             /\ off[i - 1] \in Nat /\ off[i] \in Nat
  <2>1. f[i + 1] \in off[i - 1] + 2..off[i] + 1
    BY <1>3, StartBounds DEF StartBetween
  <2>2. i \in 1..n /\ i + 1 \in 1..n /\ (i + 1) - 1 = i
    BY <1>1
  <2>3. off[i - 1] \in Nat /\ off[i] \in Nat
    BY <1>1, <2>2, PieceBounds
  <2>4. off[i] < off[i + 1] /\ off[i + 1] \in Nat /\ off[i + 1] <= Len(out)
    <3>1. off[(i + 1) - 1] < off[i + 1] /\ off[i + 1] \in Nat /\ off[i + 1] <= Len(out)
      BY <1>1, <2>2, PieceBounds
    <3> QED
      BY <2>2, <3>1
  <2>5. f[i + 1] \in Int /\ f[i + 1] >= off[i - 1] + 2 /\ f[i + 1] <= off[i] + 1
    BY <2>1, <2>3
  <2>6. f[i + 1] \in 1..Len(out)
    BY <1>1, <2>3, <2>4, <2>5, SMTT(20)
  <2> QED
    BY <2>1, <2>3, <2>6
<1>8. ASSUME NEW i \in 1..n - 1 PROVE f[i] < f[i + 1]
  <2>1. CASE i = 1
    <3>1. f[2] = Start(b, m, C, off, 2) /\ 1 \in 1..n - 1 /\ 1 + 1 = 2
      BY <1>3, <2>1
    <3>2. CASE 1 \notin C
      <4>1. f[1 + 1] \in off[1 - 1] + 2..off[1] + 1 /\ 1 - 1 = 0
        BY <1>7, <3>1
      <4>2. f[2] >= 2 /\ f[2] \in Int
        BY <1>1, <1>6, <3>1, <4>1
      <4> QED
        BY <1>2, <2>1, <3>2, <4>2
    <3>3. CASE 1 \in C
      <4>1. f[2] = off[1] + 1 - (m[2] - b[2])
        <5>1. StartBetween(b, m, C, off, 1)
          BY <3>1, StartBounds
        <5> QED
          BY <3>1, <3>3, <5>1 DEF StartBetween
      <4>2. b[2] \in Int
        BY <1>5, <3>3
      <4>3. f[2] = b[2]
        BY <1>5, <3>3, <4>1, <4>2
      <4>4. first < b[2]
        BY <1>5, <3>3, <4>2
      <4> QED
        BY <1>2, <2>1, <3>3, <4>3, <4>4
    <3> QED
      BY <3>2, <3>3
  <2>2. CASE i # 1
    <3> DEFINE j == i - 1
    <3>1. j \in 1..n - 1 /\ j + 1 = i
      BY <1>1, <2>2
    <3>2. f[j + 1] \in off[j - 1] + 2..off[j] + 1 /\ off[j - 1] \in Nat /\ off[j] \in Nat
      BY <1>7, <3>1
    <3>3. f[i + 1] \in off[i - 1] + 2..off[i] + 1 /\ off[i] \in Nat
      BY <1>7
    <3>4. f[i] <= off[j] + 1 /\ f[i] \in Int
      BY <3>1, <3>2
    <3>5. f[i + 1] >= off[j] + 2 /\ f[i + 1] \in Int
      BY <3>2, <3>3
    <3> QED
      BY <3>2, <3>4, <3>5, SMTT(20)
  <2> QED
    BY <2>1, <2>2
<1>9. ASSUME NEW i \in 1..n PROVE f[i] \in 1..Len(out)
  <2>1. CASE i = 1
    BY <1>1, <1>6, <2>1
  <2>2. CASE i # 1
    <3>1. i - 1 \in 1..n - 1 /\ (i - 1) + 1 = i
      BY <1>1, <2>2
    <3>2. f[(i - 1) + 1] \in 1..Len(out)
      BY <1>7, <3>1
    <3> QED
      BY <3>1, <3>2
  <2> QED
    BY <2>1, <2>2
<1>10. f \in [1..n -> Nat]
  <2>1. \A i \in 1..n : f[i] \in Nat
    BY <1>1, <1>9
  <2> QED
    BY <1>4, <2>1
<1> QED
  BY <1>3, <1>8, <1>9, <1>10 DEF f

\* A document begins at each of them,
LEMMA StartBegins ==
  ASSUME NEW R, NEW s \in Seq(R), NEW Q, NEW out \in Seq(Q),
         NEW n, NEW b, NEW m, NEW first, NEW C, NEW off, Pieces(s, out, n, b, m, first, C, off),
         NEW i \in 1..n
  PROVE  Begins(out, StartOf(n, b, m, first, C, off)[i])
<1> DEFINE f == StartOf(n, b, m, first, C, off)
<1>1. /\ n \in Nat \ {0} /\ Placed(s, out, n, m, C, off) /\ EncodesOthers(out, n, C, off)
      /\ CopiesOf(s, out, m, C, off) /\ off[0] = 0
  BY DEF Pieces, Placed
<1>2. C # {} => Begun(s, n, b, first) /\ Marked(s, n, b, m)
  BY DEF Pieces
<1>3. f[1] = IF 1 \in C THEN first ELSE 1
  <2>1. 1 \in 1..n
    BY <1>1
  <2> QED
    BY <2>1 DEF StartOf
<1>4. \A j \in 1..n - 1 : f[j + 1] = Start(b, m, C, off, j + 1)
  BY StartsAre
<1> HIDE DEF f
<1>5. CASE i = 1 /\ 1 \in C
  <2>1. /\ m[1] \in 1..Len(s) /\ m[1 + 1] \in m[1] + 1..Len(s) + 1 /\ Len(s) \in Nat
        /\ b[1 + 1] \in m[1] + 1..m[1 + 1]
        /\ m[1] = 1 /\ off[1 - 1] = 0
    BY <1>5, CopyBounds
  <2>2. Begun(s, n, b, first)
    BY <1>2, <1>5
  <2>3. first \in 1..b[2] - 1 /\ Begins(s, first)
    BY <2>2 DEF Begun
  <2> DEFINE k == first - 1
  <2>4. k \in 0..m[1 + 1] - m[1] - 1 /\ k \in 0..m[1 + 1] - m[1] /\ off[1 - 1] + 1 + k = first /\ m[1] + k = first
    <3>1. 1 + 1 = 2 /\ b[2] \in Int /\ m[2] \in Int /\ b[2] <= m[2]
      BY <2>1
    <3>2. first \in Int /\ first >= 1 /\ first <= b[2] - 1
      BY <2>3, <3>1
    <3> QED
      BY <2>1, <3>1, <3>2
  <2>5. out[off[1 - 1] + 1 + k] = s[m[1] + k]
    BY <1>1, <1>5, <2>4 DEF CopiesOf
  <2>6. Before(out, off[1 - 1] + 1 + k) = Before(s, m[1] + k)
    BY <1>5, <2>4, BeforeCopied
  <2>7. out[first] = s[first] /\ Before(out, first) = Before(s, first)
    BY <2>4, <2>5, <2>6
  <2>8. Begins(out, first)
    BY <2>3, <2>7, SameBegins
  <2> QED
    BY <1>3, <1>5, <2>8 DEF f
<1>6. CASE i = 1 /\ 1 \notin C
  <2>1. 1 \in (1..n) \ C /\ 1 - 1 = 0
    BY <1>1, <1>6
  <2>2. EncodedPiece(out, off, 1)
    BY <1>1, <2>1, BeforeEncoded
  <2>3. Before(out, 1) = ""
    BY BeforeIs
  <2>4. off[0] < off[1] /\ off[1] \in Nat
    <3>1. off[1 - 1] < off[1] /\ off[1] \in Nat
      BY <1>1, <2>1, PieceBounds
    <3> QED
      BY <2>1, <3>1
  <2>5. CASE off[1] = 1
    <3>1. out[1] = Encoded(1)
      BY <2>2, <2>5 DEF EncodedPiece
    <3>2. out[1].text = "a"
      BY <3>1 DEF Encoded
    <3> QED
      BY <1>3, <1>6, <2>3, <3>2 DEF f, Begins
  <2>6. CASE off[1] # 1
    <3>1. off[1] > off[1 - 1] + 1 /\ off[1 - 1] + 1 = 1
      BY <1>1, <2>1, <2>4, <2>6
    <3>2. out[off[1 - 1] + 1].text = "---"
      BY <1>1, <2>1, <3>1 DEF EncodesOthers
    <3>3. out[1].text = "---"
      BY <3>1, <3>2
    <3> QED
      BY <1>3, <1>6, <2>3, <3>3 DEF f, Begins
  <2> QED
    BY <2>5, <2>6
<1>7. CASE i # 1
  <2> DEFINE j == i - 1
             x == off[j] + 1
  <2>1. j \in 1..n - 1 /\ j \in 1..n /\ j + 1 = i /\ i \in 2..n
    BY <1>1, <1>7
  <2>2. StartBetween(b, m, C, off, j) /\ f[i] = Start(b, m, C, off, i)
    <3> HIDE DEF j
    <3>1. StartBetween(b, m, C, off, j)
      BY <2>1, StartBounds
    <3>2. f[j + 1] = Start(b, m, C, off, j + 1)
      BY <1>4, <2>1
    <3> QED
      BY <2>1, <3>1, <3>2
  <2>3. /\ out[x].text = "---"
        /\ j \in C => Before(out, x) = Before(s, m[i])
        /\ j \notin C => Before(out, x) = "a"
    BY <2>1, BeforePiece
  <2> HIDE DEF j
  <2>4. CASE j \notin C
    <3>1. f[i] = x
      BY <2>1, <2>2, <2>4 DEF StartBetween
    <3>2. Begins(out, x)
      BY <2>3, <2>4 DEF Begins
    <3> QED
      BY <3>1, <3>2 DEF f
  <2>5. CASE j \in C
    <3>1. Begun(s, n, b, first) /\ Marked(s, n, b, m)
      BY <1>2, <2>5
    <3>2. Begins(s, b[i])
      BY <2>1, <3>1 DEF Begun
    <3>3. /\ f[i] = off[j - 1] + 1 + (b[i] - m[j])
          /\ f[i] = off[j] + 1 - (m[i] - b[i])
      BY <2>1, <2>2, <2>5 DEF StartBetween
    <3>4. m[j] \in 1..Len(s) /\ m[i] \in m[j] + 1..Len(s) + 1 /\ b[i] \in m[j] + 1..m[i] /\ Len(s) \in Nat
      <4>1. m[j] \in 1..Len(s) /\ m[j + 1] \in m[j] + 1..Len(s) + 1 /\ b[j + 1] \in m[j] + 1..m[j + 1]
        BY <2>5, CopyBounds
      <4> QED
        BY <2>1, <4>1
    <3>5. m[j] \in Nat /\ m[i] \in Nat /\ b[i] \in Nat /\ m[j] < b[i] /\ b[i] <= m[i]
      BY <3>4
    <3>6. off[j - 1] \in Nat /\ off[j] \in Nat
      BY <1>1, <2>1, PieceBounds
    <3>7. CASE b[i] = m[i]
      <4>1. f[i] = x
        BY <3>3, <3>5, <3>6, <3>7
      <4>2. s[m[i]].text = "---"
        BY <2>1, <3>1 DEF Marked
      <4>3. Before(s, m[i]) # "%"
        BY <3>2, <3>7, <4>2 DEF Begins
      <4>4. Begins(out, x)
        BY <2>3, <2>5, <4>3 DEF Begins
      <4> QED
        BY <4>1, <4>4 DEF f
    <3>8. CASE b[i] # m[i]
      <4> DEFINE k == b[i] - m[j]
      <4>1. k \in 0..m[j + 1] - m[j] - 1 /\ k \in 0..m[j + 1] - m[j] /\ k # 0 /\ m[j] + k = b[i]
        <5>1. b[i] < m[i] /\ m[j + 1] = m[i]
          BY <2>1, <3>5, <3>8
        <5> QED
          BY <3>5, <5>1
      <4>2. off[j - 1] + 1 + k = f[i]
        BY <3>3
      <4> HIDE DEF k
      <4>3. out[off[j - 1] + 1 + k] = s[m[j] + k]
        BY <1>1, <2>5, <4>1 DEF CopiesOf
      <4>4. Before(out, off[j - 1] + 1 + k) = Before(s, m[j] + k)
        BY <2>5, <4>1, BeforeCopied
      <4>5. out[f[i]] = s[b[i]] /\ Before(out, f[i]) = Before(s, b[i])
        BY <4>1, <4>2, <4>3, <4>4
      <4> QED
        BY <3>2, <4>5, SameBegins DEF f
    <3> QED
      BY <3>7, <3>8
  <2> QED
    BY <2>4, <2>5
<1> QED
  BY <1>5, <1>6, <1>7

\* and nowhere else.
LEMMA OnlyStarts ==
  ASSUME NEW R, NEW s \in Seq(R), NEW Q, NEW out \in Seq(Q),
         NEW n, NEW b, NEW m, NEW first, NEW C, NEW off, Pieces(s, out, n, b, m, first, C, off),
         NEW x \in DOMAIN out, Begins(out, x)
  PROVE  \E i \in 1..n : x = StartOf(n, b, m, first, C, off)[i]
<1> DEFINE f == StartOf(n, b, m, first, C, off)
<1>1. /\ n \in Nat \ {0} /\ Placed(s, out, n, m, C, off) /\ off[0] = 0
      /\ DOMAIN out = 1..Len(out)
  BY DEF Pieces, Placed
<1>2. C # {} => Begun(s, n, b, first) /\ Marked(s, n, b, m)
  BY DEF Pieces
<1>3. f[1] = IF 1 \in C THEN first ELSE 1
  <2>1. 1 \in 1..n
    BY <1>1
  <2> QED
    BY <2>1 DEF StartOf
<1>4. \A j \in 1..n - 1 : f[j + 1] = Start(b, m, C, off, j + 1)
  BY StartsAre
<1> HIDE DEF f
<1>5. PICK i \in 1..n : x \in off[i - 1] + 1..off[i]
  BY <1>1 DEF Placed
<1>6. RowOf(s, out, m, C, off, i, x)
  BY <1>5, RowIs
<1>7. 1 \in 1..n
  BY <1>1
<1>8. ASSUME i \in C, NEW p \in m[i]..m[i + 1] - 1, x = off[i - 1] + 1 + (p - m[i]), p # m[i] \/ i = 1,
             out[x] = s[p], Before(out, x) = Before(s, p)
      PROVE  \E j \in 1..n : x = f[j]
  <2>1. Begun(s, n, b, first) /\ Marked(s, n, b, m)
    BY <1>2, <1>8
  <2>2. Begins(s, p)
    BY <1>8, SameBegins
  <2>30. Len(s) \in Nat /\ DOMAIN s = 1..Len(s)
    OBVIOUS
  <2>3. /\ m[i] \in 1..Len(s) /\ m[i + 1] \in m[i] + 1..Len(s) + 1
        /\ b[i] \in 1..m[i] /\ b[i + 1] \in m[i] + 1..m[i + 1]
        /\ i = 1 => m[i] = 1 /\ off[i - 1] = 0
        /\ i = n => b[i + 1] = m[i + 1]
    <3>1. /\ m[i] \in 1..Len(s) /\ m[i + 1] \in m[i] + 1..Len(s) + 1
          /\ b[i] \in 1..m[i] /\ b[i + 1] \in m[i] + 1..m[i + 1]
          /\ i = 1 => m[i] = 1
          /\ i = n => b[i + 1] = m[i + 1]
      BY <2>1, MarkBounds
    <3>2. i = 1 => off[i - 1] = 0
      BY <1>1
    <3> QED
      BY <3>1, <3>2
  <2>4. /\ m[i] \in Nat /\ m[i + 1] \in Nat /\ b[i] \in Nat /\ b[i + 1] \in Nat
        /\ b[i] <= m[i] /\ m[i] < b[i + 1] /\ b[i + 1] <= m[i + 1] /\ m[i + 1] <= Len(s) + 1 /\ 1 <= m[i]
    <3>1. m[i] \in Nat /\ m[i + 1] \in Nat /\ 1 <= m[i] /\ m[i + 1] <= Len(s) + 1
      BY <2>3, <2>30, SMTT(20)
    <3>2. b[i] \in Nat /\ b[i + 1] \in Nat /\ b[i] <= m[i] /\ m[i] < b[i + 1] /\ b[i + 1] <= m[i + 1]
      BY <2>3, <3>1, SMTT(30)
    <3> QED
      BY <3>1, <3>2
  <2>5. p \in Nat /\ m[i] <= p /\ p < m[i + 1] /\ p \in DOMAIN s
    <3>1. p \in Nat /\ m[i] <= p /\ p < m[i + 1]
      BY <2>4
    <3>2. p \in 1..Len(s)
      BY <2>30, <2>4, <3>1
    <3> QED
      BY <2>30, <3>1, <3>2
  <2>6. CASE p < b[i + 1]
    <3>1. p \in b[i] + 1..b[i + 1] - 1 \/ (i = 1 /\ p \in 1..b[2] - 1)
      <4>1. CASE i = 1
        <5>1. b[2] = b[i + 1]
          BY <4>1
        <5> QED
          BY <2>4, <2>5, <2>6, <4>1, <5>1
      <4>2. CASE p # m[i]
        BY <2>4, <2>5, <2>6, <4>2, SMTT(20)
      <4> QED
        BY <1>8, <4>1, <4>2
    <3>2. i = 1 /\ p = first
      BY <2>1, <2>2, <2>5, <3>1, BeginsWithin
    <3>3. x = first
      BY <1>8, <2>3, <2>5, <3>2
    <3> QED
      BY <1>3, <1>7, <1>8, <3>2, <3>3
  <2>7. CASE ~(p < b[i + 1])
    <3>1. i # n /\ i \in 1..n - 1 /\ i + 1 \in 1..n /\ i + 1 # 1
      BY <1>1, <2>3, <2>4, <2>5, <2>7, SMTT(30)
    <3>2. p = b[i + 1]
      <4> SUFFICES ASSUME p # b[i + 1] PROVE FALSE
        OBVIOUS
      <4>1. m[i + 1] < b[(i + 1) + 1] /\ b[(i + 1) + 1] \in Nat
        <5>1. b[(i + 1) + 1] \in m[i + 1] + 1..m[(i + 1) + 1] /\ m[(i + 1) + 1] \in m[i + 1] + 1..Len(s) + 1
          BY <2>1, <3>1, MarkBounds
        <5>2. b[(i + 1) + 1] \in Nat /\ m[i + 1] < b[(i + 1) + 1]
          <6>1. m[(i + 1) + 1] \in Nat
            BY <2>4, <5>1, SMTT(20)
          <6> QED
            BY <2>4, <5>1, <6>1, SMTT(20)
        <5> QED
          BY <5>2
      <4>2. p \in b[i + 1] + 1..b[(i + 1) + 1] - 1
        BY <2>4, <2>5, <2>7, <4>1, SMTT(20)
      <4>3. p \in b[i + 1] + 1..b[(i + 1) + 1] - 1 \/ (i + 1 = 1 /\ p \in 1..b[2] - 1)
        BY <4>2
      <4>4. i + 1 = 1
        BY <2>1, <2>2, <2>5, <3>1, <4>3, BeginsWithin
      <4> QED
        BY <3>1, <4>4
    <3>3. StartBetween(b, m, C, off, i) /\ f[i + 1] = Start(b, m, C, off, i + 1)
      BY <1>4, <3>1, StartBounds
    <3>4. f[i + 1] = off[i - 1] + 1 + (b[i + 1] - m[i])
      BY <1>8, <3>3 DEF StartBetween
    <3>5. x = f[i + 1]
      BY <1>8, <3>2, <3>4
    <3> QED
      BY <3>1, <3>5
  <2> QED
    BY <2>6, <2>7
<1>9. ASSUME i # 1, x = off[i - 1] + 1, out[x].text = "---"
      PROVE  \E j \in 1..n : x = f[j]
  <2> DEFINE j == i - 1
  <2>1. j \in 1..n - 1 /\ j + 1 = i /\ i \in 2..n /\ j \in 1..n
    BY <1>1, <1>9
  <2>2. /\ j \in C => Before(out, x) = Before(s, m[i])
        /\ j \notin C => Before(out, x) = "a"
    BY <1>9, <2>1, BeforePiece
  <2>3. x = off[j] + 1
    BY <1>9
  <2> HIDE DEF j
  <2>4. StartBetween(b, m, C, off, j) /\ f[i] = Start(b, m, C, off, i)
    <3>1. f[j + 1] = Start(b, m, C, off, j + 1)
      BY <1>4, <2>1
    <3> QED
      BY <2>1, <3>1, StartBounds
  <2>5. CASE j \notin C
    <3>1. x = f[i]
      BY <2>1, <2>3, <2>4, <2>5 DEF StartBetween
    <3> QED
      BY <3>1
  <2>6. CASE j \in C
    <3>1. Begun(s, n, b, first) /\ Marked(s, n, b, m)
      BY <1>2, <2>6
    <3>2. s[m[i]].text = "---"
      BY <2>1, <3>1 DEF Marked
    <3>3. Before(s, m[i]) # "%"
      BY <1>9, <2>2, <2>6 DEF Begins
    <3>4. Begins(s, m[i])
      BY <3>2, <3>3 DEF Begins
    <3>5. /\ m[i] \in 1..Len(s) /\ Len(s) \in Nat /\ b[i] \in 1..m[i] /\ b[i + 1] \in m[i] + 1..m[i + 1]
          /\ m[i + 1] \in m[i] + 1..Len(s) + 1
      BY <3>1, MarkBounds
    <3>6. m[i] = b[i]
      <4> SUFFICES ASSUME m[i] # b[i] PROVE FALSE
        OBVIOUS
      <4>1. m[i] \in Nat /\ b[i] \in Nat /\ m[i + 1] \in Nat /\ b[i + 1] \in Nat
        BY <3>5, SMTT(20)
      <4>2. m[i] \in b[i] + 1..b[i + 1] - 1 \/ (i = 1 /\ m[i] \in 1..b[2] - 1)
        BY <3>5, <4>1, SMTT(20)
      <4>3. m[i] \in DOMAIN s
        BY <3>5
      <4>4. i = 1
        BY <3>1, <3>4, <4>2, <4>3, BeginsWithin
      <4> QED
        BY <1>9, <4>4
    <3>7. f[i] = off[j] + 1 - (m[i] - b[i])
      BY <2>1, <2>4, <2>6 DEF StartBetween
    <3>8. off[j] \in Nat /\ m[i] \in Nat
      <4>1. off[j] \in Nat
        BY <1>1, <2>1, PieceBounds
      <4> QED
        BY <3>5, <4>1
    <3>9. x = f[i]
      BY <2>3, <3>6, <3>7, <3>8
    <3> QED
      BY <3>9
  <2> QED
    BY <2>5, <2>6
<1>10. ASSUME i \notin C, out[x] = Encoded(i), Before(out, x) = "---" PROVE FALSE
  <2>1. out[x].text = "a"
    BY <1>10 DEF Encoded
  <2> QED
    BY <1>10, <2>1 DEF Begins
<1>11. ASSUME out[x].text = "" PROVE FALSE
  BY <1>11 DEF Begins
<1>12. ASSUME i \notin C, i = 1, x = 1 PROVE \E j \in 1..n : x = f[j]
  BY <1>3, <1>7, <1>12
<1>13. \E j \in 1..n : x = f[j]
  BY <1>6, <1>8, <1>9, <1>10, <1>11, <1>12 DEF RowOf
<1> QED
  BY <1>13 DEF f

\* What is written has as many documents as s, and they begin there.
LEMMA DocumentsOut ==
  ASSUME NEW R, NEW s \in Seq(R), NEW Q, NEW out \in Seq(Q),
         NEW n, NEW b, NEW m, NEW first, NEW C, NEW off, Pieces(s, out, n, b, m, first, C, off)
  PROVE  /\ Count(out) = n
         /\ From(out, 1) = 1
         /\ \A i \in 2..n : From(out, i) = Start(b, m, C, off, i)
         /\ From(out, n + 1) = Len(out) + 1
<1> DEFINE f == StartOf(n, b, m, first, C, off)
           B == Beginnings(out)
<1>1. n \in Nat \ {0} /\ DOMAIN out = 1..Len(out)
  BY DEF Pieces, Placed
<1>2. /\ f \in [1..n -> Nat]
      /\ \A i \in 1..n : f[i] \in 1..Len(out)
      /\ \A i \in 1..n - 1 : f[i] < f[i + 1]
      /\ \A i \in 1..n - 1 : f[i + 1] = Start(b, m, C, off, i + 1)
  BY StartsAre
<1>3. \A i \in 1..n : Begins(out, f[i])
  BY StartBegins
<1>4. \A x \in DOMAIN out : Begins(out, x) => \E i \in 1..n : x = f[i]
  BY OnlyStarts
<1> HIDE DEF f
<1>5. \A i \in 1..n : f[i] \in B
  BY <1>1, <1>2, <1>3 DEF Beginnings
<1>6. \A x \in B : \E i \in 1..n : x = f[i]
  BY <1>4 DEF Beginnings
<1>7. n \in Nat
  BY <1>1
<1>8. Cardinality(B) = n /\ \A k \in 1..n : Nth(B, k) = f[k]
  <2> HIDE DEF B
  <2>1. f \in [1..n -> Nat] /\ \A i \in 1..n - 1 : f[i] < f[i + 1]
    BY <1>2
  <2>2. \A i \in 1..n : f[i] \in B
    BY <1>5
  <2>3. \A q \in B : \E i \in 1..n : q = f[i]
    BY <1>6
  <2> HIDE DEF f
  <2>4. ListedBy(B, f, n)
    BY <2>1, <2>2, <2>3 DEF ListedBy
  <2> QED
    BY <1>7, <2>4, NthOf DEF NthFrom
<1>9. Count(out) = n
  BY <1>8 DEF Count
<1>10. ASSUME NEW i \in 2..n PROVE From(out, i) = Start(b, m, C, off, i)
  <2>1. i # 1 /\ i \in 1..n /\ i - 1 \in 1..n - 1 /\ (i - 1) + 1 = i
    BY <1>1
  <2>2. From(out, i) = Nth(B, i)
    BY <1>9, <2>1 DEF From
  <2>3. f[(i - 1) + 1] = Start(b, m, C, off, (i - 1) + 1)
    BY <1>2, <2>1
  <2> QED
    BY <1>8, <2>1, <2>2, <2>3
<1>11. From(out, 1) = 1 /\ From(out, n + 1) = Len(out) + 1
  <2>1. n + 1 # 1 /\ n + 1 \notin 2..n
    BY <1>1
  <2> QED
    BY <1>9, <2>1 DEF From
<1> QED
  BY <1>9, <1>10, <1>11

\* The decoder takes what is written for a stream.
LEMMA WrittenIsStream ==
  ASSUME NEW R, NEW s \in Seq(R), NEW Q, NEW out \in Seq(Q),
         NEW n, NEW b, NEW m, NEW first, NEW C, NEW off, Pieces(s, out, n, b, m, first, C, off)
  PROVE  IsStream(out)
<1>1. /\ n \in Nat \ {0} /\ Placed(s, out, n, m, C, off) /\ EncodesOthers(out, n, C, off)
      /\ DOMAIN out = 1..Len(out) /\ IsStream(s) /\ off[n] = Len(out)
  BY DEF Pieces, Placed
<1>2. C # {} => Begun(s, n, b, first) /\ Marked(s, n, b, m)
  BY DEF Pieces
<1>3. ASSUME NEW x \in DOMAIN out
      PROVE  /\ out[x].text = "a" => Before(out, x) # "%"
             /\ out[x].text = "%" => Before(out, x) \in {"", "...", "%"}
             /\ out[x].text = "..." => Before(out, x) \notin {"", "...", "%"}
  <2>1. PICK i \in 1..n : x \in off[i - 1] + 1..off[i]
    BY <1>1 DEF Placed
  <2>2. RowOf(s, out, m, C, off, i, x)
    BY <2>1, RowIs
  <2>3. ASSUME i \in C, NEW p \in m[i]..m[i + 1] - 1, out[x] = s[p], Before(out, x) = Before(s, p)
        PROVE  /\ out[x].text = "a" => Before(out, x) # "%"
               /\ out[x].text = "%" => Before(out, x) \in {"", "...", "%"}
               /\ out[x].text = "..." => Before(out, x) \notin {"", "...", "%"}
    <3>1. Begun(s, n, b, first) /\ Marked(s, n, b, m)
      BY <1>2, <2>3
    <3>2. m[i] \in 1..Len(s) /\ m[i + 1] \in m[i] + 1..Len(s) + 1
      BY <3>1, MarkBounds
    <3>3. Len(s) \in Nat /\ DOMAIN s = 1..Len(s)
      OBVIOUS
    <3>4. m[i] \in Nat /\ m[i + 1] \in Nat
      BY <3>2, <3>3
    <3>5. p \in DOMAIN s
      BY <3>2, <3>3, <3>4
    <3> QED
      BY <1>1, <2>3, <3>5 DEF IsStream
  <2>4. out[x] = Encoded(i) => out[x].text = "a"
    BY DEF Encoded
  <2> QED
    BY <2>2, <2>3, <2>4 DEF RowOf
<1>4. Before(out, Len(out) + 1) \notin {"", "%"}
  <2>1. n \in 1..n
    BY <1>1
  <2>2. CASE n \in C
    <3>1. Begun(s, n, b, first) /\ Marked(s, n, b, m)
      BY <1>2, <2>2
    <3>2. m[n] \in 1..Len(s) /\ m[n + 1] \in m[n] + 1..Len(s) + 1 /\ off[n - 1] \in Nat
          /\ off[n] = off[n - 1] + (m[n + 1] - m[n])
      BY <2>2, CopyBounds
    <3>3. Len(s) \in Nat /\ m[n + 1] = Len(s) + 1
      <4>1. Len(s) \in Nat
        OBVIOUS
      <4>2. m[n + 1] = Len(s) + 1
        BY <3>1 DEF Marked
      <4> QED
        BY <4>1, <4>2
    <3> DEFINE len == m[n + 1] - m[n]
    <3>4. m[n] \in Nat /\ m[n + 1] \in Nat /\ m[n] < m[n + 1]
      BY <3>2, <3>3
    <3>5. len \in 0..len /\ len # 0 /\ m[n] + len = m[n + 1]
      BY <3>4
    <3>6. off[n - 1] + 1 + len = off[n] + 1
      <4>1. off[n - 1] \in Nat
        BY <3>2
      <4>2. off[n] = off[n - 1] + (m[n + 1] - m[n])
        BY <3>2
      <4> QED
        BY <3>4, <4>1, <4>2
    <3>7. Before(out, off[n - 1] + 1 + len) = Before(s, m[n] + len)
      BY <2>2, <3>5, BeforeCopied
    <3>8. Before(out, Len(out) + 1) = Before(s, Len(s) + 1)
      BY <1>1, <3>3, <3>5, <3>6, <3>7
    <3> QED
      BY <1>1, <3>8 DEF IsStream
  <2>3. CASE n \notin C
    <3>1. EncodedPiece(out, off, n)
      <4>1. n \in (1..n) \ C
        BY <2>1, <2>3
      <4> QED
        BY <1>1, <4>1, BeforeEncoded
    <3> QED
      BY <1>1, <3>1 DEF EncodedPiece
  <2> QED
    BY <2>2, <2>3
<1> QED
  BY <1>3, <1>4 DEF IsStream

\* The rows between the beginning of a document and its marker have no part of it.
LEMMA NoPartsBefore ==
  ASSUME NEW R, NEW s \in Seq(R), NEW Q, NEW out \in Seq(Q),
         NEW n, NEW b, NEW m, NEW first, NEW C, NEW off, Pieces(s, out, n, b, m, first, C, off),
         NEW i \in 1..n
  PROVE  /\ From(out, i) \in 1..off[i - 1] + 1
         /\ i - 1 \notin C => From(out, i) = off[i - 1] + 1
         /\ \A x \in From(out, i)..off[i - 1] : out[x].text \notin {"a", "--- x"}
<1>1. /\ n \in Nat \ {0} /\ Placed(s, out, n, m, C, off) /\ off[0] = 0
      /\ CopiesOf(s, out, m, C, off)
  BY DEF Pieces, Placed
<1>2. CASE i = 1
  <2>1. off[i - 1] = 0 /\ From(out, i) = 1
    BY <1>1, <1>2, DocumentsOut
  <2>2. \A x : x \notin 1..0
    OBVIOUS
  <2> QED
    BY <2>1, <2>2
<1>3. CASE i # 1
  <2> DEFINE j == i - 1
  <2>1. j \in 1..n - 1 /\ j + 1 = i /\ i \in 2..n /\ j \in 1..n
    BY <1>1, <1>3
  <2> SUFFICES /\ From(out, i) \in 1..off[j] + 1
               /\ j \notin C => From(out, i) = off[j] + 1
               /\ \A x \in From(out, i)..off[j] : out[x].text \notin {"a", "--- x"}
    OBVIOUS
  <2> HIDE DEF j
  <2>2. StartBetween(b, m, C, off, j)
    BY <2>1, StartBounds
  <2>3. From(out, i) = Start(b, m, C, off, i)
    BY <2>1, DocumentsOut
  <2>4. off[j - 1] \in Nat /\ off[j] \in Nat /\ off[j - 1] < off[j]
    BY <1>1, <2>1, PieceBounds
  <2>5. From(out, i) \in off[j - 1] + 2..off[j] + 1
    BY <2>1, <2>2, <2>3 DEF StartBetween
  <2>6. From(out, i) \in 1..off[j] + 1
    BY <2>4, <2>5
  <2>7. j \notin C => From(out, i) = off[j] + 1
    BY <2>1, <2>2, <2>3 DEF StartBetween
  <2>8. ASSUME NEW x \in From(out, i)..off[j] PROVE out[x].text \notin {"a", "--- x"}
    <3>1. CASE j \notin C
      <4>1. From(out, i) = off[j] + 1
        BY <2>7, <3>1
      <4>2. \A o \in Nat : \A y : y \notin o + 1..o
        OBVIOUS
      <4>3. x \in off[j] + 1..off[j]
        BY <4>1
      <4> QED
        BY <2>4, <4>2, <4>3
    <3>2. CASE j \in C
      <4>1. /\ From(out, i) = off[j - 1] + 1 + (b[i] - m[j])
            /\ From(out, i) = off[j] + 1 - (m[i] - b[i])
        BY <2>1, <2>2, <2>3, <3>2 DEF StartBetween
      <4>2. Marked(s, n, b, m) /\ Begun(s, n, b, first)
        BY <3>2 DEF Pieces
      <4>3. m[j] \in Nat /\ m[i] \in Nat /\ b[i] \in Nat /\ m[j] < b[i] /\ b[i] <= m[i]
        <5>1. m[j] \in 1..Len(s) /\ m[j + 1] \in m[j] + 1..Len(s) + 1 /\ b[j + 1] \in m[j] + 1..m[j + 1]
          BY <2>1, <4>2, MarkBounds
        <5>2. m[j] \in Nat /\ m[j + 1] \in Nat
          BY <5>1
        <5>3. b[j + 1] \in Nat /\ m[j] < b[j + 1] /\ b[j + 1] <= m[j + 1]
          BY <5>1, <5>2
        <5> QED
          BY <2>1, <5>2, <5>3
      <4> DEFINE k == x - (off[j - 1] + 1)
                 u == b[i] - m[j]
                 v == m[i] - m[j]
      <4>4. u \in Int /\ v \in Int
        BY <4>3
      <4>5. x \in off[j - 1] + 1 + u..off[j - 1] + v
        <5>1. off[j] = off[j - 1] + (m[j + 1] - m[j])
          BY <3>2, CopyBounds
        <5> QED
          BY <2>1, <4>1, <5>1
      <4>6. k \in u..v - 1 /\ off[j - 1] + 1 + k = x
        <5>1. \A o, c, d \in Int : \A y \in o + 1 + c..o + d :
                 y - (o + 1) \in c..d - 1 /\ o + 1 + (y - (o + 1)) = y
          OBVIOUS
        <5>2. off[j - 1] \in Int
          BY <2>4
        <5> HIDE DEF u, v
        <5> QED
          BY <4>4, <4>5, <5>1, <5>2
      <4>7. k \in 0..m[i] - m[j] - 1 /\ m[j] + k \in b[i]..m[i] - 1
        <5>1. \A c, d, e \in Nat : c < d => \A y \in d - c..e - c - 1 : y \in 0..e - c - 1 /\ c + y \in d..e - 1
          OBVIOUS
        <5>2. k \in b[i] - m[j]..m[i] - m[j] - 1
          BY <4>6
        <5> HIDE DEF k
        <5> QED
          BY <4>3, <5>1, <5>2
      <4> HIDE DEF k
      <4>10. out[x] = s[m[j] + k]
        <5>1. out[off[j - 1] + 1 + k] = s[m[j] + k]
          BY <1>1, <2>1, <3>2, <4>7 DEF CopiesOf
        <5> QED
          BY <4>6, <5>1
      <4>12. s[m[j] + k].text \in {"%", "", "#"}
        BY <2>1, <4>2, <4>7 DEF Marked
      <4> QED
        BY <4>10, <4>12
    <3> QED
      BY <3>1, <3>2
  <2> QED
    BY <2>6, <2>7, <2>8
<1> QED
  BY <1>2, <1>3

\* The last row of a document.
LEMMA LastRows ==
  ASSUME NEW R, NEW s \in Seq(R), NEW Q, NEW out \in Seq(Q),
         NEW n, NEW b, NEW m, NEW first, NEW C, NEW off, Pieces(s, out, n, b, m, first, C, off),
         NEW i \in 1..n
  PROVE  /\ i \notin C => From(out, i + 1) = off[i] + 1
         /\ i \in C => From(out, i + 1) = off[i - 1] + 1 + (b[i + 1] - m[i])
<1>1. n \in Nat \ {0} /\ off[n] = Len(out)
  BY DEF Pieces, Placed
<1>2. CASE i = n
  <2>1. From(out, i + 1) = Len(out) + 1
    BY <1>2, DocumentsOut
  <2>2. ASSUME i \in C PROVE From(out, i + 1) = off[i - 1] + 1 + (b[i + 1] - m[i])
    <3>1. off[i - 1] \in Nat /\ off[i] = off[i - 1] + (m[i + 1] - m[i]) /\ m[i] \in 1..Len(s) /\ Len(s) \in Nat
          /\ m[i + 1] \in m[i] + 1..Len(s) + 1
      BY <2>2, CopyBounds
    <3>2. b[i + 1] = m[i + 1] /\ off[i] = Len(out)
      BY <1>2, <2>2, CopyBounds
    <3>3. m[i] \in Nat /\ m[i + 1] \in Nat /\ off[i - 1] \in Nat
      BY <3>1
    <3>4. off[i] + 1 = off[i - 1] + 1 + (m[i + 1] - m[i])
      <4>1. off[i] = off[i - 1] + (m[i + 1] - m[i])
        BY <3>1
      <4>2. \A q, o, u, v \in Int : q = o + (u - v) => q + 1 = o + 1 + (u - v)
        OBVIOUS
      <4>3. off[i] \in Int
        <5>1. Placed(s, out, n, m, C, off)
          BY DEF Pieces
        <5>2. off[i] \in Nat
          BY <5>1, PieceBounds
        <5> QED
          BY <5>2
      <4> QED
        BY <3>3, <4>1, <4>2, <4>3, SMTT(20)
    <3> QED
      BY <2>1, <3>2, <3>4
  <2> QED
    BY <1>1, <1>2, <2>1, <2>2
<1>3. CASE i # n
  <2>1. i \in 1..n - 1 /\ i + 1 \in 2..n
    BY <1>1, <1>3
  <2>2. StartBetween(b, m, C, off, i)
    BY <2>1, StartBounds
  <2>3. From(out, i + 1) = Start(b, m, C, off, i + 1)
    BY <2>1, DocumentsOut
  <2> QED
    BY <2>2, <2>3 DEF StartBetween
<1> QED
  BY <1>2, <1>3

\* What is encoded is one row.
LEMMA EncodesDocument ==
  ASSUME NEW R, NEW s \in Seq(R), NEW Q, NEW out \in Seq(Q),
         NEW n, NEW b, NEW m, NEW first, NEW C, NEW off, Pieces(s, out, n, b, m, first, C, off),
         NEW i \in (1..n) \ C
  PROVE  IsEncoded(out, i)
<1>1. /\ n \in Nat \ {0} /\ Placed(s, out, n, m, C, off) /\ EncodesOthers(out, n, C, off)
      /\ i \in 1..n /\ i \notin C
  BY DEF Pieces, Placed
<1>2. off[i - 1] \in Nat /\ off[i] \in Nat /\ off[i - 1] < off[i]
  BY <1>1, PieceBounds
<1>3. From(out, i) \in 1..off[i - 1] + 1
  BY <1>1, NoPartsBefore
<1>4. \A x \in From(out, i)..off[i - 1] : out[x].text \notin {"a", "--- x"}
  BY <1>1, NoPartsBefore
<1>5. From(out, i + 1) - 1 = off[i]
  <2>1. From(out, i + 1) = off[i] + 1
    BY <1>1, LastRows
  <2> QED
    BY <1>2, <2>1
<1>6. out[off[i]] = Encoded(i) /\ out[off[i]].text = "a"
  <2>1. out[off[i]] = Encoded(i)
    BY <1>1 DEF EncodesOthers
  <2> QED
    BY <2>1 DEF Encoded
<1>7. ASSUME NEW x \in off[i - 1] + 1..off[i], x # off[i] PROVE out[x].text \in {"---", ""}
  <2>1. off[i] > off[i - 1] + 1
    BY <1>2, <1>7
  <2>2. x = off[i - 1] + 1 \/ x \in off[i - 1] + 2..off[i] - 1
    BY <1>2, <1>7
  <2> QED
    BY <1>1, <2>1, <2>2 DEF EncodesOthers
<1>8. Parts(out, i) = {off[i]}
  <2>1. off[i] \in Parts(out, i)
    <3>1. off[i] \in From(out, i)..off[i]
      BY <1>2, <1>3
    <3> QED
      BY <1>5, <1>6, <3>1 DEF Parts
  <2>2. ASSUME NEW x \in Parts(out, i) PROVE x = off[i]
    <3>1. x \in From(out, i)..off[i] /\ out[x].text \in {"a", "--- x"}
      BY <1>5 DEF Parts
    <3>2. x \in From(out, i)..off[i - 1] \/ x \in off[i - 1] + 1..off[i]
      <4>1. \A u, v, w \in Int : \A q \in u..w : q \in u..v \/ q \in v + 1..w
        OBVIOUS
      <4>2. From(out, i) \in Int /\ off[i - 1] \in Int /\ off[i] \in Int
        BY <1>2, <1>3
      <4> QED
        BY <3>1, <4>1, <4>2
    <3> QED
      BY <1>4, <1>7, <3>1, <3>2
  <2> QED
    BY <2>1, <2>2
<1> QED
  BY <1>6, <1>8 DEF IsEncoded

\* What is copied is every row, from the marker on.
LEMMA CopiesDocument ==
  ASSUME NEW R, NEW s \in Seq(R), NEW Q, NEW out \in Seq(Q),
         NEW n, NEW b, NEW m, NEW first, NEW C, NEW off, Pieces(s, out, n, b, m, first, C, off),
         \A j \in 1..n + 1 : b[j] = From(s, j),
         NEW i \in C
  PROVE  /\ IsCopied(out, s, i)
         /\ \A p \in m[i]..b[i + 1] - 1 : out[p + (off[i - 1] + 1 - m[i])] = s[p]
         /\ From(out, i + 1) = off[i - 1] + 1 + (b[i + 1] - m[i])
<1> DEFINE o == off[i - 1]
           c == m[i]
           k == o + 1 - c
           d == b[i + 1]
           e == m[i + 1]
<1>1. /\ n \in Nat \ {0} /\ CopiesOf(s, out, m, C, off) /\ i \in 1..n
      /\ Begun(s, n, b, first) /\ Marked(s, n, b, m)
  BY CopyBounds DEF Pieces
<1>2. /\ c \in 1..Len(s) /\ m[i + 1] \in c + 1..Len(s) + 1
      /\ b[i] \in 1..c /\ d \in c + 1..m[i + 1]
  BY CopyBounds
<1>3. o \in Nat /\ off[i] \in 1..Len(out)
  BY CopyBounds
<1>4. Len(s) \in Nat /\ Len(out) \in Nat
  OBVIOUS
<1>5. c \in Int /\ e \in Int /\ b[i] \in Int /\ d \in Int /\ c < d /\ d <= e /\ b[i] <= c
  <2>1. c \in Int
    BY <1>2, <1>4
  <2>2. e \in Int
    BY <1>2, <1>4, <2>1
  <2> QED
    BY <1>2, <2>1, <2>2
<1>6. o \in Int /\ (\A u, v \in Int : \A x : x \in u..v => x \in Int)
  BY <1>3
<1>7. From(out, i + 1) = o + 1 + (d - c)
  BY <1>1, LastRows
<1>8. ASSUME NEW p \in c..e - 1 PROVE out[p + k] = s[p]
  <2> HIDE DEF c, o, e
  <2>1. \A u, v, w \in Int : \A q \in v..w - 1 :
           q - v \in 0..w - v - 1 /\ u + 1 + (q - v) = q + (u + 1 - v) /\ v + (q - v) = q
    OBVIOUS
  <2>2. p - c \in 0..e - c - 1 /\ o + 1 + (p - c) = p + (o + 1 - c) /\ c + (p - c) = p
    BY <1>5, <1>6, <2>1
  <2> QED
    BY <1>1, <2>2 DEF CopiesOf, c, o, e
<1>9. From(out, i) \in 1..o + 1
  BY <1>1, NoPartsBefore
<1>10. \A x \in From(out, i)..o : out[x].text \notin {"a", "--- x"}
  BY <1>1, NoPartsBefore
<1>11. \A p \in b[i]..c - 1 : s[p].text \notin {"a", "--- x"}
  <2>1. CASE i = 1
    <3>1. c = 1
      BY <2>1, CopyBounds
    <3>2. b[i] \in 1..1
      BY <1>2, <3>1
    <3>3. b[i] = 1 /\ 1..1 - 1 = {}
      BY <3>2
    <3> QED
      BY <3>1, <3>3
  <2>2. CASE i # 1
    <3>1. i \in 2..n
      BY <1>1, <2>2
    <3>2. \A q \in b[i]..m[i] - 1 : s[q].text \in {"%", "", "#"}
      BY <1>1, <3>1 DEF Marked
    <3> QED
      BY <3>2
  <2> QED
    BY <2>1, <2>2
<1>12. Parts(s, i) = {p \in b[i]..d - 1 : s[p].text \in {"a", "--- x"}}
  <2>1. b[i] = From(s, i) /\ d = From(s, i + 1)
    BY <1>1
  <2> QED
    BY <2>1 DEF Parts
<1>13. Parts(out, i) = {x \in From(out, i)..o + (d - c) : out[x].text \in {"a", "--- x"}}
  <2> HIDE DEF c, d, o
  <2>1. \A u, v, w \in Int : u + 1 + (w - v) - 1 = u + (w - v)
    OBVIOUS
  <2>2. From(out, i + 1) - 1 = o + (d - c)
    BY <1>5, <1>6, <1>7, <2>1
  <2> QED
    BY <2>2 DEF Parts
<1>14. ASSUME NEW p \in Parts(s, i) PROVE p \in c..d - 1
  <2> HIDE DEF c, d
  <2>1. \A u, v, w \in Int : \A q \in u..w : q \in u..v - 1 \/ q \in v..w
    OBVIOUS
  <2>2. p \in b[i]..d - 1 /\ s[p].text \in {"a", "--- x"}
    BY <1>12
  <2>3. p \in b[i]..c - 1 \/ p \in c..d - 1
    <3>1. d - 1 \in Int
      BY <1>5
    <3> QED
      BY <1>5, <2>1, <2>2, <3>1
  <2> QED
    BY <1>11, <2>2, <2>3
<1>15. ASSUME NEW x \in Parts(out, i) PROVE x \in o + 1..o + (d - c)
  <2> HIDE DEF c, d, o
  <2>1. From(out, i) \in Int
    BY <1>3, <1>9
  <2>2. \A u, v, w \in Int : \A q \in u..w : q \in u..v \/ q \in v + 1..w
    OBVIOUS
  <2>3. x \in From(out, i)..o + (d - c) /\ out[x].text \in {"a", "--- x"}
    BY <1>13
  <2>4. x \in From(out, i)..o \/ x \in o + 1..o + (d - c)
    <3>1. o + (d - c) \in Int
      BY <1>5, <1>6
    <3> QED
      BY <1>6, <2>1, <2>2, <2>3, <3>1
  <2> QED
    BY <1>10, <2>3, <2>4
<1>16. \A p \in c..d - 1 : p + k \in o + 1..o + (d - c) /\ p \in c..e - 1 /\ p \in b[i]..d - 1
  <2> SUFFICES ASSUME NEW p \in c..d - 1
               PROVE  p + k \in o + 1..o + (d - c) /\ p \in c..e - 1 /\ p \in b[i]..d - 1
    OBVIOUS
  <2> HIDE DEF c, d, o, e
  <2>1. p \in Int /\ c <= p /\ p <= d - 1
    BY <1>5
  <2> QED
    BY <1>5, <1>6, <2>1
<1>17. \A x \in o + 1..o + (d - c) : x - k \in c..d - 1 /\ (x - k) + k = x
  <2> SUFFICES ASSUME NEW x \in o + 1..o + (d - c)
               PROVE  x - k \in c..d - 1 /\ (x - k) + k = x
    OBVIOUS
  <2> HIDE DEF c, d, o, e
  <2>1. o + 1 \in Int /\ o + (d - c) \in Int
    BY <1>5, <1>6
  <2>2. x \in Int /\ o + 1 <= x /\ x <= o + (d - c)
    BY <2>1
  <2> QED
    BY <1>5, <1>6, <2>2
<1>18. \A x \in o + 1..o + (d - c) : x \in From(out, i)..o + (d - c)
  <2> HIDE DEF c, d, o
  <2>1. From(out, i) \in Int /\ From(out, i) <= o + 1
    BY <1>3, <1>9
  <2> QED
    BY <1>3, <1>5, <2>1
<1>19. \A p \in c..d - 1 : out[p + k] = s[p]
  BY <1>8, <1>16
<1>20. k \in -Len(s)..Len(out)
  <2>1. o < off[i]
    <3>1. Placed(s, out, n, m, C, off)
      BY DEF Pieces
    <3> QED
      BY <1>1, <3>1, PieceBounds
  <2>3. o < Len(out) /\ o >= 0 /\ c >= 1 /\ c <= Len(s)
    BY <1>2, <1>3, <1>4, <1>5, <2>1
  <2>4. -Len(s) \in Int
    BY <1>4
  <2> HIDE DEF o, c
  <2>5. -Len(s) <= k /\ k <= Len(out) /\ k \in Int
    BY <1>4, <1>5, <1>6, <2>3
  <2> QED
    BY <1>4, <2>4, <2>5
<1> HIDE DEF c, d, o, e, k
<1>21. \A p \in Parts(s, i) : p + k \in Parts(out, i) /\ out[p + k] = s[p]
  BY <1>12, <1>13, <1>14, <1>16, <1>18, <1>19
<1>22. ASSUME NEW x \in Parts(out, i) PROVE \E p \in Parts(s, i) : x = p + k
  <2>1. x \in o + 1..o + (d - c) /\ out[x].text \in {"a", "--- x"}
    BY <1>13, <1>15
  <2>2. x - k \in c..d - 1 /\ (x - k) + k = x
    BY <1>17, <2>1
  <2>3. PICK p \in c..d - 1 : p + k = x
    BY <2>2
  <2>4. p \in Parts(s, i)
    BY <1>12, <1>16, <1>19, <2>1, <2>3
  <2> QED
    BY <2>3, <2>4
<1>23. Parts(out, i) = {p + k : p \in Parts(s, i)}
  BY <1>21, <1>22
<1>24. IsCopied(out, s, i)
  BY <1>20, <1>21, <1>23 DEF IsCopied
<1> QED
  BY <1>7, <1>19, <1>24 DEF c, d, o, k

\* The first rows of the documents, and the rows that render takes for them.
Firsts(s) == [i \in 1..Count(s) + 1 |-> From(s, i)]
Taken(s) == [i \in 1..Count(s) + 1 |-> LineStart(s, Starts(s)[i])]

\* Their numbers.
LEMMA TakenAre ==
  ASSUME NEW R, NEW s \in Seq(R), NEW first, Begun(s, Count(s), Firsts(s), first)
  PROVE  /\ Count(s) \in Nat \ {0}
         /\ \A i \in 1..Count(s) : Firsts(s)[i] \in 1..Len(s) /\ Firsts(s)[i + 1] \in Nat /\ Firsts(s)[i] < Firsts(s)[i + 1]
         /\ \A i \in 1..Count(s) : Starts(s)[i] = Firsts(s)[i] /\ Taken(s)[i] = LineStart(s, Firsts(s)[i])
         /\ Firsts(s)[1] = 1 /\ Taken(s)[1] = 1
         /\ Firsts(s)[Count(s) + 1] = Len(s) + 1 /\ Taken(s)[Count(s) + 1] = Len(s) + 1
<1> DEFINE n == Count(s)
           b == Firsts(s)
<1>1. n \in Nat \ {0} /\ b[1] = 1 /\ b[n + 1] = Len(s) + 1 /\ b \in [1..n + 1 -> Nat]
  BY DEF Begun
<1>2. \A i \in 1..n : b[i] < b[i + 1]
  BY DEF Begun
<1>3. Len(s) \in Nat
  OBVIOUS
<1>4. \A i \in 1..n : b[i] \in 1..Len(s) /\ b[i + 1] \in Nat /\ b[i] < b[i + 1]
  <2> HIDE DEF n, b
  <2> DEFINE k == n + 1
  <2>1. k \in Nat /\ b \in [1..k -> Nat] /\ \A i \in 1..k - 1 : b[i] < b[i + 1]
    <3>1. \A i \in 1..k - 1 : i \in 1..n
      BY <1>1
    <3> QED
      BY <1>1, <1>2, <3>1
  <2>2. \A i, j \in 1..k : i < j => b[i] < b[j]
    <3> HIDE DEF k
    <3> QED
      BY <2>1, Increasing
  <2> SUFFICES ASSUME NEW i \in 1..n PROVE b[i] \in 1..Len(s) /\ b[i + 1] \in Nat /\ b[i] < b[i + 1]
    OBVIOUS
  <2>3. i \in 1..n + 1 /\ i + 1 \in 1..n + 1 /\ n + 1 \in 1..n + 1 /\ 1 \in 1..n + 1 /\ i < n + 1 /\ (i = 1 \/ 1 < i)
    BY <1>1
  <2>4. b[i] \in Nat /\ b[i + 1] \in Nat /\ b[n + 1] \in Nat
    BY <1>1, <2>3
  <2>5. b[i] < b[n + 1] /\ (i = 1 \/ b[1] < b[i])
    BY <2>2, <2>3
  <2>6. b[i] < Len(s) + 1 /\ b[i] >= 1
    BY <1>1, <1>3, <2>4, <2>5
  <2> QED
    BY <1>2, <1>3, <2>4, <2>6
<1>5. \A i \in 1..n : Starts(s)[i] = b[i] /\ Taken(s)[i] = LineStart(s, b[i])
  <2> SUFFICES ASSUME NEW i \in 1..n PROVE Starts(s)[i] = b[i] /\ Taken(s)[i] = LineStart(s, b[i])
    OBVIOUS
  <2>1. i \in 1..n + 1 /\ ~(i > n)
    BY <1>1
  <2>2. Starts(s)[i] = From(s, i) /\ b[i] = From(s, i)
    BY <2>1 DEF Starts, Firsts
  <2> QED
    BY <2>1, <2>2 DEF Taken
<1>6. Taken(s)[1] = 1
  <2>1. 1 \in 1..n
    BY <1>1
  <2> QED
    BY <1>1, <1>5, <2>1, LinesAre
<1>7. Taken(s)[n + 1] = Len(s) + 1
  <2>1. n + 1 \in 1..n + 1 /\ n + 1 > n
    BY <1>1
  <2>2. Starts(s)[n + 1] = LineCount(s) + 1
    BY <2>1 DEF Starts
  <2>3. LineStart(s, LineCount(s) + 1) = Len(s) + 1
    BY LinesAre
  <2> QED
    BY <2>1, <2>2, <2>3 DEF Taken
<1> QED
  BY <1>1, <1>4, <1>5, <1>6, <1>7

\* The marker lines that render finds are markers, at or behind the first rows.
LEMMA VerbatimMarks ==
  ASSUME NEW R, NEW s \in Seq(R), NEW first, Begun(s, Count(s), Firsts(s), first),
         Verbatim(s, Starts(s))
  PROVE  Marks(s, Count(s), Firsts(s), Taken(s))
<1> DEFINE n == Count(s)
           b == Firsts(s)
           m == Taken(s)
<1>1. n \in Nat \ {0} /\ m[1] = 1 /\ m[n + 1] = Len(s) + 1
  BY TakenAre
<1>2. \A i \in 1..n : b[i] \in 1..Len(s) /\ b[i + 1] \in Nat /\ b[i] < b[i + 1]
  BY TakenAre
<1>3. \A i \in 1..n : Starts(s)[i] = b[i] /\ m[i] = LineStart(s, b[i])
  BY TakenAre
<1>4. Len(s) \in Nat
  OBVIOUS
<1>5. ASSUME NEW i \in 2..n
      PROVE  /\ b[i] \in 1..LineCount(s) /\ m[i] = LineStart(s, b[i])
             /\ m[i] \in b[i]..Len(s) /\ s[m[i]].text = "---"
  <2>1. i \in 1..n
    BY <1>1
  <2>2. b[i] \in Nat /\ b[i] >= 1
    BY <1>2, <1>4, <2>1
  <2>3. b[i] <= LineCount(s) /\ IsMarker(Line(s, b[i]))
    BY <1>3, <2>1 DEF Verbatim
  <2>4. LineCount(s) \in Nat
    BY LinesAre
  <2>5. b[i] \in 1..LineCount(s)
    BY <2>2, <2>3, <2>4
  <2>6. LineStart(s, b[i]) \in b[i]..Len(s) /\ s[LineStart(s, b[i])].text = "---"
    <3> DEFINE k == b[i]
    <3>1. k \in 1..LineCount(s) /\ IsMarker(Line(s, k))
      BY <2>3, <2>5
    <3> HIDE DEF k
    <3>2. LineStart(s, k) \in k..Len(s) /\ s[LineStart(s, k)].text = "---"
      <4>1. MarkerRows(R, s, k)
        BY <3>1, MarkerIs
      <4> QED
        BY <4>1 DEF MarkerRows
    <3> QED
      BY <3>2 DEF k
  <2> QED
    BY <1>3, <2>1, <2>5, <2>6
<1>6. ASSUME NEW i \in 1..n PROVE m[i] \in Nat
  <2>1. i = 1 \/ i \in 2..n
    BY <1>1
  <2>2. ASSUME i \in 2..n PROVE m[i] \in Nat
    <3>1. m[i] \in b[i]..Len(s) /\ b[i] \in 1..LineCount(s) /\ LineCount(s) \in Nat
      BY <1>5, <2>2, LinesAre
    <3>2. b[i] \in Nat
      BY <3>1
    <3> QED
      BY <1>4, <3>1, <3>2
  <2> QED
    BY <1>1, <2>1, <2>2
<1>7. m \in [1..n + 1 -> Nat]
  <2>1. m = [i \in 1..n + 1 |-> m[i]]
    BY DEF Taken
  <2>2. \A i \in 1..n + 1 : i \in 1..n \/ i = n + 1
    BY <1>1
  <2>3. \A i \in 1..n + 1 : m[i] \in Nat
    BY <1>1, <1>4, <1>6, <2>2
  <2> HIDE DEF m
  <2> QED
    BY <2>1, <2>3
<1>8. ASSUME NEW i \in 2..n - 1 PROVE m[i] < m[i + 1]
  <2> DEFINE j == i + 1
  <2>1. i \in 2..n /\ j \in 2..n /\ i \in 1..n
    BY <1>1
  <2>2. b[i] < b[j]
    BY <1>2, <2>1
  <2>3. /\ b[i] \in 1..LineCount(s) /\ m[i] = LineStart(s, b[i])
        /\ b[j] \in 1..LineCount(s) /\ m[j] = LineStart(s, b[j])
    BY <1>5, <2>1
  <2>4. LineStart(s, b[i]) < LineStart(s, b[j])
    BY <2>2, <2>3, LinesAre
  <2> QED
    BY <2>3, <2>4
<1>9. ASSUME NEW i \in 2..n PROVE b[i] <= m[i] /\ m[i] <= Len(s) /\ s[m[i]].text = "---"
  <2>1. m[i] \in b[i]..Len(s) /\ s[m[i]].text = "---" /\ i \in 1..n
    BY <1>1, <1>5
  <2>2. b[i] \in Nat
    BY <1>2, <1>4, <2>1
  <2> QED
    BY <1>4, <2>1, <2>2
<1> QED
  BY <1>1, <1>7, <1>8, <1>9 DEF Marks

\* A line of one row that is a bare marker is a marker.
LEMMA NotEmpty ==
  ASSUME NEW rows, Len(rows) = 1
  PROVE  rows # << >>
OBVIOUS

LEMMA OneRow ==
  ASSUME NEW R, NEW s \in Seq(R), NEW p \in 1..Len(s), s[p].text = "---"
  PROVE  IsMarker(SubSeq(s, p, p))
<1> DEFINE line == SubSeq(s, p, p)
<1>1. Len(line) = 1 /\ line[1] = s[p]
  OBVIOUS
<1>2. SubSeq(s, p, p) # << >>
  <2>1. Len(line) = 1
    BY <1>1
  <2> QED
    BY <2>1, NotEmpty, Zenon
<1> HIDE DEF line
<1>3. \A k : k \notin 2..1
  OBVIOUS
<1>4. IsMarker(line)
  BY <1>1, <1>2, <1>3 DEF IsMarker, line
<1> QED
  BY <1>4 DEF line

\* Of a plain stream render knows the lines.
LEMMA PlainIsVerbatim ==
  ASSUME NEW R, NEW s \in Seq(R), NEW first, Begun(s, Count(s), Firsts(s), first), IsPlain(s)
  PROVE  Verbatim(s, Starts(s)) /\ \A i \in 1..Count(s) + 1 : Taken(s)[i] = Firsts(s)[i]
<1> DEFINE n == Count(s)
           b == Firsts(s)
           m == Taken(s)
<1>1. n \in Nat \ {0} /\ m[n + 1] = Len(s) + 1 /\ b[n + 1] = Len(s) + 1
  BY TakenAre
<1>2. \A i \in 1..n : b[i] \in 1..Len(s) /\ b[i + 1] \in Nat /\ b[i] < b[i + 1]
  BY TakenAre
<1>3. \A i \in 1..n : Starts(s)[i] = b[i] /\ m[i] = LineStart(s, b[i])
  BY TakenAre
<1>4. Len(s) \in Nat /\ DOMAIN s = 1..Len(s)
  OBVIOUS
<1>5. \A p \in DOMAIN s : s[p].lf
  BY DEF IsPlain
<1>6. LineCount(s) = Len(s) + 1 /\ \A k \in 1..Len(s) + 1 : LineStart(s, k) = k
  BY <1>5, LinesAre
<1>7. \A i \in 1..n + 1 : m[i] = b[i]
  <2>1. \A i \in 1..n + 1 : i \in 1..n \/ i = n + 1
    BY <1>1
  <2>2. \A k \in 1..Len(s) : k \in 1..Len(s) + 1
    BY <1>4
  <2> HIDE DEF n, b, m
  <2> QED
    BY <1>1, <1>2, <1>3, <1>6, <2>1, <2>2
<1>8. ASSUME NEW i \in 2..n
      PROVE  Starts(s)[i] > Starts(s)[i - 1] /\ Starts(s)[i] <= LineCount(s) /\ IsMarker(Line(s, Starts(s)[i]))
  <2> DEFINE j == i - 1
             p == b[i]
  <2>1. i \in 1..n /\ j \in 1..n /\ j + 1 = i /\ i \in 1..n + 1
    BY <1>1
  <2>2. Starts(s)[i] = p /\ Starts(s)[j] = b[j]
    BY <1>3, <2>1
  <2>3. p \in 1..Len(s) /\ b[j] \in 1..Len(s) /\ b[j] < p
    BY <1>2, <2>1
  <2>4. s[p].text = "---"
    BY <2>1 DEF IsPlain, Firsts
  <2> HIDE DEF p
  <2>5. p \in 1..Len(s) + 1 /\ p + 1 \in 1..Len(s) + 1 /\ p <= Len(s) + 1 /\ p + 1 - 1 = p /\ p \in Nat
    BY <1>4, <2>3
  <2>6. Line(s, p) = SubSeq(s, p, p)
    <3>1. LineStart(s, p) = p /\ LineStart(s, p + 1) = p + 1
      BY <1>6, <2>5
    <3> QED
      BY <2>5, <3>1 DEF Line
  <2>8. IsMarker(SubSeq(s, p, p))
    BY <2>3, <2>4, OneRow
  <2>9. Starts(s)[i] > Starts(s)[j]
    <3>1. b[j] \in Nat
      BY <1>4, <2>3
    <3> QED
      BY <2>2, <2>3, <2>5, <3>1
  <2> QED
    BY <1>6, <2>2, <2>5, <2>6, <2>8, <2>9
<1>9. Verbatim(s, Starts(s))
  BY <1>8 DEF Verbatim
<1> QED
  BY <1>7, <1>9

\* The rows that are written, the documents that are copied, and what is written of
\* a document that is encoded and of one that is copied.
RowsOf(R, n) == R \cup {Marker} \cup {Encoded(i) : i \in 1..n}
Kept(s, changed) == {i \in 1..Count(s) : i \notin changed /\ Verbatim(s, Starts(s))}

\* What may be written before an encoded document, and the pieces.
IsHead(h, i) ==
  /\ h = << >> => i = 1
  /\ h # << >> => h[1].text = "---"
  /\ \A p \in 2..Len(h) : h[p].text = ""
EncodedRows(w, i) ==
  /\ Len(w) \in Nat \ {0}
  /\ w[Len(w)] = Encoded(i)
  /\ Len(w) > 1 => w[1].text = "---"
  /\ \A p \in 2..Len(w) - 1 : w[p].text = ""
  /\ i # 1 => Len(w) > 1
CopiedRows(w, s, m, i) ==
  /\ Len(w) = m[i + 1] - m[i]
  /\ \A k \in 0..m[i + 1] - m[i] - 1 : w[k + 1] = s[m[i] + k]

\* The encoded document behind its head is an encoded piece.
LEMMA EncodedRowsAre ==
  ASSUME NEW Q, NEW h \in Seq(Q), NEW i, Encoded(i) \in Q, IsHead(h, i)
  PROVE  h \o <<Encoded(i)>> \in Seq(Q) /\ EncodedRows(h \o <<Encoded(i)>>, i)
<1>1. PICK e : e = Encoded(i)
  OBVIOUS
<1>2. PICK z : z = <<e>>
  OBVIOUS
<1>3. z \in Seq(Q) /\ Len(z) = 1 /\ z[1] = e
  BY <1>1, <1>2
<1>4. PICK w : w = h \o z
  OBVIOUS
<1>5. w \in Seq(Q) /\ Len(w) = Len(h) + 1
  <2>1. h \o z \in Seq(Q) /\ Len(h \o z) = Len(h) + Len(z)
    BY <1>3, ConcatProperties
  <2> QED
    BY <1>3, <1>4, <2>1
<1>6. (\A p \in 1..Len(h) : w[p] = h[p]) /\ w[Len(h) + 1] = e
  <2>1. \A p \in 1..Len(h) + Len(z) : (h \o z)[p] = IF p <= Len(h) THEN h[p] ELSE z[p - Len(h)]
    BY <1>3, ConcatProperties
  <2>2. \A p \in 1..Len(h) + 1 : w[p] = IF p <= Len(h) THEN h[p] ELSE z[p - Len(h)]
    BY <1>3, <1>4, <2>1
  <2>3. Len(h) \in Nat
    OBVIOUS
  <2>4. /\ \A p \in 1..Len(h) : p \in 1..Len(h) + 1 /\ p <= Len(h)
        /\ Len(h) + 1 \in 1..Len(h) + 1 /\ ~(Len(h) + 1 <= Len(h)) /\ (Len(h) + 1) - Len(h) = 1
    BY <2>3
  <2> QED
    BY <1>3, <2>2, <2>4
<1>7. Len(h) \in Nat /\ (h # << >> <=> Len(h) > 0)
  OBVIOUS
<1>8. Len(w) \in Nat \ {0} /\ w[Len(w)] = Encoded(i)
  BY <1>1, <1>5, <1>6, <1>7
<1>9. ASSUME Len(w) > 1 PROVE w[1].text = "---"
  <2>1. Len(h) > 0 /\ 1 \in 1..Len(h)
    BY <1>5, <1>7, <1>9
  <2>2. h[1].text = "---"
    BY <1>7, <2>1 DEF IsHead
  <2> QED
    BY <1>6, <2>1, <2>2
<1>10. ASSUME NEW p \in 2..Len(w) - 1 PROVE w[p].text = ""
  <2>1. p \in 2..Len(h) /\ p \in 1..Len(h)
    BY <1>5, <1>7
  <2>2. h[p].text = ""
    BY <2>1 DEF IsHead
  <2> QED
    BY <1>6, <2>1, <2>2
<1>11. ASSUME i # 1 PROVE Len(w) > 1
  <2>1. h # << >>
    BY <1>11 DEF IsHead
  <2> QED
    BY <1>5, <1>7, <2>1
<1>12. EncodedRows(w, i)
  BY <1>8, <1>9, <1>10, <1>11 DEF EncodedRows
<1> QED
  BY <1>1, <1>2, <1>4, <1>5, <1>12

\* The rows from one marker to the next are a copied piece.
LEMMA CopiedRowsAre ==
  ASSUME NEW R, NEW s \in Seq(R), NEW m, NEW i, m[i] \in 1..Len(s), m[i + 1] \in m[i] + 1..Len(s) + 1
  PROVE  SubSeq(s, m[i], m[i + 1] - 1) \in Seq(R) /\ CopiedRows(SubSeq(s, m[i], m[i + 1] - 1), s, m, i)
<1>1. PICK a : a = m[i]
  OBVIOUS
<1>2. PICK z : z = m[i + 1]
  OBVIOUS
<1>3. a \in 1..Len(s) /\ z \in a + 1..Len(s) + 1 /\ Len(s) \in Nat
  BY <1>1, <1>2
<1>4. a \in Nat /\ z \in Nat /\ a >= 1 /\ a < z /\ z <= Len(s) + 1
  <2>1. a \in Nat
    BY <1>3
  <2> QED
    BY <1>3, <2>1
<1> DEFINE w == SubSeq(s, a, z - 1)
<1>5. w \in Seq(R)
  <2>1. \A k \in a..z - 1 : s[k] \in R
    BY <1>4
  <2> QED
    BY <1>4
<1>6. Len(w) = z - a
  BY <1>4
<1>7. ASSUME NEW k \in 0..z - a - 1 PROVE w[k + 1] = s[a + k]
  <2>1. k \in Nat /\ k + 1 \in 1..z - a /\ a + (k + 1) - 1 = a + k
    BY <1>4
  <2>2. w[k + 1] = s[a + (k + 1) - 1]
    BY <1>4, <2>1
  <2> QED
    BY <2>1, <2>2
<1> HIDE DEF w
<1>8. CopiedRows(w, s, m, i)
  BY <1>1, <1>2, <1>6, <1>7 DEF CopiedRows
<1> QED
  BY <1>1, <1>2, <1>5, <1>8 DEF w

\* What is written of each document is such a piece.
LEMMA WrittenIs ==
  ASSUME NEW R, NEW s \in Seq(R), IsStream(s), NEW first, Begun(s, Count(s), Firsts(s), first),
         NEW changed, NEW i \in 1..Count(s)
  PROVE  /\ Written(s, changed, i) \in Seq(RowsOf(R, Count(s)))
         /\ i \in Kept(s, changed) => CopiedRows(Written(s, changed, i), s, Taken(s), i)
         /\ i \notin Kept(s, changed) => EncodedRows(Written(s, changed, i), i)
<1> DEFINE n == Count(s)
           Q == RowsOf(R, n)
           known == Verbatim(s, Starts(s))
           line == Line(s, Starts(s)[i])
           w == Written(s, changed, i)
<1>1. n \in Nat \ {0} /\ Starts(s)[i] = Firsts(s)[i] /\ Firsts(s)[i] \in 1..Len(s)
  BY TakenAre
<1>2. R \subseteq Q /\ Marker \in Q /\ Encoded(i) \in Q
  BY DEF RowsOf
<1>3. CASE ~known
  <2> DEFINE h == IF i > 1 THEN <<Marker>> ELSE << >>
  <2>1. w = h \o <<Encoded(i)>>
    BY <1>3 DEF Written
  <2>2. h \in Seq(Q)
    BY <1>2
  <2>3. IsHead(h, i)
    <3>1. CASE i > 1
      <4>1. h = <<Marker>> /\ Len(<<Marker>>) = 1 /\ <<Marker>>[1] = Marker
        BY <3>1
      <4>2. Marker.text = "---" /\ <<Marker>> # << >> /\ \A p : p \notin 2..1
        BY DEF Marker
      <4> HIDE DEF h
      <4> QED
        BY <4>1, <4>2 DEF IsHead
    <3>2. CASE ~(i > 1)
      <4>1. h = << >> /\ Len(<< >>) = 0 /\ i = 1 /\ \A p : p \notin 2..0
        BY <1>1, <3>2
      <4> HIDE DEF h
      <4> QED
        BY <4>1 DEF IsHead
    <3> QED
      BY <3>1, <3>2
  <2> HIDE DEF h
  <2>4. w \in Seq(Q) /\ EncodedRows(w, i)
    BY <1>2, <2>1, <2>2, <2>3, EncodedRowsAre
  <2>5. i \notin Kept(s, changed)
    BY <1>3 DEF Kept
  <2> QED
    BY <2>4, <2>5
<1>4. CASE known /\ i \in changed
  <2> DEFINE h == IF IsMarker(line) THEN line ELSE << >>
  <2>1. w = h \o <<Encoded(i)>>
    BY <1>4 DEF Written
  <2>2. Starts(s)[i] \in 1..LineCount(s) /\ (i # 1 => IsMarker(line))
    <3>1. CASE i = 1
      <4>1. Firsts(s)[1] = 1
        BY TakenAre
      <4>2. LineCount(s) \in Nat \ {0}
        BY LinesAre
      <4>3. 1 \in 1..LineCount(s)
        BY <4>2
      <4> QED
        BY <1>1, <3>1, <4>1, <4>3
    <3>2. CASE i # 1
      <4>1. i \in 2..n
        BY <1>1, <3>2
      <4>2. Starts(s)[i] <= LineCount(s) /\ IsMarker(line)
        BY <1>4, <4>1 DEF Verbatim
      <4>3. LineCount(s) \in Nat
        BY LinesAre
      <4>4. Starts(s)[i] \in 1..LineCount(s)
        BY <1>1, <4>2, <4>3
      <4> QED
        BY <4>2, <4>4
    <3> QED
      BY <3>1, <3>2
  <2>3. h \in Seq(Q) /\ IsHead(h, i)
    <3>1. CASE IsMarker(line)
      <4> DEFINE k == Starts(s)[i]
      <4>1. k \in 1..LineCount(s) /\ IsMarker(Line(s, k))
        BY <2>2, <3>1
      <4>2. MarkerRows(R, s, k)
        <5> HIDE DEF k
        <5> QED
          BY <4>1, MarkerIs
      <4>3. line \in Seq(R) /\ line # << >> /\ line[1].text = "---" /\ \A p \in 2..Len(line) : line[p].text = ""
        BY <4>2 DEF MarkerRows
      <4>4. h = line
        BY <3>1
      <4> HIDE DEF h, line
      <4>5. line \in Seq(Q)
        BY <1>2, <4>3, SeqMonotonic
      <4> QED
        BY <4>3, <4>4, <4>5 DEF IsHead
    <3>2. CASE ~IsMarker(line)
      <4>1. h = << >> /\ Len(<< >>) = 0 /\ i = 1 /\ << >> \in Seq(Q) /\ \A p : p \notin 2..0
        BY <2>2, <3>2
      <4> HIDE DEF h
      <4> QED
        BY <4>1 DEF IsHead
    <3> QED
      BY <3>1, <3>2
  <2> HIDE DEF h
  <2>4. w \in Seq(Q) /\ EncodedRows(w, i)
    BY <1>2, <2>1, <2>3, EncodedRowsAre
  <2>5. i \notin Kept(s, changed)
    BY <1>4 DEF Kept
  <2> QED
    BY <2>4, <2>5
<1>5. CASE known /\ i \notin changed
  <2> DEFINE m == Taken(s)
  <2>1. m[i] = LineStart(s, Starts(s)[i]) /\ m[i + 1] = LineStart(s, Starts(s)[i + 1])
    <3>1. i \in 1..n + 1 /\ i + 1 \in 1..n + 1
      BY <1>1
    <3> QED
      BY <3>1 DEF Taken
  <2>2. w = SubSeq(s, m[i], m[i + 1] - 1)
    BY <1>5, <2>1 DEF Written
  <2>3. Marked(s, n, Firsts(s), m)
    BY <1>5, VerbatimMarks, MarkersAre
  <2>4. m[i] \in 1..Len(s) /\ m[i + 1] \in m[i] + 1..Len(s) + 1
    BY <2>3, MarkBounds
  <2>5. SubSeq(s, m[i], m[i + 1] - 1) \in Seq(R) /\ CopiedRows(SubSeq(s, m[i], m[i + 1] - 1), s, m, i)
    <3> HIDE DEF m
    <3> QED
      BY <2>4, CopiedRowsAre
  <2>6. w \in Seq(Q)
    <3>1. w \in Seq(R)
      BY <2>2, <2>5
    <3> HIDE DEF w, Q
    <3> QED
      BY <1>2, <3>1, SeqMonotonic
  <2>7. i \in Kept(s, changed)
    BY <1>5 DEF Kept
  <2> QED
    BY <2>2, <2>5, <2>6, <2>7
<1> QED
  BY <1>3, <1>4, <1>5

\* The last rows of the pieces, counted by their lengths.
JoinedPiece(out, w, off, i) ==
  /\ off[i - 1] \in Nat
  /\ Len(w[i]) \in Nat
  /\ off[i] = off[i - 1] + Len(w[i])
  /\ \A k \in 1..Len(w[i]) : out[off[i - 1] + k] = w[i][k]

LEMMA JoinedRows ==
  ASSUME NEW Q, NEW out \in Seq(Q), NEW n \in Nat \ {0}, NEW w \in [1..n -> Seq(Q)], NEW off, Joined(out, w, n, off),
         NEW i \in 1..n
  PROVE  JoinedPiece(out, w, off, i)
<1>1. off \in [0..n -> Nat] /\ i - 1 \in 0..n
  BY DEF Joined
<1>2. off[i - 1] \in Nat
  BY <1>1
<1>3. w[i] \in Seq(Q)
  OBVIOUS
<1>4. Len(w[i]) \in Nat
  BY <1>3
<1>5. off[i] = off[i - 1] + Len(w[i])
  BY DEF Joined
<1>6. \A k \in 1..Len(w[i]) : out[off[i - 1] + k] = w[i][k]
  BY DEF Joined
<1> QED
  BY <1>2, <1>4, <1>5, <1>6 DEF JoinedPiece

\* Piece i of what is written is the encoder's: its last row the document, a separator before
\* it when it has rows to spare, and blank rows between.
WrittenPiece(out, off, i) ==
  /\ off[i - 1] < off[i]
  /\ out[off[i]] = Encoded(i)
  /\ off[i] > off[i - 1] + 1 => out[off[i - 1] + 1].text = "---"
  /\ \A p \in off[i - 1] + 2..off[i] - 1 : out[p].text = ""
  /\ i # 1 => off[i] > off[i - 1] + 1

\* An encoded piece in what is written.
LEMMA EncodesPiece ==
  ASSUME NEW Q, NEW out \in Seq(Q), NEW n \in Nat \ {0}, NEW w \in [1..n -> Seq(Q)], NEW off, Joined(out, w, n, off),
         NEW i \in 1..n, EncodedRows(w[i], i)
  PROVE  WrittenPiece(out, off, i)
<1>0. JoinedPiece(out, w, off, i)
  BY JoinedRows
<1>1. PICK o : o = off[i - 1]
  OBVIOUS
<1>2. PICK v : v = w[i]
  OBVIOUS
<1>3. PICK l : l = Len(v)
  OBVIOUS
<1>4. o \in Nat /\ l \in Nat /\ off[i] = o + l
  <2>1. off[i - 1] \in Nat /\ Len(w[i]) \in Nat /\ off[i] = off[i - 1] + Len(w[i])
    BY <1>0 DEF JoinedPiece
  <2> QED
    BY <1>1, <1>2, <1>3, <2>1
<1>5. \A k \in 1..l : out[o + k] = v[k]
  <2>1. \A k \in 1..Len(w[i]) : out[off[i - 1] + k] = w[i][k]
    BY <1>0 DEF JoinedPiece
  <2> QED
    BY <1>1, <1>2, <1>3, <2>1
<1>6. l # 0 /\ v[l] = Encoded(i)
  BY <1>2, <1>3 DEF EncodedRows
<1>7. (l > 1 => v[1].text = "---") /\ \A p \in 2..l - 1 : v[p].text = ""
  BY <1>2, <1>3 DEF EncodedRows
<1>8. i # 1 => l > 1
  BY <1>2, <1>3 DEF EncodedRows
<1>9. PICK e : e = o + l
  OBVIOUS
<1>10. e \in Nat /\ o < e /\ (e > o + 1 <=> l > 1)
  BY <1>4, <1>6, <1>9
<1>11. out[e] = Encoded(i)
  <2>1. l \in 1..l
    BY <1>4, <1>6
  <2> QED
    BY <1>5, <1>6, <1>9, <2>1
<1>12. ASSUME e > o + 1 PROVE out[o + 1].text = "---"
  <2>1. 1 \in 1..l /\ l > 1
    BY <1>4, <1>10, <1>12
  <2> QED
    BY <1>5, <1>7, <2>1
<1>13. ASSUME NEW p \in o + 2..e - 1 PROVE out[p].text = ""
  <2>1. PICK k : k = p - o
    OBVIOUS
  <2>2. p \in Int /\ o + 2 <= p /\ p <= e - 1
    BY <1>4, <1>10
  <2>3. k \in Int /\ 2 <= k /\ k <= l - 1 /\ p = o + k
    <3>1. p - o \in Int /\ 2 <= p - o /\ o + (p - o) = p
      BY <1>4, <2>2
    <3>2. p <= (o + l) - 1
      BY <1>9, <2>2
    <3>3. p - o <= l - 1
      BY <1>4, <2>2, <3>2
    <3> QED
      BY <2>1, <3>1, <3>3
  <2>4. k \in 2..l - 1 /\ k \in 1..l
    BY <1>4, <2>3
  <2>5. out[o + k] = v[k] /\ v[k].text = ""
    BY <1>5, <1>7, <2>4
  <2> QED
    BY <2>3, <2>5
<1> QED
  <2>1. off[i - 1] = o /\ off[i] = e
    BY <1>1, <1>4, <1>9
  <2>2. i # 1 => e > o + 1
    BY <1>8, <1>10
  <2> QED
    BY <1>10, <1>11, <1>12, <1>13, <2>1, <2>2 DEF WrittenPiece

\* A copied piece in what is written.
CopiedPiece(out, s, m, off, i) ==
  /\ off[i - 1] < off[i]
  /\ off[i] = off[i - 1] + (m[i + 1] - m[i])
  /\ \A k \in 0..m[i + 1] - m[i] - 1 : out[off[i - 1] + 1 + k] = s[m[i] + k]

LEMMA CopiesPiece ==
  ASSUME NEW Q, NEW out \in Seq(Q), NEW n \in Nat \ {0}, NEW w \in [1..n -> Seq(Q)], NEW off, Joined(out, w, n, off),
         NEW i \in 1..n, NEW s, NEW m, m[i] \in Nat, m[i + 1] \in Nat, m[i] < m[i + 1], CopiedRows(w[i], s, m, i)
  PROVE  CopiedPiece(out, s, m, off, i)
<1>0. JoinedPiece(out, w, off, i)
  BY JoinedRows
<1>1. PICK o : o = off[i - 1]
  OBVIOUS
<1>2. PICK v : v = w[i]
  OBVIOUS
<1>3. PICK a : a = m[i]
  OBVIOUS
<1>4. PICK z : z = m[i + 1]
  OBVIOUS
<1>5. a \in Nat /\ z \in Nat /\ a < z
  BY <1>3, <1>4
<1>6. Len(v) = z - a /\ \A k \in 0..z - a - 1 : v[k + 1] = s[a + k]
  BY <1>2, <1>3, <1>4 DEF CopiedRows
<1>7. o \in Nat /\ off[i] = o + Len(v)
  <2>1. off[i - 1] \in Nat /\ off[i] = off[i - 1] + Len(w[i])
    BY <1>0 DEF JoinedPiece
  <2> QED
    BY <1>1, <1>2, <2>1
<1>8. \A k \in 1..Len(v) : out[o + k] = v[k]
  <2>1. \A k \in 1..Len(w[i]) : out[off[i - 1] + k] = w[i][k]
    BY <1>0 DEF JoinedPiece
  <2> QED
    BY <1>1, <1>2, <2>1
<1>9. off[i] = o + (z - a)
  BY <1>6, <1>7
<1>10. o < o + (z - a)
  BY <1>5, <1>7
<1>11. ASSUME NEW k \in 0..z - a - 1 PROVE out[o + 1 + k] = s[a + k]
  <2>1. k + 1 \in 1..z - a /\ o + (k + 1) = o + 1 + k
    BY <1>5, <1>7
  <2>2. out[o + (k + 1)] = v[k + 1]
    BY <1>6, <1>8, <2>1
  <2>3. v[k + 1] = s[a + k]
    BY <1>6
  <2> QED
    BY <2>1, <2>2, <2>3
<1> QED
  BY <1>1, <1>3, <1>4, <1>9, <1>10, <1>11 DEF CopiedPiece

\* What is written, taken apart.
LEMMA RenderedIs ==
  ASSUME NEW R, NEW s \in Seq(R), IsStream(s), NEW first, Begun(s, Count(s), Firsts(s), first), NEW changed
  PROVE  /\ Rendered(s, changed) \in Seq(RowsOf(R, Count(s)))
         /\ \E off : Pieces(s, Rendered(s, changed), Count(s), Firsts(s), Taken(s), first, Kept(s, changed), off)
<1> DEFINE n == Count(s)
           Q == RowsOf(R, n)
           C == Kept(s, changed)
           m == Taken(s)
           w == [i \in 1..n |-> Written(s, changed, i)]
           F == CHOOSE f : f = [i \in 0..n |-> IF i = 0 THEN << >> ELSE f[i - 1] \o Written(s, changed, i)]
           out == Rendered(s, changed)
<1>1. n \in Nat \ {0}
  BY TakenAre
<1>2. \A i \in 1..n : w[i] = Written(s, changed, i)
  OBVIOUS
<1>3. w \in [1..n -> Seq(Q)]
  <2>1. \A i \in 1..n : Written(s, changed, i) \in Seq(Q)
    BY WrittenIs
  <2> HIDE DEF Q
  <2> QED
    BY <2>1
<1>4. out = F[n]
  BY DEF Rendered
<1> HIDE DEF w
<1>5. ASSUME NEW f
      PROVE  Join(f, w, n) <=> f = [i \in 0..n |-> IF i = 0 THEN << >> ELSE f[i - 1] \o Written(s, changed, i)]
  <2>1. \A i \in 0..n : i = 0 \/ i \in 1..n
    BY <1>1
  <2>2. [i \in 0..n |-> IF i = 0 THEN << >> ELSE f[i - 1] \o w[i]]
        = [i \in 0..n |-> IF i = 0 THEN << >> ELSE f[i - 1] \o Written(s, changed, i)]
    BY <1>2, <2>1
  <2> QED
    BY <2>2 DEF Join
<1>6. Join(F, w, n)
  <2>1. PICK f : Join(f, w, n)
    BY <1>1, JoinExists
  <2>2. f = [i \in 0..n |-> IF i = 0 THEN << >> ELSE f[i - 1] \o Written(s, changed, i)]
    BY <1>5, <2>1
  <2>3. F = [i \in 0..n |-> IF i = 0 THEN << >> ELSE F[i - 1] \o Written(s, changed, i)]
    BY <2>2
  <2> HIDE DEF F
  <2> QED
    BY <1>5, <2>3
<1> HIDE DEF F, Q, n, out
<1>7. out \in Seq(Q) /\ \E off : Joined(out, w, n, off)
  <2>1. n \in Nat
    BY <1>1
  <2>2. F[n] \in Seq(Q) /\ \E off : Joined(F[n], w, n, off)
    BY <1>3, <1>6, <2>1, JoinIs
  <2> QED
    BY <1>4, <2>2
<1>8. PICK off : Joined(out, w, n, off)
  BY <1>7
<1> HIDE DEF C, m
<1>9. ASSUME NEW i \in 1..n, i \notin C
      PROVE  /\ off[i - 1] < off[i]
             /\ out[off[i]] = Encoded(i)
             /\ off[i] > off[i - 1] + 1 => out[off[i - 1] + 1].text = "---"
             /\ \A p \in off[i - 1] + 2..off[i] - 1 : out[p].text = ""
             /\ i # 1 => off[i] > off[i - 1] + 1
  <2>1. EncodedRows(w[i], i)
    BY <1>2, <1>9, WrittenIs DEF n, C
  <2>2. WrittenPiece(out, off, i)
    BY <1>1, <1>3, <1>7, <1>8, <2>1, EncodesPiece
  <2> QED
    BY <2>2 DEF WrittenPiece
<1>10. C # {} => Marked(s, n, Firsts(s), m)
  BY VerbatimMarks, MarkersAre DEF C, Kept, m, n
<1>11. ASSUME NEW i \in C
       PROVE  /\ i \in 1..n
              /\ off[i - 1] < off[i]
              /\ off[i] = off[i - 1] + (m[i + 1] - m[i])
              /\ \A k \in 0..m[i + 1] - m[i] - 1 : out[off[i - 1] + 1 + k] = s[m[i] + k]
  <2>1. i \in 1..n
    BY DEF C, Kept, n
  <2>2. CopiedRows(w[i], s, m, i)
    BY <1>2, <2>1, WrittenIs DEF n, C, m
  <2>3. Begun(s, n, Firsts(s), first) /\ Marked(s, n, Firsts(s), m)
    BY <1>10 DEF n
  <2>4. m[i] \in 1..Len(s) /\ m[i + 1] \in m[i] + 1..Len(s) + 1
    BY <2>1, <2>3, MarkBounds
  <2>5. m[i] \in Nat /\ m[i + 1] \in Nat /\ m[i] < m[i + 1]
    <3>1. Len(s) \in Nat
      OBVIOUS
    <3>2. m[i] \in Nat
      BY <2>4, <3>1
    <3> QED
      BY <2>4, <3>1, <3>2
  <2>6. CopiedPiece(out, s, m, off, i)
    BY <1>1, <1>3, <1>7, <1>8, <2>1, <2>2, <2>5, CopiesPiece
  <2> QED
    BY <2>1, <2>6 DEF CopiedPiece
<1>12. /\ off \in [0..n -> Nat] /\ off[0] = 0 /\ off[n] = Len(out)
       /\ \A p \in 1..Len(out) : \E i \in 1..n : p \in off[i - 1] + 1..off[i]
  BY <1>8 DEF Joined
<1>13. C \in SUBSET (1..n)
  BY DEF C, Kept, n
<1>14. Placed(s, out, n, m, C, off)
  <2>1. \A i \in 1..n : off[i - 1] < off[i]
    BY <1>9, <1>11
  <2>2. \A i \in C : off[i] = off[i - 1] + (m[i + 1] - m[i])
    BY <1>11
  <2> QED
    BY <1>1, <1>12, <1>13, <2>1, <2>2 DEF Placed
<1>15. CopiesOf(s, out, m, C, off)
  BY <1>11 DEF CopiesOf
<1>16. EncodesOthers(out, n, C, off)
  BY <1>9 DEF EncodesOthers
<1>17. Begun(s, n, Firsts(s), first)
  BY DEF n
<1>18. Pieces(s, out, n, Firsts(s), m, first, C, off)
  BY <1>10, <1>14, <1>15, <1>16, <1>17 DEF Pieces
<1> QED
  BY <1>7, <1>18 DEF n, out, m, C, Q

\* Runs of the same rows are the same sequence.
Run(s, a, l) == SubSeq(s, a, a + l - 1)
SameRun(out, a, s, c, l) ==
  /\ a \in Nat \ {0} /\ c \in Nat \ {0} /\ l \in Nat
  /\ a + l <= Len(out) + 1 /\ c + l <= Len(s) + 1
  /\ \A k \in 0..l - 1 : out[a + k] = s[c + k]

LEMMA SameRunIs ==
  ASSUME NEW Q, NEW out \in Seq(Q), NEW s \in Seq(Q), NEW a, NEW c, NEW l, SameRun(out, a, s, c, l)
  PROVE  Run(out, a, l) = Run(s, c, l)
<1>1. /\ a \in Nat \ {0} /\ c \in Nat \ {0} /\ l \in Nat
      /\ a + l <= Len(out) + 1 /\ c + l <= Len(s) + 1
      /\ \A k \in 0..l - 1 : out[a + k] = s[c + k]
  BY DEF SameRun
<1>2. Len(out) \in Nat /\ Len(s) \in Nat
  OBVIOUS
<1> DEFINE u == SubSeq(out, a, a + l - 1)
           v == SubSeq(s, c, c + l - 1)
<1>3. u \in Seq(Q) /\ Len(u) = l /\ \A k \in 1..l : u[k] = out[a + (k - 1)]
  <2>1. \A k \in a..a + l - 1 : k \in 1..Len(out)
    BY <1>1, <1>2
  <2>2. a + l - 1 - a + 1 = l
    BY <1>1
  <2>3. \A k \in 1..l : a + k - 1 = a + (k - 1)
    BY <1>1
  <2> QED
    BY <1>1, <1>2, <2>1, <2>2, <2>3, SubSeqProperties
<1>4. v \in Seq(Q) /\ Len(v) = l /\ \A k \in 1..l : v[k] = s[c + (k - 1)]
  <2>1. \A k \in c..c + l - 1 : k \in 1..Len(s)
    BY <1>1, <1>2
  <2>2. c + l - 1 - c + 1 = l
    BY <1>1
  <2>3. \A k \in 1..l : c + k - 1 = c + (k - 1)
    BY <1>1
  <2> QED
    BY <1>1, <1>2, <2>1, <2>2, <2>3, SubSeqProperties
<1> HIDE DEF u, v
<1>5. \A k \in 1..l : u[k] = v[k]
  <2>1. \A k \in 1..l : k - 1 \in 0..l - 1
    BY <1>1
  <2> QED
    BY <1>1, <1>3, <1>4, <2>1
<1>6. u = v
  BY <1>3, <1>4, <1>5, SeqEqual
<1> QED
  BY <1>6 DEF u, v, Run

\* A plain document that did not change is copied row by row.
LEMMA PlainDocument ==
  ASSUME NEW R, NEW s \in Seq(R), NEW Q, R \subseteq Q, NEW out \in Seq(Q), NEW n, NEW b, NEW m, NEW first, NEW C,
         NEW off, Pieces(s, out, n, b, m, first, C, off),
         \A j \in 1..n + 1 : b[j] = From(s, j), \A j \in 1..n + 1 : m[j] = b[j],
         NEW i \in C
  PROVE  Rows(out, i) = Rows(s, i)
<1>1. n \in Nat \ {0} /\ i \in 1..n /\ Placed(s, out, n, m, C, off) /\ off[0] = 0
  BY CopyBounds DEF Pieces, Placed
<1>2. i \in 1..n + 1 /\ i + 1 \in 1..n + 1
  BY <1>1
<1> DEFINE o == off[i - 1]
           c == m[i]
           d == m[i + 1]
<1>3. c \in 1..Len(s) /\ d \in c + 1..Len(s) + 1 /\ o \in Nat /\ off[i] \in 1..Len(out)
  BY CopyBounds
<1>4. off[i] = o + (d - c)
  BY CopyBounds
<1>5. From(s, i) = c /\ From(s, i + 1) = d
  BY <1>2
<1>6. From(out, i + 1) = o + 1 + (d - c)
  <2>1. From(out, i + 1) = off[i - 1] + 1 + (b[i + 1] - m[i])
    BY <1>1, LastRows
  <2>2. b[i + 1] = m[i + 1]
    BY <1>2
  <2> QED
    BY <2>1, <2>2
<1>7. From(out, i) = o + 1
  <2>1. CASE i = 1
    <3>1. From(out, 1) = 1
      BY DocumentsOut
    <3> QED
      BY <1>1, <2>1, <3>1
  <2>2. CASE i # 1
    <3> DEFINE j == i - 1
    <3>1. j \in 1..n /\ j + 1 = i /\ j \in 1..n + 1
      BY <1>1, <2>2
    <3> SUFFICES From(out, i) = off[j] + 1
      OBVIOUS
    <3>2. CASE j \notin C
      <4> HIDE DEF j
      <4>1. From(out, j + 1) = off[j] + 1
        BY <3>1, <3>2, LastRows
      <4> QED
        BY <3>1, <4>1
    <3>3. CASE j \in C
      <4> HIDE DEF j
      <4>1. From(out, j + 1) = off[j - 1] + 1 + (b[j + 1] - m[j])
        BY <3>1, <3>3, LastRows
      <4>2. off[j] = off[j - 1] + (m[j + 1] - m[j]) /\ off[j - 1] \in Nat
        BY <3>3, CopyBounds
      <4>3. m[j] \in 1..Len(s) /\ m[j + 1] \in m[j] + 1..Len(s) + 1
        BY <3>3, CopyBounds
      <4>4. m[j] \in Int /\ m[j + 1] \in Int /\ off[j - 1] \in Int
        BY <4>2, <4>3
      <4>5. b[j + 1] = m[j + 1]
        BY <1>2, <3>1
      <4>6. off[j - 1] + 1 + (m[j + 1] - m[j]) = off[j - 1] + (m[j + 1] - m[j]) + 1
        BY <4>4, SMTT(30)
      <4> QED
        BY <3>1, <4>1, <4>2, <4>5, <4>6
    <3> QED
      BY <3>2, <3>3
  <2> QED
    BY <2>1, <2>2
<1>8. \A p \in c..d - 1 : out[p + (o + 1 - c)] = s[p]
  <2>1. \A p \in m[i]..b[i + 1] - 1 : out[p + (off[i - 1] + 1 - m[i])] = s[p]
    BY <1>1, CopiesDocument
  <2>2. b[i + 1] = m[i + 1]
    BY <1>2
  <2> QED
    BY <2>1, <2>2
<1> DEFINE l == d - c
<1>9. Len(s) \in Nat /\ Len(out) \in Nat
  OBVIOUS
<1> HIDE DEF c, d, o
<1>10. c \in Nat \ {0} /\ d \in Nat /\ c < d /\ d <= Len(s) + 1
  <2>1. c \in Nat \ {0}
    BY <1>3, <1>9
  <2> QED
    BY <1>3, <1>9, <2>1
<1>11. l \in Nat /\ c + l = d
  BY <1>10
<1>12. o + 1 + l <= Len(out) + 1
  <2>1. o + (d - c) <= Len(out)
    BY <1>3, <1>4, <1>9
  <2> QED
    BY <1>3, <1>9, <1>10, <2>1
<1>13. ASSUME NEW k \in 0..l - 1 PROVE out[o + 1 + k] = s[c + k]
  <2>1. c + k \in c..d - 1 /\ (c + k) + (o + 1 - c) = o + 1 + k
    BY <1>3, <1>10
  <2> QED
    BY <1>8, <2>1
<1>14. SameRun(out, o + 1, s, c, l)
  <2>1. o + 1 \in Nat \ {0} /\ c + l <= Len(s) + 1
    BY <1>3, <1>10, <1>11
  <2> HIDE DEF l
  <2> QED
    BY <1>10, <1>11, <1>12, <1>13, <2>1 DEF SameRun
<1> DEFINE a == o + 1
           e == o + 1 + (d - c)
<1>15. e - 1 = a + l - 1 /\ d - 1 = c + l - 1
  BY <1>3, <1>10
<1>16. SubSeq(out, a, a + l - 1) = SubSeq(s, c, c + l - 1)
  <2>1. s \in Seq(Q) /\ SameRun(out, a, s, c, l)
    BY <1>14, SeqMonotonic
  <2> HIDE DEF l, a
  <2>2. Run(out, a, l) = Run(s, c, l)
    BY <2>1, SameRunIs
  <2> QED
    BY <2>2 DEF Run
<1> HIDE DEF a, e, l
<1>17. Rows(out, i) = SubSeq(out, a, a + l - 1)
  <2>1. From(out, i) = a /\ From(out, i + 1) = e
    BY <1>6, <1>7 DEF a, e
  <2> QED
    BY <1>15, <2>1 DEF Rows
<1>18. Rows(s, i) = SubSeq(s, c, c + l - 1)
  BY <1>5, <1>15 DEF Rows
<1> QED
  BY <1>16, <1>17, <1>18

\* What render writes is the stream of the edited documents.
LEMMA RenderedIsTheEdited ==
  ASSUME NEW R, NEW s \in Seq(R), IsStream(s), Count(s) # 0, NEW changed
  PROVE  IsTheEdited(Rendered(s, changed), s, changed)
<1> DEFINE n == Count(s)
           b == Firsts(s)
           m == Taken(s)
           C == Kept(s, changed)
           Q == RowsOf(R, n)
           out == Rendered(s, changed)
<1>1. PICK first : Begun(s, n, b, first)
  BY DocumentsAre DEF Firsts
<1>2. out \in Seq(Q) /\ R \subseteq Q
  BY <1>1, RenderedIs DEF RowsOf
<1>3. PICK off : Pieces(s, out, n, b, m, first, C, off)
  BY <1>1, RenderedIs
<1>4. \A j \in 1..n + 1 : b[j] = From(s, j)
  BY DEF Firsts
<1>5. IsPlain(s) => Verbatim(s, Starts(s)) /\ \A j \in 1..n + 1 : m[j] = b[j]
  BY <1>1, PlainIsVerbatim
<1>6. \A i \in C : i \notin changed
  BY DEF Kept
<1>7. \A i \in 1..n : i \notin C /\ Verbatim(s, Starts(s)) => i \in changed
  BY DEF Kept
<1> HIDE DEF n, b, m, C, Q, out
<1>8. IsStream(out)
  BY <1>2, <1>3, WrittenIsStream
<1>9. Count(out) = n
  BY <1>2, <1>3, DocumentsOut
<1>10. ASSUME NEW i \in 1..n, i \notin C PROVE IsEncoded(out, i) /\ (IsPlain(s) => i \in changed)
  <2>1. i \in (1..n) \ C
    BY <1>10
  <2> QED
    BY <1>2, <1>3, <1>5, <1>7, <1>10, <2>1, EncodesDocument
<1>11. ASSUME NEW i \in 1..n, i \in C
       PROVE  i \notin changed /\ IsCopied(out, s, i) /\ (IsPlain(s) => Rows(out, i) = Rows(s, i))
  <2>1. IsCopied(out, s, i)
    BY <1>2, <1>3, <1>4, <1>11, CopiesDocument
  <2>2. ASSUME IsPlain(s) PROVE Rows(out, i) = Rows(s, i)
    <3>1. \A j \in 1..n + 1 : m[j] = b[j]
      BY <1>5, <2>2
    <3> QED
      BY <1>2, <1>3, <1>4, <1>11, <3>1, PlainDocument
  <2> QED
    BY <1>6, <1>11, <2>1, <2>2
<1> QED
  BY <1>8, <1>9, <1>10, <1>11 DEF IsTheEdited, n, out

\* A stream of which nothing changed is its own.
LEMMA UnchangedIsTheEdited ==
  ASSUME NEW R, NEW s \in Seq(R), IsStream(s)
  PROVE  IsTheEdited(s, s, {})
<1>1. Len(s) \in Nat /\ 0 \in -Len(s)..Len(s)
  OBVIOUS
<1>2. ASSUME NEW i PROVE IsCopied(s, s, i)
  <2>1. \A p \in Parts(s, i) : p + 0 = p
    <3>1. \A p \in Int : p + 0 = p
      OBVIOUS
    <3>2. \A a, z : \A p \in a..z : p \in Int
      OBVIOUS
    <3> QED
      BY <3>1, <3>2 DEF Parts
  <2>2. Parts(s, i) = {p + 0 : p \in Parts(s, i)} /\ \A p \in Parts(s, i) : s[p + 0] = s[p]
    BY <2>1
  <2> QED
    BY <1>1, <2>2 DEF IsCopied
<1> QED
  BY <1>2 DEF IsTheEdited

\* The manifest that is returned is the stream of the edited documents, however the
\* documents are divided and wherever lines end: each document once and in order, as
\* edited or copied, and copied row by row if it is one of a plain stream and did not
\* change.
THEOREM ManifestsAreTheEdits == Spec => []ManifestIsTheEdit
<1>1. StreamsAreRead
  BY StreamsAssumption
<1>2. IInv => ManifestIsTheEdit
  <2> SUFFICES ASSUME IInv, NEW s \in Streams, Count(s) = Len(tree)
               PROVE  IsTheEdited(Output(s), s, Changed)
    BY DEF ManifestIsTheEdit
  <2>1. s \in Seq(ToSet(s)) /\ IsStream(s)
    BY <1>1 DEF StreamsAreRead
  <2>2. CASE Changed = {}
    <3>1. IsTheEdited(s, s, {})
      BY <2>1, UnchangedIsTheEdited
    <3> QED
      BY <2>2, <3>1 DEF Output
  <2>3. CASE Changed # {}
    <3>1. DOMAIN tree # {}
      BY <2>3 DEF Changed
    <3>2. PICK S : tree \in Seq(S)
      BY DEF IInv, Types, Documents
    <3>3. DOMAIN tree = 1..Len(tree)
      BY <3>2, LenProperties
    <3>4. Count(s) # 0
      <4>1. 1..0 = {}
        OBVIOUS
      <4> QED
        BY <3>1, <3>3, <4>1
    <3>5. IsTheEdited(Rendered(s, Changed), s, Changed)
      <4> DEFINE R == ToSet(s)
      <4>1. s \in Seq(R)
        BY <2>1
      <4> HIDE DEF R
      <4> QED
        BY <2>1, <3>4, <4>1, RenderedIsTheEdited
    <3> QED
      BY <2>3, <3>5 DEF Output
  <2> QED
    BY <2>2, <2>3
<1> QED
  BY <1>2, FixerInvariant, PTL
=============================================================================
