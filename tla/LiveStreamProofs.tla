-------------------------- MODULE LiveStreamProofs --------------------------
(***************************************************************************)
(* Theorems about LiveStream: for every number of goroutines and clients,  *)
(* every size of the store and of the channels.                            *)
(***************************************************************************)
EXTENDS LiveStream, TLAPS

Elems(s) == {s[i] : i \in DOMAIN s}

Distinct(s) == \A i, j \in DOMAIN s : i # j => s[i] # s[j]

-----------------------------------------------------------------------------
(***************************************************************************)
(* The operators on sequences.                                             *)
(***************************************************************************)
LEMMA SeqFacts ==
  ASSUME NEW S, NEW s \in Seq(S)
  PROVE  /\ DOMAIN s = 1..Len(s) /\ Len(s) \in Nat
         /\ \A i \in 1..Len(s) : s[i] \in S /\ s[i] \in Elems(s)
         /\ Elems(s) \subseteq S
         /\ \A e \in Elems(s) : \E i \in 1..Len(s) : s[i] = e
<1>1. DOMAIN s = 1..Len(s) /\ Len(s) \in Nat /\ \A i \in 1..Len(s) : s[i] \in S
  OBVIOUS
<1> QED
  BY <1>1 DEF Elems

LEMMA AppendFacts ==
  ASSUME NEW S, NEW s \in Seq(S), NEW e \in S
  PROVE  /\ Append(s, e) \in Seq(S)
         /\ Len(Append(s, e)) = Len(s) + 1
         /\ \A i \in 1..Len(s) : Append(s, e)[i] = s[i]
         /\ Append(s, e)[Len(s) + 1] = e
         /\ Elems(Append(s, e)) = Elems(s) \cup {e}
         /\ Distinct(s) /\ e \notin Elems(s) => Distinct(Append(s, e))
<1> DEFINE t == Append(s, e)
<1>1. /\ t \in Seq(S) /\ Len(t) = Len(s) + 1 /\ t[Len(s) + 1] = e
      /\ \A i \in 1..Len(s) : t[i] = s[i]
  OBVIOUS
<1>2. DOMAIN s = 1..Len(s) /\ Len(s) \in Nat
  OBVIOUS
<1> HIDE DEF t
<1>3. DOMAIN t = 1..Len(s) + 1
  BY <1>1
<1>4. Elems(t) = Elems(s) \cup {e}
  BY <1>1, <1>2, <1>3 DEF Elems
<1>5. ASSUME Distinct(s), e \notin Elems(s)
      PROVE  Distinct(t)
  BY <1>1, <1>2, <1>3, <1>5 DEF Distinct, Elems
<1> QED
  BY <1>1, <1>4, <1>5 DEF t

LEMMA TailFacts ==
  ASSUME NEW S, NEW s \in Seq(S), s # << >>
  PROVE  /\ Head(s) \in S /\ Head(s) = s[1]
         /\ Tail(s) \in Seq(S) /\ Len(Tail(s)) = Len(s) - 1 /\ Len(s) \in Nat \ {0}
         /\ \A i \in 1..Len(s) - 1 : Tail(s)[i] = s[i + 1]
         /\ Elems(s) = {Head(s)} \cup Elems(Tail(s))
         /\ Distinct(s) => Distinct(Tail(s)) /\ Head(s) \notin Elems(Tail(s))
<1> DEFINE t == Tail(s)
           h == Head(s)
<1>1. /\ t \in Seq(S) /\ Len(t) = Len(s) - 1 /\ Len(s) \in Nat \ {0} /\ h = s[1] /\ h \in S
      /\ \A i \in 1..Len(s) - 1 : t[i] = s[i + 1]
  OBVIOUS
<1>2. DOMAIN s = 1..Len(s)
  OBVIOUS
<1> HIDE DEF t, h
<1>3. DOMAIN t = 1..Len(s) - 1
  BY <1>1
<1>4. \A i \in 1..Len(s) - 1 : i + 1 \in 1..Len(s)
  BY <1>1
<1>5. \A i \in 1..Len(s) : i # 1 => i - 1 \in 1..Len(s) - 1 /\ (i - 1) + 1 = i
  BY <1>1
<1>6. Elems(s) = {h} \cup Elems(t)
  <2>1. h \in Elems(s)
    BY <1>1, <1>2 DEF Elems
  <2>2. ASSUME NEW e \in Elems(t)
        PROVE  e \in Elems(s)
    <3>1. PICK i \in 1..Len(s) - 1 : e = t[i]
      BY <1>3 DEF Elems
    <3>2. i + 1 \in DOMAIN s /\ s[i + 1] = e
      BY <1>1, <1>2, <1>4, <3>1
    <3> QED
      BY <3>2 DEF Elems
  <2>3. ASSUME NEW e \in Elems(s), e # h
        PROVE  e \in Elems(t)
    <3>1. PICK i \in 1..Len(s) : e = s[i]
      BY <1>2 DEF Elems
    <3>2. i - 1 \in DOMAIN t /\ t[i - 1] = e
      BY <1>1, <1>3, <1>5, <2>3, <3>1
    <3> QED
      BY <3>2 DEF Elems
  <2> QED
    BY <2>1, <2>2, <2>3
<1>7. ASSUME Distinct(s)
      PROVE  Distinct(t) /\ h \notin Elems(t)
  <2>1. ASSUME NEW i \in DOMAIN t, NEW j \in DOMAIN t, i # j
        PROVE  t[i] # t[j]
    <3>1. i + 1 \in DOMAIN s /\ j + 1 \in DOMAIN s /\ i + 1 # j + 1 /\ t[i] = s[i + 1] /\ t[j] = s[j + 1]
      BY <1>1, <1>2, <1>3, <1>4, <2>1
    <3> QED
      BY <1>7, <3>1 DEF Distinct
  <2>2. ASSUME NEW i \in DOMAIN t
        PROVE  t[i] # h
    <3>1. i + 1 \in DOMAIN s /\ 1 \in DOMAIN s /\ i + 1 # 1 /\ t[i] = s[i + 1] /\ h = s[1]
      BY <1>1, <1>2, <1>3, <1>4
    <3> QED
      BY <1>7, <3>1 DEF Distinct
  <2> QED
    BY <2>1, <2>2 DEF Distinct, Elems
<1> QED
  BY <1>1, <1>6, <1>7 DEF t, h

LEMMA ConcatFacts ==
  ASSUME NEW S, NEW s \in Seq(S), NEW t \in Seq(S)
  PROVE  /\ s \o t \in Seq(S) /\ Len(s \o t) = Len(s) + Len(t)
         /\ Len(s) \in Nat /\ Len(t) \in Nat
         /\ \A i \in 1..Len(s) : (s \o t)[i] = s[i]
         /\ \A i \in 1..Len(t) : (s \o t)[Len(s) + i] = t[i]
  OBVIOUS

LEMMA SameSeq ==
  ASSUME NEW S, NEW s \in Seq(S), NEW t \in Seq(S), Len(s) = Len(t),
         \A i \in 1..Len(s) : s[i] = t[i]
  PROVE  s = t
  OBVIOUS

\* An event that moves from the channel to the handler, and from the handler to the
\* client, stays where it is in what the client receives.
LEMMA ReceiveKeeps ==
  ASSUME NEW S, NEW d \in Seq(S), NEW c \in Seq(S), c # << >>
  PROVE  d \o << >> \o c = d \o <<Head(c)>> \o Tail(c)
<1> DEFINE h == <<Head(c)>>
           a == d \o << >> \o c
           b == d \o h \o Tail(c)
<1>1. Head(c) \in S /\ Tail(c) \in Seq(S) /\ Len(Tail(c)) = Len(c) - 1 /\ Len(c) \in Nat \ {0}
      /\ Head(c) = c[1] /\ \A i \in 1..Len(c) - 1 : Tail(c)[i] = c[i + 1]
  BY TailFacts
<1>2. h \in Seq(S) /\ Len(h) = 1 /\ h[1] = c[1]
  BY <1>1
<1>3. d \o << >> = d
  OBVIOUS
<1> HIDE DEF h
<1>4. /\ d \o h \in Seq(S) /\ Len(d \o h) = Len(d) + 1 /\ Len(d) \in Nat
      /\ \A i \in 1..Len(d) : (d \o h)[i] = d[i]
      /\ (d \o h)[Len(d) + 1] = c[1]
  <2>1. 1 \in 1..Len(h)
    BY <1>2
  <2>2. /\ d \o h \in Seq(S) /\ Len(d \o h) = Len(d) + Len(h) /\ Len(d) \in Nat
        /\ \A i \in 1..Len(d) : (d \o h)[i] = d[i]
        /\ \A i \in 1..Len(h) : (d \o h)[Len(d) + i] = h[i]
    BY <1>2, ConcatFacts
  <2> QED
    BY <1>2, <2>1, <2>2
<1>5. /\ a \in Seq(S) /\ Len(a) = Len(d) + Len(c)
      /\ \A i \in 1..Len(d) : a[i] = d[i]
      /\ \A i \in 1..Len(c) : a[Len(d) + i] = c[i]
  BY <1>3, ConcatFacts
<1>6. /\ b \in Seq(S) /\ Len(b) = Len(d) + 1 + (Len(c) - 1)
      /\ \A i \in 1..Len(d) + 1 : b[i] = (d \o h)[i]
      /\ \A i \in 1..Len(c) - 1 : b[Len(d) + 1 + i] = c[i + 1]
  <2> DEFINE u == d \o h
             v == Tail(c)
  <2>1. u \in Seq(S) /\ Len(u) = Len(d) + 1 /\ b = u \o Tail(c)
    BY <1>4
  <2> HIDE DEF u, v
  <2>2. /\ u \o v \in Seq(S) /\ Len(u \o v) = Len(u) + Len(v)
        /\ \A i \in 1..Len(u) : (u \o v)[i] = u[i]
        /\ \A i \in 1..Len(v) : (u \o v)[Len(u) + i] = v[i]
    <3>1. u \in Seq(S) /\ v \in Seq(S)
      BY <1>1, <2>1 DEF v
    <3> QED
      BY <3>1, ConcatFacts
  <2>3. b = u \o v
    BY <2>1 DEF v
  <2> HIDE DEF b
  <2> QED
    BY <1>1, <2>1, <2>2, <2>3 DEF u, v
<1> HIDE DEF a, b
<1>7. Len(a) = Len(b)
  BY <1>1, <1>4, <1>5, <1>6
<1>8. ASSUME NEW i \in 1..Len(a)
      PROVE  a[i] = b[i]
  <2>1. CASE i \in 1..Len(d)
    <3>1. i \in 1..Len(d) + 1
      BY <1>4, <2>1
    <3> QED
      BY <1>4, <1>5, <1>6, <2>1, <3>1
  <2>2. CASE i = Len(d) + 1
    BY <1>1, <1>4, <1>5, <1>6, <2>2, SMTT(20)
  <2>3. CASE i \notin 1..Len(d) + 1
    <3>1. /\ i - Len(d) \in 1..Len(c) /\ Len(d) + (i - Len(d)) = i
          /\ i - Len(d) - 1 \in 1..Len(c) - 1 /\ Len(d) + 1 + (i - Len(d) - 1) = i
          /\ (i - Len(d) - 1) + 1 = i - Len(d)
      BY <1>1, <1>4, <1>5, <2>3
    <3>2. a[i] = c[i - Len(d)]
      BY <1>5, <3>1
    <3>3. b[i] = c[i - Len(d)]
      BY <1>6, <3>1
    <3> QED
      BY <3>2, <3>3
  <2> QED
    BY <1>4, <2>1, <2>2, <2>3
<1>9. a = b
  BY <1>5, <1>6, <1>7, <1>8, SameSeq
<1> QED
  BY <1>9 DEF a, b, h

LEMMA WrittenKeeps ==
  ASSUME NEW S, NEW d \in Seq(S), NEW c \in Seq(S), NEW w \in S
  PROVE  d \o <<w>> \o c = Append(d, w) \o << >> \o c
<1>1. d \o <<w>> = Append(d, w) /\ Append(d, w) \in Seq(S)
  OBVIOUS
<1>2. Append(d, w) \o << >> = Append(d, w)
  BY <1>1
<1> QED
  BY <1>1, <1>2

LEMMA SendKeeps ==
  ASSUME NEW S, NEW s \in Seq(S), NEW c \in Seq(S), NEW e \in S
  PROVE  s \o Append(c, e) = Append(s \o c, e)
<1> DEFINE a == s \o Append(c, e)
           b == Append(s \o c, e)
<1>1. /\ Append(c, e) \in Seq(S) /\ Len(Append(c, e)) = Len(c) + 1 /\ Append(c, e)[Len(c) + 1] = e
      /\ \A i \in 1..Len(c) : Append(c, e)[i] = c[i]
  BY AppendFacts
<1>2. /\ a \in Seq(S) /\ Len(a) = Len(s) + (Len(c) + 1) /\ Len(s) \in Nat /\ Len(c) \in Nat
      /\ \A i \in 1..Len(s) : a[i] = s[i]
      /\ \A i \in 1..Len(c) + 1 : a[Len(s) + i] = Append(c, e)[i]
  BY <1>1, ConcatFacts
<1>3. /\ s \o c \in Seq(S) /\ Len(s \o c) = Len(s) + Len(c)
      /\ \A i \in 1..Len(s) : (s \o c)[i] = s[i]
      /\ \A i \in 1..Len(c) : (s \o c)[Len(s) + i] = c[i]
  BY ConcatFacts
<1>4. /\ b \in Seq(S) /\ Len(b) = Len(s) + Len(c) + 1 /\ b[Len(s) + Len(c) + 1] = e
      /\ \A i \in 1..Len(s) + Len(c) : b[i] = (s \o c)[i]
  BY <1>3, AppendFacts
<1> HIDE DEF a, b
<1>5. ASSUME NEW i \in 1..Len(a)
      PROVE  a[i] = b[i]
  <2>1. CASE i \in 1..Len(s)
    <3>1. i \in 1..Len(s) + Len(c)
      BY <1>2, <2>1
    <3> QED
      BY <1>2, <1>3, <1>4, <2>1, <3>1
  <2>2. CASE i = Len(s) + Len(c) + 1
    <3>1. Len(c) + 1 \in 1..Len(c) + 1 /\ Len(s) + (Len(c) + 1) = i
      BY <1>2, <2>2
    <3>2. a[Len(s) + (Len(c) + 1)] = e
      BY <1>1, <1>2, <3>1
    <3> QED
      BY <1>4, <2>2, <3>1, <3>2
  <2>3. CASE i \notin 1..Len(s) /\ i # Len(s) + Len(c) + 1
    <3>1. i - Len(s) \in 1..Len(c) /\ Len(s) + (i - Len(s)) = i
      BY <1>2, <2>3
    <3>2. a[i] = c[i - Len(s)]
      BY <1>1, <1>2, <3>1
    <3>3. b[i] = c[i - Len(s)]
      BY <1>2, <1>3, <1>4, <3>1
    <3> QED
      BY <3>2, <3>3
  <2> QED
    BY <2>1, <2>2, <2>3
<1>6. a = b
  BY <1>2, <1>4, <1>5, SameSeq
<1> QED
  BY <1>6 DEF a, b

\* What the ring retains of a sequence.
LEMMA LastNFacts ==
  ASSUME NEW S, NEW s \in Seq(S), NEW n \in Nat
  PROVE  LET t == Store!LastN(s, n)
         IN  /\ t \in Seq(S) /\ Len(s) \in Nat
             /\ Len(t) = (IF Len(s) <= n THEN Len(s) ELSE n)
             /\ \A j \in 1..Len(t) : t[j] = s[Len(s) - Len(t) + j]
<1>1. CASE Len(s) <= n
  BY <1>1 DEF Store!LastN
<1>2. CASE ~(Len(s) <= n)
  <2> DEFINE t == SubSeq(s, Len(s) - n + 1, Len(s))
  <2>1. t \in Seq(S) /\ Len(t) = n /\ Len(s) \in Nat /\ \A j \in 1..n : t[j] = s[Len(s) - n + j]
    BY <1>2
  <2> QED
    BY <1>2, <2>1 DEF Store!LastN
<1> QED
  BY <1>1, <1>2

-----------------------------------------------------------------------------
(***************************************************************************)
(* What a client received is what the hub took in the places K of f, but   *)
(* for drop, in that order.                                                *)
(***************************************************************************)
Matches(got, K, f, drop) ==
  /\ Elems(got) = {f[k] : k \in K} \ drop
  /\ \A i, j \in DOMAIN got, k, l \in K : got[i] = f[k] /\ got[j] = f[l] => (i < j <=> k < l)

LEMMA MatchSent ==
  ASSUME NEW S, NEW got \in Seq(S), NEW f \in Seq(S), Distinct(f), NEW drop,
         NEW n \in 1..Len(f), NEW lo \in 1..n,
         Matches(got, lo..n - 1, f, drop), f[n] \notin drop
  PROVE  Matches(Append(got, f[n]), lo..n, f, drop)
<1> DEFINE t == Append(got, f[n])
<1>1. /\ f[n] \in S /\ DOMAIN f = 1..Len(f) /\ Len(f) \in Nat
      /\ DOMAIN got = 1..Len(got) /\ Len(got) \in Nat
  OBVIOUS
<1>2. /\ t \in Seq(S) /\ Len(t) = Len(got) + 1 /\ t[Len(got) + 1] = f[n]
      /\ (\A i \in 1..Len(got) : t[i] = got[i])
      /\ Elems(t) = Elems(got) \cup {f[n]}
  BY <1>1, AppendFacts
<1>3. DOMAIN t = 1..Len(got) + 1
  BY <1>2
<1> HIDE DEF t
<1>4. \A k \in lo..n : k \in 1..Len(f) /\ (k = n \/ k \in lo..n - 1)
  BY <1>1
<1>5. \A k \in lo..n - 1 : k \in lo..n /\ k \in 1..Len(f) /\ k # n /\ f[k] # f[n]
  BY <1>1 DEF Distinct
<1>6. n \in lo..n
  BY <1>1
<1>7. {f[k] : k \in lo..n} = {f[k] : k \in lo..n - 1} \cup {f[n]}
  BY <1>4, <1>5, <1>6
<1>8. Elems(t) = {f[k] : k \in lo..n} \ drop
  BY <1>2, <1>7 DEF Matches
<1>9. \A i \in 1..Len(got) : got[i] # f[n]
  BY <1>1, <1>5 DEF Matches, Elems
<1>10. ASSUME NEW i \in DOMAIN t, NEW j \in DOMAIN t, NEW k \in lo..n, NEW l \in lo..n,
              t[i] = f[k], t[j] = f[l]
       PROVE  i < j <=> k < l
  <2>1. /\ i \in 1..Len(got) <=> k \in lo..n - 1
        /\ j \in 1..Len(got) <=> l \in lo..n - 1
    <3>1. \A x \in DOMAIN t, y \in lo..n : t[x] = f[y] => (x \in 1..Len(got) <=> y \in lo..n - 1)
      <4> SUFFICES ASSUME NEW x \in DOMAIN t, NEW y \in lo..n, t[x] = f[y]
                   PROVE  x \in 1..Len(got) <=> y \in lo..n - 1
        OBVIOUS
      <4>1. CASE x \in 1..Len(got)
        BY <1>2, <1>4, <1>9, <4>1
      <4>2. CASE x \notin 1..Len(got)
        <5>1. x = Len(got) + 1
          BY <1>1, <1>3, <4>2
        <5> QED
          BY <1>2, <1>5, <4>2, <5>1
      <4> QED
        BY <4>1, <4>2
    <3> QED
      BY <1>10, <3>1
  <2>2. CASE i \in 1..Len(got) /\ j \in 1..Len(got)
    <3>1. got[i] = f[k] /\ got[j] = f[l] /\ k \in lo..n - 1 /\ l \in lo..n - 1
      BY <1>2, <1>10, <2>1, <2>2
    <3> QED
      BY <1>1, <2>2, <3>1 DEF Matches
  <2>3. CASE i \notin 1..Len(got)
    <3>1. i = Len(got) + 1 /\ k = n
      BY <1>1, <1>3, <1>4, <2>1, <2>3
    <3> QED
      BY <1>1, <1>3, <3>1
  <2>4. CASE i \in 1..Len(got) /\ j \notin 1..Len(got)
    <3>1. j = Len(got) + 1 /\ l = n /\ k \in lo..n - 1
      BY <1>1, <1>3, <1>4, <2>1, <2>4
    <3> QED
      BY <1>1, <2>4, <3>1
  <2> QED
    BY <2>2, <2>3, <2>4
<1>11. Matches(t, lo..n, f, drop)
  BY <1>8, <1>10 DEF Matches
<1> QED
  BY <1>11 DEF t

LEMMA MatchDropped ==
  ASSUME NEW S, NEW got \in Seq(S), NEW f \in Seq(S), Distinct(f), NEW drop,
         NEW n \in 1..Len(f), NEW lo \in 1..n,
         Matches(got, lo..n - 1, f, drop)
  PROVE  Matches(got, lo..n, f, drop \cup {f[n]})
<1>1. DOMAIN f = 1..Len(f) /\ Len(f) \in Nat /\ DOMAIN got = 1..Len(got) /\ Len(got) \in Nat
  OBVIOUS
<1>2. \A k \in lo..n : k \in 1..Len(f) /\ (k = n \/ k \in lo..n - 1)
  BY <1>1
<1>3. \A k \in lo..n - 1 : k \in lo..n /\ k \in 1..Len(f) /\ k # n /\ f[k] # f[n]
  BY <1>1 DEF Distinct
<1>4. Elems(got) = {f[k] : k \in lo..n} \ (drop \cup {f[n]})
  BY <1>2, <1>3 DEF Matches
<1>5. \A i \in DOMAIN got : got[i] # f[n]
  BY <1>4 DEF Elems
<1> QED
  BY <1>2, <1>4, <1>5 DEF Matches

\* Another event at the end of f changes nothing for the places before it.
LEMMA MatchTaken ==
  ASSUME NEW S, NEW got, NEW f \in Seq(S), NEW e \in S, NEW drop,
         NEW K, K \subseteq 1..Len(f), Matches(got, K, f, drop)
  PROVE  Matches(got, K, Append(f, e), drop)
<1>1. \A k \in K : Append(f, e)[k] = f[k]
  BY AppendFacts
<1> HIDE DEF Matches
<1>2. {Append(f, e)[k] : k \in K} = {f[k] : k \in K}
  BY <1>1
<1> QED
  BY <1>1, <1>2 DEF Matches

-----------------------------------------------------------------------------
(***************************************************************************)
(* The inductive invariant, in parts.                                      *)
(***************************************************************************)

\* The store holds the last events in the order of their IDs, all it may hold.
LogInv ==
  /\ Len(log) < nextID
  /\ Len(log) = nextID - 1 \/ Len(log) = MaxEvents
  /\ \A j \in 1..Len(log) : log[j].id = nextID - 1 - Len(log) + j

\* Each stored event is in one outbox, in hub.incoming or fanned out, once, or it was
\* dropped.
OnceInv ==
  /\ \A g \in Ingesters :
       /\ Distinct(outbox[g])
       /\ Elems(outbox[g]) \cap (Elems(incoming) \cup Elems(fanned)) = {}
       /\ \A e \in Elems(outbox[g]) : e.id < nextID
  /\ \A g, h \in Ingesters : g # h => Elems(outbox[g]) \cap Elems(outbox[h]) = {}
  /\ Distinct(incoming)
  /\ Distinct(fanned)
  /\ Elems(incoming) \cap Elems(fanned) = {}
  /\ \A e \in Elems(incoming) \cup Elems(fanned) : e.id < nextID

\* While the hub ranges over its subscribers, it does so for the last event it took.
FanInv ==
  fan = NoFan \/ (fan.todo # {} /\ fanned # << >> /\ fan.event = fanned[Len(fanned)])

HandlersInv ==
  \A s \in Subscribers :
    /\ joinedAt[s] <= Len(fanned)
    /\ s \in fan.todo => joinedAt[s] < Len(fanned)
    /\ handler[s] \in {"none", "adding"} =>
         delivered[s] = << >> /\ chan[s] = << >> /\ dropped[s] = {}
    /\ handler[s] = "writing" => writing[s] \in Event

\* A channel's event is dropped only when the hub took it since it added the channel.
ExactFor(s) ==
  /\ Matches(Received(s), SinceJoined(s), fanned, dropped[s])
  /\ dropped[s] \subseteq {fanned[k] : k \in SinceJoined(s)}

ExactInv ==
  \A s \in Subscribers : handler[s] \in {"streaming", "writing"} => ExactFor(s)

Inv ==
  /\ TypeOK /\ HandlerOwnsItsChannel
  /\ LogInv /\ OnceInv /\ FanInv /\ HandlersInv /\ ExactInv

-----------------------------------------------------------------------------
LEMMA InitInv == Init => Inv
<1> SUFFICES ASSUME Init
             PROVE  Inv
  OBVIOUS
<1>1. Elems(<< >>) = {} /\ Distinct(<< >>)
  BY DEF Elems, Distinct
<1>2. log = << >> /\ nextID = 1 /\ fanned = << >> /\ incoming = << >> /\ fan = NoFan
  BY DEF Init, Store!Init
<1>3. TypeOK
  <2>1. nextID \in 1..MaxIngested + 1
    BY <1>2, LiveStreamAssumption
  <2>2. log \in Seq(Event) /\ Len(log) <= MaxEvents /\ incoming \in Seq(Event) /\ Len(incoming) <= IncomingBuffer
        /\ fanned \in Seq(Event)
    BY <1>2, LiveStreamAssumption
  <2>3. outbox \in [Ingesters -> Seq(Event)] /\ \A g \in Ingesters : Len(outbox[g]) <= MaxBatch
    BY LiveStreamAssumption DEF Init
  <2>4. chan \in [Subscribers -> Seq(Event)] /\ \A s \in Subscribers : Len(chan[s]) <= SubscriberBuffer
    BY LiveStreamAssumption DEF Init
  <2>5. fan \in [event : Event \cup {NoEvent}, todo : SUBSET Subscribers]
    BY <1>2 DEF NoFan
  <2> QED
    BY <2>1, <2>2, <2>3, <2>4, <2>5 DEF Init, TypeOK
<1>4. HandlerOwnsItsChannel
  BY DEF Init, HandlerOwnsItsChannel, Seen, NoFan
<1>5. LogInv
  BY <1>2 DEF LogInv
<1>6. OnceInv
  BY <1>1, <1>2 DEF Init, OnceInv
<1>7. FanInv
  BY <1>2 DEF FanInv
<1>8. HandlersInv
  BY <1>2 DEF Init, HandlersInv, NoFan
<1>9. ExactInv
  BY DEF Init, ExactInv
<1> QED
  BY <1>3, <1>4, <1>5, <1>6, <1>7, <1>8, <1>9 DEF Inv

-----------------------------------------------------------------------------
\* The batch that an ingester stores: new events, in the order of their IDs.
LEMMA IngestFacts ==
  ASSUME TypeOK, NEW g \in Ingesters, Ingest(g)
  PROVE  \E n \in 1..MaxBatch : \E b \in Seq(Event) :
           /\ Len(b) = n /\ Distinct(b)
           /\ \A i \in 1..n : b[i].id = nextID + i - 1
           /\ log' = Store!LastN(log \o b, MaxEvents)
           /\ outbox' = [outbox EXCEPT ![g] = b]
           /\ nextID' = nextID + n
           /\ nextID' \in 1..MaxIngested + 1
<1>1. PICK n \in 1..MaxBatch :
        /\ nextID + n - 1 <= MaxIngested
        /\ LET b == [i \in 1..n |-> [id |-> nextID + i - 1]]
           IN  /\ log' = Store!LastN(log \o b, MaxEvents)
               /\ outbox' = [outbox EXCEPT ![g] = b]
        /\ nextID' = nextID + n
  BY DEF Ingest, Commit, Store!AppendBatch
<1> DEFINE b == [i \in 1..n |-> [id |-> nextID + i - 1]]
<1>2. nextID \in Nat \ {0} /\ nextID <= MaxIngested + 1 /\ n \in Nat \ {0} /\ MaxIngested \in Nat
  BY LiveStreamAssumption DEF TypeOK
<1>3. \A i \in 1..n : nextID + i - 1 \in 1..MaxIngested
  BY <1>1, <1>2
<1>4. \A i \in 1..n : b[i] \in Event /\ b[i].id = nextID + i - 1
  BY <1>3 DEF Event
<1>5. b \in Seq(Event) /\ Len(b) = n /\ DOMAIN b = 1..n
  BY <1>2, <1>4
<1>6. log' = Store!LastN(log \o b, MaxEvents) /\ outbox' = [outbox EXCEPT ![g] = b]
  BY <1>1
<1> HIDE DEF b
<1>7. Distinct(b)
  <2>1. \A i, j \in 1..n : i # j => nextID + i - 1 # nextID + j - 1
    BY <1>2
  <2> QED
    BY <1>4, <1>5, <2>1 DEF Distinct
<1>8. nextID' \in 1..MaxIngested + 1
  BY <1>1, <1>2
<1> QED
  BY <1>1, <1>4, <1>5, <1>6, <1>7, <1>8

LEMMA IngestTypes ==
  ASSUME TypeOK, NEW g \in Ingesters, Ingest(g)
  PROVE  TypeOK'
<1>1. PICK n \in 1..MaxBatch, b \in Seq(Event) :
        /\ Len(b) = n
        /\ log' = Store!LastN(log \o b, MaxEvents)
        /\ outbox' = [outbox EXCEPT ![g] = b]
        /\ nextID' \in 1..MaxIngested + 1
  BY IngestFacts
<1>2. log' \in Seq(Event) /\ Len(log') <= MaxEvents
  <2>1. log \o b \in Seq(Event) /\ MaxEvents \in Nat
    BY LiveStreamAssumption DEF TypeOK
  <2> DEFINE t == Store!LastN(log \o b, MaxEvents)
  <2>2. /\ t \in Seq(Event) /\ Len(log \o b) \in Nat
        /\ Len(t) = IF Len(log \o b) <= MaxEvents THEN Len(log \o b) ELSE MaxEvents
    BY <2>1, LastNFacts
  <2>3. log' = t
    BY <1>1
  <2> HIDE DEF t
  <2> QED
    BY <2>1, <2>2, <2>3
<1>3. outbox' \in [Ingesters -> Seq(Event)] /\ \A h \in Ingesters : Len(outbox'[h]) <= MaxBatch
  <2>1. \A h \in Ingesters : outbox'[h] = b \/ outbox'[h] = outbox[h]
    BY <1>1 DEF TypeOK
  <2> QED
    BY <1>1, <2>1, LiveStreamAssumption DEF TypeOK
<1>4. UNCHANGED <<incoming, hubVars, chan, closed, handler, writing, failing, joinedAt, dropped, delivered>>
  BY DEF Ingest
<1> QED
  BY <1>1, <1>2, <1>3, <1>4 DEF TypeOK, hubVars

\* An offer to a channel leaves it within its capacity.
LEMMA OfferFacts ==
  ASSUME NEW S, NEW c \in Seq(S), NEW e \in S, NEW cap \in Nat, Len(c) <= cap
  PROVE  Offer(c, cap, e) \in Seq(S) /\ Len(Offer(c, cap, e)) <= cap
<1>1. CASE Len(c) < cap
  <2>1. Append(c, e) \in Seq(S) /\ Len(Append(c, e)) = Len(c) + 1 /\ Len(c) \in Nat
    OBVIOUS
  <2> QED
    BY <1>1, <2>1 DEF Offer, HasRoom
<1>2. CASE ~(Len(c) < cap)
  BY <1>2 DEF Offer, HasRoom
<1> QED
  BY <1>1, <1>2

LEMMA PublishTypes ==
  ASSUME TypeOK, NEW g \in Ingesters, Publish(g)
  PROVE  TypeOK'
<1>1. outbox[g] \in Seq(Event) /\ outbox[g] # << >> /\ Len(outbox[g]) <= MaxBatch
      /\ incoming \in Seq(Event) /\ Len(incoming) <= IncomingBuffer
  BY DEF TypeOK, Publish
<1>2. /\ Head(outbox[g]) \in Event /\ Tail(outbox[g]) \in Seq(Event)
      /\ Len(Tail(outbox[g])) <= MaxBatch
  <2>1. Len(Tail(outbox[g])) = Len(outbox[g]) - 1 /\ Len(outbox[g]) \in Nat
    BY <1>1, TailFacts
  <2> QED
    BY <1>1, <2>1, TailFacts, LiveStreamAssumption
<1>3. incoming' \in Seq(Event) /\ Len(incoming') <= IncomingBuffer
  BY <1>1, <1>2, OfferFacts, LiveStreamAssumption DEF Publish
<1>4. outbox' = [outbox EXCEPT ![g] = Tail(outbox[g])]
  BY DEF Publish
<1>5. outbox' \in [Ingesters -> Seq(Event)] /\ \A h \in Ingesters : Len(outbox'[h]) <= MaxBatch
  BY <1>2, <1>4 DEF TypeOK
<1> QED
  BY <1>3, <1>5 DEF TypeOK, Publish, hubVars

LEMMA TakeTypes ==
  ASSUME TypeOK, Take
  PROVE  TypeOK'
<1>1. incoming \in Seq(Event) /\ incoming # << >> /\ Len(incoming) <= IncomingBuffer /\ fanned \in Seq(Event)
  BY DEF TypeOK, Take
<1>2. /\ Head(incoming) \in Event /\ Tail(incoming) \in Seq(Event) /\ Len(Tail(incoming)) <= IncomingBuffer
  <2>1. Len(Tail(incoming)) = Len(incoming) - 1 /\ Len(incoming) \in Nat
    BY <1>1, TailFacts
  <2> QED
    BY <1>1, <2>1, TailFacts, LiveStreamAssumption
<1>3. fanned' \in Seq(Event)
  BY <1>1, <1>2, AppendFacts DEF Take
<1>4. fan' \in [event : Event \cup {NoEvent}, todo : SUBSET Subscribers]
  BY <1>2 DEF Take, NoFan, TypeOK
<1> QED
  BY <1>2, <1>3, <1>4 DEF TypeOK, Take, ingest

LEMMA SendTypes ==
  ASSUME TypeOK, FanInv, NEW s \in Subscribers, Send(s)
  PROVE  TypeOK'
<1>1. fan.event \in Event
  <2>1. fan # NoFan
    BY DEF Send, NoFan
  <2>2. fanned \in Seq(Event) /\ fanned # << >> /\ fan.event = fanned[Len(fanned)]
    BY <2>1 DEF FanInv, TypeOK
  <2> QED
    BY <2>2
<1>2. chan[s] \in Seq(Event) /\ Len(chan[s]) <= SubscriberBuffer
  BY DEF TypeOK
<1>3. /\ Offer(chan[s], SubscriberBuffer, fan.event) \in Seq(Event)
      /\ Len(Offer(chan[s], SubscriberBuffer, fan.event)) <= SubscriberBuffer
  BY <1>1, <1>2, OfferFacts, LiveStreamAssumption
<1>4. chan' = [chan EXCEPT ![s] = Offer(chan[s], SubscriberBuffer, fan.event)]
  BY DEF Send
<1>5. chan' \in [Subscribers -> Seq(Event)] /\ \A t \in Subscribers : Len(chan'[t]) <= SubscriberBuffer
  BY <1>3, <1>4 DEF TypeOK
<1>6. dropped' \in [Subscribers -> SUBSET Event]
  BY <1>1 DEF TypeOK, Send
<1>7. fan' \in [event : Event \cup {NoEvent}, todo : SUBSET Subscribers]
  BY DEF TypeOK, Send, NoFan
<1> QED
  BY <1>5, <1>6, <1>7 DEF TypeOK, Send, ingest

LEMMA HandlerTypes ==
  ASSUME TypeOK, HandlersInv, NEW s \in Subscribers,
         \/ Add(s) \/ Remove(s) \/ Accept(s) \/ Receive(s)
         \/ Written(s) \/ WriteFails(s) \/ Leave(s) \/ ClientFails(s)
  PROVE  TypeOK'
<1> USE DEF ingest, hubVars
<1>1. handler' \in [Subscribers -> {"none", "adding", "done"} \cup Seen]
  BY ZenonT(20) DEF TypeOK, Seen, Add, Remove, Accept, Receive, Written, WriteFails, Leave, ClientFails
<1>2. CASE Receive(s)
  <2>1. chan[s] \in Seq(Event) /\ chan[s] # << >> /\ Len(chan[s]) <= SubscriberBuffer
    BY <1>2 DEF TypeOK, Receive
  <2>2. /\ Head(chan[s]) \in Event /\ Tail(chan[s]) \in Seq(Event) /\ Len(Tail(chan[s])) <= SubscriberBuffer
    <3>1. Len(Tail(chan[s])) = Len(chan[s]) - 1 /\ Len(chan[s]) \in Nat
      BY <2>1, TailFacts
    <3> QED
      BY <2>1, <3>1, TailFacts, LiveStreamAssumption
  <2>3. chan' = [chan EXCEPT ![s] = Tail(chan[s])]
    BY <1>2 DEF Receive
  <2>4. chan' \in [Subscribers -> Seq(Event)] /\ \A t \in Subscribers : Len(chan'[t]) <= SubscriberBuffer
    BY <2>2, <2>3 DEF TypeOK
  <2>5. writing' \in [Subscribers -> Event \cup {NoEvent}]
    BY <1>2, <2>2 DEF TypeOK, Receive
  <2> QED
    BY <1>1, <1>2, <2>4, <2>5 DEF TypeOK, Receive
<1>3. CASE Written(s)
  <2>1. delivered[s] \in Seq(Event) /\ writing[s] \in Event
    BY <1>3 DEF TypeOK, Written, HandlersInv
  <2>2. Append(delivered[s], writing[s]) \in Seq(Event)
    BY <2>1, AppendFacts
  <2>3. delivered' \in [Subscribers -> Seq(Event)]
    BY <1>3, <2>2 DEF TypeOK, Written
  <2>4. writing' \in [Subscribers -> Event \cup {NoEvent}]
    BY <1>3 DEF TypeOK, Written
  <2> QED
    BY <1>1, <1>3, <2>3, <2>4 DEF TypeOK, Written
<1>4. CASE Add(s)
  <2>1. Len(fanned) \in Nat
    <3>1. fanned \in Seq(Event)
      BY DEF TypeOK
    <3> QED
      BY <3>1
  <2>2. joinedAt' \in [Subscribers -> Nat]
    BY <1>4, <2>1 DEF TypeOK, Add
  <2> QED
    BY <1>1, <1>4, <2>2 DEF TypeOK, Add
<1>5. CASE WriteFails(s)
  <2>1. writing' \in [Subscribers -> Event \cup {NoEvent}]
    BY <1>5 DEF TypeOK, WriteFails
  <2> QED
    BY <1>1, <1>5, <2>1 DEF TypeOK, WriteFails
<1>6. CASE Remove(s)
  BY <1>1, <1>6 DEF TypeOK, Remove
<1>7. CASE Accept(s) \/ Leave(s) \/ ClientFails(s)
  BY <1>1, <1>7 DEF TypeOK, Accept, Leave, ClientFails
<1> QED
  BY <1>2, <1>3, <1>4, <1>5, <1>6, <1>7

LEMMA NextTypes ==
  ASSUME TypeOK, FanInv, HandlersInv, [Next]_vars
  PROVE  TypeOK'
<1>1. CASE UNCHANGED vars
  BY <1>1 DEF vars, ingest, hubVars, TypeOK
<1>2. CASE Next
  BY <1>2, IngestTypes, PublishTypes, TakeTypes, SendTypes, HandlerTypes DEF Next
<1> QED
  BY <1>1, <1>2

-----------------------------------------------------------------------------
\* The connections' part.
LEMMA NextOwns ==
  ASSUME TypeOK, HandlerOwnsItsChannel, [Next]_vars
  PROVE  HandlerOwnsItsChannel'
<1> USE DEF ingest, hubVars
<1>1. CASE UNCHANGED vars
  BY <1>1 DEF vars, HandlerOwnsItsChannel
<1>2. CASE \E g \in Ingesters : Ingest(g) \/ Publish(g)
  BY <1>2 DEF Ingest, Publish, HandlerOwnsItsChannel
<1>3. CASE Take
  BY <1>3 DEF Take, NoFan, HandlerOwnsItsChannel
<1>4. ASSUME NEW s \in Subscribers, Send(s)
      PROVE  HandlerOwnsItsChannel'
  <2>1. fan'.todo \subseteq fan.todo
    BY <1>4 DEF Send, NoFan, TypeOK
  <2> QED
    BY <1>4, <2>1 DEF Send, HandlerOwnsItsChannel
<1>5. ASSUME NEW s \in Subscribers, Add(s)
      PROVE  HandlerOwnsItsChannel'
  BY <1>5 DEF Add, TypeOK, Seen, HandlerOwnsItsChannel
<1>6. ASSUME NEW s \in Subscribers, Remove(s)
      PROVE  HandlerOwnsItsChannel'
  <2>1. fan' = NoFan /\ handler' = [handler EXCEPT ![s] = "done"] /\ subs' = subs \ {s}
        /\ closed' \subseteq closed \cup {s}
    BY <1>6 DEF Remove, Selecting
  <2> QED
    BY <2>1 DEF NoFan, TypeOK, Seen, HandlerOwnsItsChannel
<1>7. ASSUME NEW s \in Subscribers,
             Accept(s) \/ Receive(s) \/ Written(s) \/ WriteFails(s) \/ Leave(s) \/ ClientFails(s)
      PROVE  HandlerOwnsItsChannel'
  <2>1. UNCHANGED <<fan, subs, closed>>
    BY <1>7 DEF Accept, Receive, Written, WriteFails, Leave, ClientFails
  <2>2. /\ \A t \in Subscribers : handler'[t] \in Seen <=> handler[t] \in Seen
        /\ \A t \in Subscribers : handler[t] = "done" => handler'[t] = "done"
    BY <1>7 DEF Accept, Receive, Written, WriteFails, Leave, ClientFails, TypeOK, Seen
  <2> QED
    BY <2>1, <2>2 DEF HandlerOwnsItsChannel
<1> QED
  BY <1>1, <1>2, <1>3, <1>4, <1>5, <1>6, <1>7 DEF Next

-----------------------------------------------------------------------------
\* The store's part.
LEMMA IngestLog ==
  ASSUME TypeOK, LogInv, NEW g \in Ingesters, Ingest(g)
  PROVE  LogInv'
<1>1. PICK n \in 1..MaxBatch, b \in Seq(Event) :
        /\ Len(b) = n
        /\ \A i \in 1..n : b[i].id = nextID + i - 1
        /\ log' = Store!LastN(log \o b, MaxEvents)
        /\ nextID' = nextID + n
  BY IngestFacts
<1> DEFINE all == log \o b
<1>2. log \in Seq(Event) /\ nextID \in Nat \ {0} /\ n \in Nat \ {0} /\ MaxEvents \in Nat \ {0} /\ Len(log) <= MaxEvents
  <2>1. nextID \in 1..MaxIngested + 1 /\ log \in Seq(Event) /\ Len(log) <= MaxEvents
    BY DEF TypeOK
  <2> QED
    BY <2>1, LiveStreamAssumption
<1>3. /\ all \in Seq(Event) /\ Len(all) = Len(log) + n /\ Len(log) \in Nat
      /\ \A i \in 1..Len(log) : all[i] = log[i]
      /\ \A i \in 1..n : all[Len(log) + i] = b[i]
  <2>1. /\ log \o b \in Seq(Event) /\ Len(log \o b) = Len(log) + Len(b) /\ Len(log) \in Nat
        /\ \A i \in 1..Len(log) : (log \o b)[i] = log[i]
        /\ \A i \in 1..Len(b) : (log \o b)[Len(log) + i] = b[i]
    BY <1>2, ConcatFacts
  <2> QED
    BY <1>1, <2>1
<1> HIDE DEF all
<1>4. \A i \in 1..Len(all) : all[i].id = nextID - 1 - Len(log) + i
  <2> SUFFICES ASSUME NEW i \in 1..Len(all)
               PROVE  all[i].id = nextID - 1 - Len(log) + i
    OBVIOUS
  <2>1. CASE i \in 1..Len(log)
    BY <1>3, <2>1 DEF LogInv
  <2>2. CASE i \notin 1..Len(log)
    <3>1. i - Len(log) \in 1..n /\ Len(log) + (i - Len(log)) = i
      BY <1>2, <1>3, <2>2
    <3>2. all[i].id = nextID + (i - Len(log)) - 1
      BY <1>1, <1>3, <3>1
    <3> QED
      BY <1>2, <1>3, <3>1, <3>2
  <2> QED
    BY <2>1, <2>2
<1> DEFINE t == Store!LastN(all, MaxEvents)
<1>5. /\ t \in Seq(Event)
      /\ Len(t) = IF Len(all) <= MaxEvents THEN Len(all) ELSE MaxEvents
      /\ \A j \in 1..Len(t) : t[j] = all[Len(all) - Len(t) + j]
  BY <1>2, <1>3, LastNFacts, ZenonT(20)
<1>6. log' = t
  BY <1>1 DEF all
<1> HIDE DEF t
<1>7. Len(t) \in Nat /\ Len(t) <= Len(all)
  BY <1>2, <1>3, <1>5
<1>8. \A j \in 1..Len(t) : t[j].id = nextID + n - 1 - Len(t) + j
  <2> SUFFICES ASSUME NEW j \in 1..Len(t)
               PROVE  t[j].id = nextID + n - 1 - Len(t) + j
    OBVIOUS
  <2>1. Len(all) - Len(t) + j \in 1..Len(all)
    BY <1>2, <1>3, <1>7
  <2>2. t[j].id = nextID - 1 - Len(log) + (Len(all) - Len(t) + j)
    BY <1>4, <1>5, <2>1
  <2> QED
    BY <1>2, <1>3, <1>7, <2>2
<1>9. Len(t) < nextID + n /\ (Len(t) = nextID + n - 1 \/ Len(t) = MaxEvents)
  <2>1. Len(log) < nextID /\ (Len(log) = nextID - 1 \/ Len(log) = MaxEvents)
    BY DEF LogInv
  <2>2. CASE Len(all) <= MaxEvents
    <3>1. Len(t) = Len(log) + n
      BY <1>3, <1>5, <2>2
    <3>2. Len(log) = nextID - 1
      BY <1>2, <1>3, <2>1, <2>2
    <3> QED
      BY <1>2, <1>3, <3>1, <3>2
  <2>3. CASE ~(Len(all) <= MaxEvents)
    <3>1. Len(t) = MaxEvents
      BY <1>5, <2>3
    <3> QED
      BY <1>2, <1>3, <2>1, <2>3, <3>1
  <2> QED
    BY <2>2, <2>3
<1>10. /\ Len(t) < nextID' /\ (Len(t) = nextID' - 1 \/ Len(t) = MaxEvents)
       /\ \A j \in 1..Len(t) : t[j].id = nextID' - 1 - Len(t) + j
  <2>1. nextID' = nextID + n /\ nextID' \in Nat
    BY <1>1, <1>2
  <2>2. Len(t) < nextID' /\ (Len(t) = nextID' - 1 \/ Len(t) = MaxEvents)
    BY ONLY <1>2, <1>7, <1>9, <2>1
  <2>3. ASSUME NEW j \in 1..Len(t)
        PROVE  t[j].id = nextID' - 1 - Len(t) + j
    <3>1. t[j].id = nextID + n - 1 - Len(t) + j
      BY <1>8
    <3> QED
      BY ONLY <1>2, <1>7, <2>1, <3>1
  <2> QED
    BY <2>2, <2>3
<1> QED
  BY <1>6, <1>10 DEF LogInv

LEMMA NextLog ==
  ASSUME TypeOK, LogInv, [Next]_vars
  PROVE  LogInv'
<1>1. CASE \E g \in Ingesters : Ingest(g)
  BY <1>1, IngestLog
<1>2. CASE UNCHANGED <<log, nextID>>
  BY <1>2 DEF LogInv
<1>3. (\E g \in Ingesters : Publish(g)) \/ Take \/ UNCHANGED vars => UNCHANGED <<log, nextID>>
  BY DEF Publish, Take, vars, ingest
<1>4. ASSUME NEW s \in Subscribers,
             \/ Send(s) \/ Add(s) \/ Remove(s) \/ Accept(s) \/ Receive(s)
             \/ Written(s) \/ WriteFails(s) \/ Leave(s) \/ ClientFails(s)
      PROVE  UNCHANGED <<log, nextID>>
  BY <1>4 DEF Send, Add, Remove, Accept, Receive, Written, WriteFails, Leave, ClientFails, ingest
<1> QED
  BY <1>1, <1>2, <1>3, <1>4 DEF Next

-----------------------------------------------------------------------------
\* The events' part: where an event that was not fanned out yet is.
LEMMA IngestOnce ==
  ASSUME TypeOK, OnceInv, NEW g \in Ingesters, Ingest(g)
  PROVE  OnceInv'
<1>1. PICK n \in 1..MaxBatch, b \in Seq(Event) :
        /\ Len(b) = n /\ Distinct(b)
        /\ \A i \in 1..n : b[i].id = nextID + i - 1
        /\ outbox' = [outbox EXCEPT ![g] = b]
        /\ nextID' = nextID + n
  BY IngestFacts
<1>2. nextID \in Nat \ {0} /\ n \in Nat \ {0}
  <2>1. nextID \in 1..MaxIngested + 1
    BY DEF TypeOK
  <2> QED
    BY <2>1, LiveStreamAssumption
<1>3. \A e \in Elems(b) : e.id \in Nat /\ nextID <= e.id /\ e.id < nextID + n
  <2> SUFFICES ASSUME NEW e \in Elems(b)
               PROVE  e.id \in Nat /\ nextID <= e.id /\ e.id < nextID + n
    OBVIOUS
  <2>1. PICK i \in 1..n : b[i] = e
    BY <1>1, SeqFacts
  <2>2. e.id = nextID + i - 1
    BY <1>1, <2>1
  <2> QED
    BY <1>2, <2>2
<1>4. UNCHANGED <<incoming, fanned>>
  BY DEF Ingest, hubVars
<1>5. outbox \in [Ingesters -> Seq(Event)]
  BY DEF TypeOK
<1>6. \A h \in Ingesters : outbox'[h] = IF h = g THEN b ELSE outbox[h]
  BY <1>1, <1>5
<1>7. \A e \in Event : e.id \in Nat
  BY LiveStreamAssumption DEF Event
<1>8. /\ Elems(incoming) \subseteq Event /\ Elems(fanned) \subseteq Event
      /\ \A h \in Ingesters : Elems(outbox[h]) \subseteq Event
  BY <1>5, SeqFacts DEF TypeOK
<1>9. \A e \in Event : e.id < nextID => e \notin Elems(b) /\ e.id < nextID + n
  BY <1>2, <1>3, <1>7
<1>10. \A e \in Elems(incoming) \cup Elems(fanned) : e \notin Elems(b) /\ e.id < nextID + n
  BY <1>8, <1>9 DEF OnceInv
<1>11. \A h \in Ingesters : \A e \in Elems(outbox[h]) : e \notin Elems(b) /\ e.id < nextID + n
  BY <1>8, <1>9 DEF OnceInv
<1>12. ASSUME NEW h \in Ingesters
       PROVE  /\ Distinct(outbox'[h])
              /\ Elems(outbox'[h]) \cap (Elems(incoming) \cup Elems(fanned)) = {}
              /\ \A e \in Elems(outbox'[h]) : e.id < nextID + n
  <2>1. CASE h = g
    BY <1>1, <1>3, <1>6, <1>10, <2>1
  <2>2. CASE h # g
    BY <1>6, <1>11, <2>2 DEF OnceInv
  <2> QED
    BY <2>1, <2>2
<1>13. ASSUME NEW h \in Ingesters, NEW k \in Ingesters, h # k
       PROVE  Elems(outbox'[h]) \cap Elems(outbox'[k]) = {}
  <2>1. CASE h # g /\ k # g
    BY <1>6, <1>13, <2>1 DEF OnceInv
  <2>2. CASE h = g \/ k = g
    BY <1>6, <1>11, <1>13, <2>2
  <2> QED
    BY <2>1, <2>2
<1> QED
  BY <1>1, <1>4, <1>10, <1>12, <1>13 DEF OnceInv

\* What the hub does not take is not in hub.incoming.
LEMMA OfferElems ==
  ASSUME NEW S, NEW c \in Seq(S), NEW e \in S, NEW cap \in Nat, Distinct(c), e \notin Elems(c)
  PROVE  /\ Distinct(Offer(c, cap, e))
         /\ Elems(Offer(c, cap, e)) \subseteq Elems(c) \cup {e}
  BY AppendFacts DEF Offer

LEMMA PublishOnce ==
  ASSUME TypeOK, OnceInv, NEW g \in Ingesters, Publish(g)
  PROVE  OnceInv'
<1> DEFINE e == Head(outbox[g])
<1>1. /\ incoming' = Offer(incoming, IncomingBuffer, e)
      /\ outbox' = [outbox EXCEPT ![g] = Tail(outbox[g])]
      /\ UNCHANGED <<nextID, fanned>>
  BY DEF Publish, hubVars
<1>2. /\ outbox[g] \in Seq(Event) /\ outbox[g] # << >> /\ incoming \in Seq(Event)
      /\ outbox \in [Ingesters -> Seq(Event)]
  BY DEF TypeOK, Publish
<1>3. Distinct(outbox[g])
  BY DEF OnceInv
<1>4. /\ e \in Event /\ Elems(outbox[g]) = {e} \cup Elems(Tail(outbox[g]))
      /\ Distinct(Tail(outbox[g])) /\ e \notin Elems(Tail(outbox[g]))
  BY <1>2, <1>3, TailFacts
<1> HIDE DEF e
<1>5. e \notin Elems(incoming) /\ e \notin Elems(fanned) /\ e.id < nextID
  BY <1>4 DEF OnceInv
<1>6. Distinct(incoming') /\ Elems(incoming') \subseteq Elems(incoming) \cup {e}
  <2>1. Distinct(incoming)
    BY DEF OnceInv
  <2> QED
    BY <1>1, <1>2, <1>4, <1>5, <2>1, OfferElems, LiveStreamAssumption
<1>7. \A h \in Ingesters :
        /\ h = g => outbox'[h] = Tail(outbox[g])
        /\ h # g => outbox'[h] = outbox[h] /\ e \notin Elems(outbox[h])
  BY <1>1, <1>2, <1>4 DEF OnceInv
<1>8. ASSUME NEW h \in Ingesters
      PROVE  /\ Distinct(outbox'[h])
             /\ Elems(outbox'[h]) \subseteq Elems(outbox[h])
             /\ e \notin Elems(outbox'[h])
  <2>1. CASE h = g
    BY <1>4, <1>7, <2>1
  <2>2. CASE h # g
    BY <1>7, <2>2 DEF OnceInv
  <2> QED
    BY <2>1, <2>2
<1>9. \A h \in Ingesters :
        /\ Elems(outbox'[h]) \cap (Elems(incoming') \cup Elems(fanned)) = {}
        /\ \A x \in Elems(outbox'[h]) : x.id < nextID
  BY <1>6, <1>8 DEF OnceInv
<1>10. \A h, k \in Ingesters : h # k => Elems(outbox'[h]) \cap Elems(outbox'[k]) = {}
  BY <1>8 DEF OnceInv
<1>11. /\ Elems(incoming') \cap Elems(fanned) = {}
       /\ \A x \in Elems(incoming') \cup Elems(fanned) : x.id < nextID
  BY <1>5, <1>6 DEF OnceInv
<1> QED
  BY <1>1, <1>6, <1>8, <1>9, <1>10, <1>11 DEF OnceInv

LEMMA TakeOnce ==
  ASSUME TypeOK, OnceInv, Take
  PROVE  OnceInv'
<1> DEFINE e == Head(incoming)
<1>1. incoming' = Tail(incoming) /\ fanned' = Append(fanned, e) /\ UNCHANGED <<nextID, outbox>>
  BY DEF Take, ingest
<1>2. incoming \in Seq(Event) /\ incoming # << >> /\ fanned \in Seq(Event)
  BY DEF TypeOK, Take
<1>3. Distinct(incoming) /\ Distinct(fanned) /\ Elems(incoming) \cap Elems(fanned) = {}
  BY DEF OnceInv
<1>4. /\ e \in Event /\ Elems(incoming) = {e} \cup Elems(Tail(incoming))
      /\ Distinct(Tail(incoming)) /\ e \notin Elems(Tail(incoming))
  BY <1>2, <1>3, TailFacts
<1> HIDE DEF e
<1>5. Elems(Append(fanned, e)) = Elems(fanned) \cup {e} /\ Distinct(Append(fanned, e))
  <2>1. e \notin Elems(fanned)
    BY <1>3, <1>4
  <2> QED
    BY <1>2, <1>3, <1>4, <2>1, AppendFacts
<1>6. /\ Elems(incoming') \cup Elems(fanned') = Elems(incoming) \cup Elems(fanned)
      /\ Elems(incoming') \cap Elems(fanned') = {}
      /\ Distinct(incoming') /\ Distinct(fanned')
  BY <1>1, <1>3, <1>4, <1>5
<1> QED
  BY <1>1, <1>6 DEF OnceInv

LEMMA NextOnce ==
  ASSUME TypeOK, OnceInv, [Next]_vars
  PROVE  OnceInv'
<1>1. CASE \E g \in Ingesters : Ingest(g) \/ Publish(g)
  BY <1>1, IngestOnce, PublishOnce
<1>2. CASE Take
  BY <1>2, TakeOnce
<1>3. CASE UNCHANGED <<nextID, outbox, incoming, fanned>>
  BY <1>3 DEF OnceInv
<1>4. ASSUME NEW s \in Subscribers,
             \/ Send(s) \/ Add(s) \/ Remove(s) \/ Accept(s) \/ Receive(s)
             \/ Written(s) \/ WriteFails(s) \/ Leave(s) \/ ClientFails(s)
      PROVE  UNCHANGED <<nextID, outbox, incoming, fanned>>
  BY <1>4 DEF Send, Add, Remove, Accept, Receive, Written, WriteFails, Leave, ClientFails, ingest, hubVars
<1>5. UNCHANGED vars => UNCHANGED <<nextID, outbox, incoming, fanned>>
  BY DEF vars, ingest, hubVars
<1> QED
  BY <1>1, <1>2, <1>3, <1>4, <1>5 DEF Next

-----------------------------------------------------------------------------
\* The hub's part.
LEMMA NextFan ==
  ASSUME TypeOK, FanInv, [Next]_vars
  PROVE  FanInv'
<1>1. CASE Take
  <2>1. fanned \in Seq(Event) /\ Head(incoming) \in Event
    BY <1>1, TailFacts DEF TypeOK, Take
  <2>2. fanned' # << >> /\ fanned'[Len(fanned')] = Head(incoming)
    <3>1. /\ Len(Append(fanned, Head(incoming))) = Len(fanned) + 1 /\ Len(fanned) \in Nat
          /\ Append(fanned, Head(incoming))[Len(fanned) + 1] = Head(incoming)
      BY <2>1, AppendFacts, SeqFacts
    <3> QED
      BY <1>1, <3>1 DEF Take
  <2> QED
    BY <1>1, <2>2 DEF Take, FanInv
<1>2. ASSUME NEW s \in Subscribers, Send(s)
      PROVE  FanInv'
  <2>1. s \in fan.todo /\ fanned' = fanned
        /\ fan' = IF fan.todo = {s} THEN NoFan ELSE [fan EXCEPT !.todo = fan.todo \ {s}]
    BY <1>2 DEF Send
  <2>2. fan # NoFan
    BY <2>1 DEF NoFan
  <2> QED
    BY <2>1, <2>2 DEF FanInv, TypeOK
<1>3. CASE UNCHANGED <<fan, fanned>>
  BY <1>3 DEF FanInv
<1>4. ASSUME NEW s \in Subscribers,
             \/ Add(s) \/ Remove(s) \/ Accept(s) \/ Receive(s)
             \/ Written(s) \/ WriteFails(s) \/ Leave(s) \/ ClientFails(s)
      PROVE  UNCHANGED <<fan, fanned>>
  BY <1>4 DEF Add, Remove, Accept, Receive, Written, WriteFails, Leave, ClientFails, hubVars
<1>5. (\E g \in Ingesters : Ingest(g) \/ Publish(g)) \/ UNCHANGED vars => UNCHANGED <<fan, fanned>>
  BY DEF vars, hubVars, Ingest, Publish
<1> QED
  BY <1>1, <1>2, <1>3, <1>4, <1>5 DEF Next

-----------------------------------------------------------------------------
\* The handlers' part.
LEMMA NextHandlers ==
  ASSUME TypeOK, HandlerOwnsItsChannel, HandlersInv, [Next]_vars
  PROVE  HandlersInv'
<1> USE DEF ingest, hubVars
<1>1. fanned \in Seq(Event) /\ Len(fanned) \in Nat /\ joinedAt \in [Subscribers -> Nat]
  <2>1. fanned \in Seq(Event) /\ joinedAt \in [Subscribers -> Nat]
    BY DEF TypeOK
  <2> QED
    BY <2>1
<1>2. CASE Take
  <2>1. incoming \in Seq(Event) /\ incoming # << >>
    BY <1>2 DEF Take, TypeOK
  <2>2. Len(fanned') = Len(fanned) + 1
    BY <1>1, <1>2, <2>1, TailFacts, AppendFacts DEF Take
  <2>3. UNCHANGED <<joinedAt, handler, delivered, chan, dropped, writing>>
    BY <1>2 DEF Take
  <2>4. \A s \in Subscribers : joinedAt'[s] <= Len(fanned') /\ joinedAt'[s] < Len(fanned')
    BY <1>1, <2>2, <2>3 DEF HandlersInv
  <2> QED
    BY <2>3, <2>4 DEF HandlersInv
<1>3. ASSUME NEW s \in Subscribers, Send(s)
      PROVE  HandlersInv'
  <2>1. fan'.todo \subseteq fan.todo /\ s \in fan.todo
    BY <1>3 DEF Send, NoFan, TypeOK
  <2>2. handler[s] \notin {"none", "adding"}
    BY <2>1 DEF HandlerOwnsItsChannel, Seen
  <2>3. /\ UNCHANGED <<joinedAt, fanned, handler, delivered, writing>>
        /\ \A t \in Subscribers : t # s => chan'[t] = chan[t] /\ dropped'[t] = dropped[t]
    BY <1>3 DEF Send, TypeOK
  <2> QED
    BY <2>1, <2>2, <2>3 DEF HandlersInv
<1>4. ASSUME NEW s \in Subscribers, Add(s)
      PROVE  HandlersInv'
  <2>1. /\ \A t \in Subscribers : t # s => joinedAt'[t] = joinedAt[t] /\ handler'[t] = handler[t]
        /\ joinedAt'[s] = Len(fanned) /\ handler'[s] = "streaming"
        /\ UNCHANGED <<fan, fanned, delivered, chan, dropped, writing>>
        /\ fan = NoFan
    BY <1>4 DEF Add, TypeOK, Selecting
  <2> QED
    BY <1>1, <2>1 DEF HandlersInv, NoFan
<1>5. ASSUME NEW s \in Subscribers, Receive(s)
      PROVE  HandlersInv'
  <2>1. chan[s] \in Seq(Event) /\ chan[s] # << >>
    BY <1>5 DEF Receive, TypeOK
  <2>2. /\ \A t \in Subscribers : t # s => chan'[t] = chan[t] /\ handler'[t] = handler[t] /\ writing'[t] = writing[t]
        /\ writing'[s] = Head(chan[s]) /\ handler'[s] = "writing"
        /\ UNCHANGED <<fan, fanned, delivered, joinedAt, dropped>>
    BY <1>5 DEF Receive, TypeOK
  <2>3. Head(chan[s]) \in Event
    BY <2>1, TailFacts
  <2> QED
    BY <2>2, <2>3 DEF HandlersInv
<1>6. ASSUME NEW s \in Subscribers, Written(s)
      PROVE  HandlersInv'
  <2>1. /\ \A t \in Subscribers : t # s => delivered'[t] = delivered[t] /\ handler'[t] = handler[t] /\ writing'[t] = writing[t]
        /\ handler'[s] = "streaming"
        /\ UNCHANGED <<fan, fanned, chan, joinedAt, dropped>>
    BY <1>6 DEF Written, TypeOK
  <2> QED
    BY <2>1 DEF HandlersInv
<1>7. ASSUME NEW s \in Subscribers,
             Remove(s) \/ Accept(s) \/ WriteFails(s) \/ Leave(s) \/ ClientFails(s)
      PROVE  HandlersInv'
  <2>1. UNCHANGED <<fan, fanned, delivered, chan, joinedAt, dropped>>
    BY <1>7 DEF Remove, Accept, WriteFails, Leave, ClientFails
  <2>2. \A t \in Subscribers :
          /\ handler'[t] \in {"none", "adding"} => handler[t] \in {"none", "adding"}
          /\ handler'[t] = "writing" => handler[t] = "writing" /\ writing'[t] = writing[t]
    BY <1>7 DEF Remove, Accept, WriteFails, Leave, ClientFails, TypeOK
  <2> QED
    BY <2>1, <2>2 DEF HandlersInv
<1>8. CASE UNCHANGED <<fan, fanned, delivered, chan, joinedAt, dropped, handler, writing>>
  BY <1>8 DEF HandlersInv
<1>9. (\E g \in Ingesters : Ingest(g) \/ Publish(g)) \/ UNCHANGED vars =>
        UNCHANGED <<fan, fanned, delivered, chan, joinedAt, dropped, handler, writing>>
  BY DEF vars, Ingest, Publish
<1> QED
  BY <1>2, <1>3, <1>4, <1>5, <1>6, <1>7, <1>8, <1>9 DEF Next

-----------------------------------------------------------------------------
\* The part of what each client receives.
LEMMA ReceivedType ==
  ASSUME TypeOK, HandlersInv, NEW s \in Subscribers
  PROVE  /\ delivered[s] \in Seq(Event) /\ chan[s] \in Seq(Event)
         /\ delivered[s] \o (IF handler[s] = "writing" THEN <<writing[s]>> ELSE << >>) \in Seq(Event)
         /\ Received(s) \in Seq(Event)
<1>1. delivered[s] \in Seq(Event) /\ chan[s] \in Seq(Event)
  BY DEF TypeOK
<1> DEFINE mid == IF handler[s] = "writing" THEN <<writing[s]>> ELSE << >>
<1>2. mid \in Seq(Event)
  BY DEF HandlersInv
<1>3. Received(s) = delivered[s] \o mid \o chan[s]
  BY DEF Received
<1> HIDE DEF mid
<1>4. delivered[s] \o mid \in Seq(Event)
  BY <1>1, <1>2
<1> QED
  BY <1>1, <1>3, <1>4 DEF mid

\* A step that moves nothing of a connection.
LEMMA ExactStays ==
  ASSUME NEW s \in Subscribers, ExactFor(s),
         Received(s)' = Received(s), SinceJoined(s)' = SinceJoined(s),
         fanned' = fanned, dropped'[s] = dropped[s]
  PROVE  ExactFor(s)'
  BY DEF ExactFor

LEMMA TakeExact ==
  ASSUME TypeOK, HandlerOwnsItsChannel, HandlersInv, ExactInv, Take
  PROVE  ExactInv'
<1> DEFINE e == Head(incoming)
<1>1. /\ fan = NoFan /\ incoming \in Seq(Event) /\ incoming # << >> /\ fanned \in Seq(Event)
      /\ fan' = (IF subs = {} THEN NoFan ELSE [event |-> e, todo |-> subs])
      /\ fanned' = Append(fanned, e)
      /\ UNCHANGED <<subs, chan, handler, writing, joinedAt, dropped, delivered>>
  BY DEF Take, Selecting, TypeOK
<1>2. e \in Event
  BY <1>1, TailFacts
<1> HIDE DEF e
<1>3. Len(fanned') = Len(fanned) + 1 /\ Len(fanned) \in Nat
      /\ \A i \in 1..Len(fanned) : fanned'[i] = fanned[i]
  BY <1>1, <1>2, AppendFacts
<1> SUFFICES ASSUME NEW s \in Subscribers, handler[s] \in {"streaming", "writing"}
             PROVE  ExactFor(s)'
  BY <1>1 DEF ExactInv
<1>4. ExactFor(s)
  BY DEF ExactInv
<1>5. s \in fan'.todo /\ s \notin fan.todo
  <2>1. s \in subs
    BY DEF HandlerOwnsItsChannel, Seen
  <2> QED
    BY <1>1, <2>1 DEF NoFan
<1>6. joinedAt[s] \in Nat
  BY DEF TypeOK
<1>7. SinceJoined(s) = joinedAt[s] + 1..Len(fanned)
  BY <1>5 DEF SinceJoined
<1>8. SinceJoined(s)' = SinceJoined(s)
  BY <1>1, <1>3, <1>5, <1>6, <1>7 DEF SinceJoined
<1>9. SinceJoined(s) \subseteq 1..Len(fanned)
  BY <1>3, <1>6, <1>7
<1>10. Received(s)' = Received(s)
  BY <1>1 DEF Received
<1>11. Matches(Received(s), SinceJoined(s), fanned', dropped[s])
  BY <1>1, <1>2, <1>4, <1>9, MatchTaken DEF ExactFor
<1>12. {fanned'[k] : k \in SinceJoined(s)} = {fanned[k] : k \in SinceJoined(s)}
  BY <1>3, <1>9
<1> QED
  BY <1>1, <1>4, <1>8, <1>10, <1>11, <1>12 DEF ExactFor

LEMMA SendExact ==
  ASSUME TypeOK, HandlerOwnsItsChannel, OnceInv, FanInv, HandlersInv, ExactInv,
         NEW s \in Subscribers, Send(s)
  PROVE  ExactInv'
<1> DEFINE n  == Len(fanned)
           ev == fanned[n]
           lo == joinedAt[s] + 1
<1>1. /\ s \in fan.todo /\ fan # NoFan
      /\ UNCHANGED <<fanned, handler, writing, joinedAt, delivered>>
  BY DEF Send, NoFan
<1>2. /\ fanned \in Seq(Event) /\ Distinct(fanned) /\ fan.event = ev
      /\ n \in 1..Len(fanned) /\ n \in Nat
  BY <1>1 DEF TypeOK, OnceInv, FanInv
<1>3. /\ chan' = [chan EXCEPT ![s] = Offer(chan[s], SubscriberBuffer, ev)]
      /\ dropped' = IF HasRoom(chan[s], SubscriberBuffer) THEN dropped
                    ELSE [dropped EXCEPT ![s] = dropped[s] \cup {ev}]
  BY <1>2 DEF Send
<1>4. lo \in 1..n
  BY <1>1, <1>2 DEF HandlersInv, TypeOK
<1>5. s \notin fan'.todo /\ \A t \in Subscribers : t # s => (t \in fan'.todo <=> t \in fan.todo)
  BY <1>1 DEF Send, NoFan, TypeOK
<1>6. SinceJoined(s) = lo..n - 1 /\ SinceJoined(s)' = lo..n
  BY <1>1, <1>5 DEF SinceJoined
<1>7. Received(s) \in Seq(Event)
  BY ReceivedType
<1> HIDE DEF n, ev
<1>8. ASSUME handler[s] \in {"streaming", "writing"}
      PROVE  ExactFor(s)'
  <2>1. /\ Matches(Received(s), lo..n - 1, fanned, dropped[s])
        /\ dropped[s] \subseteq {fanned[k] : k \in lo..n - 1}
    BY <1>6, <1>8 DEF ExactInv, ExactFor
  <2>2. \A k \in lo..n - 1 : k \in lo..n /\ k \in 1..Len(fanned) /\ k # n
    BY <1>2, <1>4
  <2>3. n \in lo..n /\ DOMAIN fanned = 1..Len(fanned) /\ ev = fanned[n]
    BY <1>2, <1>4 DEF ev
  <2>4. \A k \in lo..n - 1 : fanned[k] # ev
    BY <1>2, <2>2, <2>3 DEF Distinct
  <2>5. {fanned[k] : k \in lo..n - 1} \cup {ev} \subseteq {fanned[k] : k \in lo..n}
    BY <2>2, <2>3
  <2> HIDE DEF lo
  <2>6. CASE HasRoom(chan[s], SubscriberBuffer)
    <3>1. dropped'[s] = dropped[s] /\ chan'[s] = Append(chan[s], ev)
      BY <1>3, <2>6 DEF Offer, TypeOK
    <3>2. ev \notin dropped[s]
      BY <2>1, <2>4
    <3>3. Matches(Append(Received(s), ev), lo..n, fanned, dropped[s])
      BY <1>2, <1>4, <1>7, <2>1, <2>3, <3>2, MatchSent
    <3>4. Received(s)' = Append(Received(s), ev)
      <4> DEFINE front == delivered[s] \o (IF handler[s] = "writing" THEN <<writing[s]>> ELSE << >>)
      <4>1. Received(s) = front \o chan[s] /\ Received(s)' = front \o chan'[s]
        BY <1>1 DEF Received
      <4>2. front \in Seq(Event) /\ chan[s] \in Seq(Event) /\ ev \in Event
        BY <1>2, <2>3, ReceivedType, SeqFacts
      <4> HIDE DEF front
      <4> QED
        BY <3>1, <4>1, <4>2, SendKeeps
    <3> QED
      BY <1>1, <1>6, <2>1, <2>5, <3>1, <3>3, <3>4 DEF ExactFor
  <2>7. CASE ~HasRoom(chan[s], SubscriberBuffer)
    <3>1. dropped'[s] = dropped[s] \cup {ev} /\ chan'[s] = chan[s]
      BY <1>3, <2>7 DEF Offer, TypeOK
    <3>2. Matches(Received(s), lo..n, fanned, dropped[s] \cup {ev})
      BY <1>2, <1>4, <1>7, <2>1, <2>3, MatchDropped
    <3>3. Received(s)' = Received(s)
      BY <1>1, <3>1 DEF Received
    <3> QED
      BY <1>1, <1>6, <2>1, <2>5, <3>1, <3>2, <3>3 DEF ExactFor
  <2> QED
    BY <2>6, <2>7
<1>9. ASSUME NEW t \in Subscribers, t # s, handler[t] \in {"streaming", "writing"}
      PROVE  ExactFor(t)'
  <2>1. ExactFor(t)
    BY <1>9 DEF ExactInv
  <2>2. chan'[t] = chan[t] /\ dropped'[t] = dropped[t]
    BY <1>3, <1>9 DEF TypeOK
  <2>3. Received(t)' = Received(t) /\ SinceJoined(t)' = SinceJoined(t)
    BY <1>1, <1>5, <1>9, <2>2 DEF Received, SinceJoined
  <2> QED
    BY <1>1, <2>1, <2>2, <2>3, ExactStays
<1> QED
  BY <1>1, <1>8, <1>9 DEF ExactInv

LEMMA HandlerExact ==
  ASSUME TypeOK, HandlersInv, ExactInv, NEW s \in Subscribers,
         \/ Add(s) \/ Remove(s) \/ Accept(s) \/ Receive(s)
         \/ Written(s) \/ WriteFails(s) \/ Leave(s) \/ ClientFails(s)
  PROVE  ExactInv'
<1> USE DEF hubVars
<1>1. UNCHANGED <<fan, fanned, dropped>>
  BY DEF Add, Remove, Accept, Receive, Written, WriteFails, Leave, ClientFails
<1>2. ASSUME NEW t \in Subscribers, t # s, handler'[t] \in {"streaming", "writing"}
      PROVE  ExactFor(t)'
  <2>1. /\ handler'[t] = handler[t] /\ chan'[t] = chan[t] /\ delivered'[t] = delivered[t]
        /\ writing'[t] = writing[t] /\ joinedAt'[t] = joinedAt[t]
    BY <1>2 DEF Add, Remove, Accept, Receive, Written, WriteFails, Leave, ClientFails, TypeOK
  <2>2. ExactFor(t)
    BY <1>2, <2>1 DEF ExactInv
  <2>3. Received(t)' = Received(t) /\ SinceJoined(t)' = SinceJoined(t)
    BY <1>1, <2>1 DEF Received, SinceJoined
  <2> QED
    BY <1>1, <2>2, <2>3, ExactStays
<1>3. ASSUME handler'[s] \in {"streaming", "writing"}
      PROVE  ExactFor(s)'
  <2>1. delivered[s] \in Seq(Event) /\ chan[s] \in Seq(Event)
    BY DEF TypeOK
  <2>2. CASE Add(s)
    <3>1. /\ delivered'[s] = << >> /\ chan'[s] = << >> /\ dropped'[s] = {}
          /\ handler'[s] = "streaming" /\ joinedAt'[s] = Len(fanned) /\ fan' = NoFan
      BY <2>2 DEF Add, Selecting, HandlersInv, TypeOK
    <3>2. Received(s)' = << >>
      BY <3>1 DEF Received
    <3>3. SinceJoined(s)' = {}
      <4>1. fanned \in Seq(Event)
        BY DEF TypeOK
      <4> QED
        BY <1>1, <3>1, <4>1 DEF SinceJoined, NoFan
    <3>4. Elems(<< >>) = {}
      BY DEF Elems
    <3> QED
      BY <3>1, <3>2, <3>3, <3>4 DEF ExactFor, Matches
  <2>3. CASE Receive(s)
    <3>1. /\ handler[s] = "streaming" /\ handler'[s] = "writing" /\ chan[s] # << >>
          /\ writing'[s] = Head(chan[s]) /\ chan'[s] = Tail(chan[s])
          /\ delivered' = delivered /\ joinedAt' = joinedAt
      BY <2>3 DEF Receive, TypeOK
    <3>2. Received(s) = delivered[s] \o << >> \o chan[s]
      BY <3>1 DEF Received
    <3>3. Received(s)' = delivered[s] \o <<Head(chan[s])>> \o Tail(chan[s])
      BY <3>1 DEF Received
    <3>4. Received(s)' = Received(s)
      BY <2>1, <3>1, <3>2, <3>3, ReceiveKeeps
    <3>5. SinceJoined(s)' = SinceJoined(s)
      BY <1>1, <3>1 DEF SinceJoined
    <3> QED
      BY <1>1, <3>1, <3>4, <3>5, ExactStays DEF ExactInv
  <2>4. CASE Written(s)
    <3>1. /\ handler[s] = "writing" /\ handler'[s] = "streaming"
          /\ delivered'[s] = Append(delivered[s], writing[s]) /\ writing[s] \in Event
          /\ chan' = chan /\ joinedAt' = joinedAt
      BY <2>4 DEF Written, TypeOK, HandlersInv
    <3>2. Received(s) = delivered[s] \o <<writing[s]>> \o chan[s]
      BY <3>1 DEF Received
    <3>3. Received(s)' = Append(delivered[s], writing[s]) \o << >> \o chan[s]
      BY <3>1 DEF Received
    <3>4. Received(s)' = Received(s)
      BY <2>1, <3>1, <3>2, <3>3, WrittenKeeps, ZenonT(20)
    <3>5. SinceJoined(s)' = SinceJoined(s)
      BY <1>1, <3>1 DEF SinceJoined
    <3> QED
      BY <1>1, <3>1, <3>4, <3>5, ExactStays DEF ExactInv
  <2>5. CASE ClientFails(s)
    <3>1. UNCHANGED <<handler, chan, delivered, writing, joinedAt>>
      BY <2>5 DEF ClientFails
    <3>2. Received(s)' = Received(s) /\ SinceJoined(s)' = SinceJoined(s)
      BY <1>1, <3>1 DEF Received, SinceJoined
    <3> QED
      BY <1>1, <1>3, <3>1, <3>2, ExactStays DEF ExactInv
  <2>6. CASE Remove(s) \/ Accept(s) \/ WriteFails(s) \/ Leave(s)
    BY <1>3, <2>6 DEF Remove, Accept, WriteFails, Leave, TypeOK
  <2> QED
    BY <2>2, <2>3, <2>4, <2>5, <2>6
<1> QED
  BY <1>2, <1>3 DEF ExactInv

LEMMA NextExact ==
  ASSUME TypeOK, HandlerOwnsItsChannel, OnceInv, FanInv, HandlersInv, ExactInv, [Next]_vars
  PROVE  ExactInv'
<1>1. CASE Take
  BY <1>1, TakeExact
<1>2. ASSUME NEW s \in Subscribers, Send(s)
      PROVE  ExactInv'
  BY <1>2, SendExact
<1>3. ASSUME NEW s \in Subscribers,
             \/ Add(s) \/ Remove(s) \/ Accept(s) \/ Receive(s)
             \/ Written(s) \/ WriteFails(s) \/ Leave(s) \/ ClientFails(s)
      PROVE  ExactInv'
  BY <1>3, HandlerExact
<1>4. CASE UNCHANGED <<fan, fanned, dropped, handler, chan, delivered, writing, joinedAt>>
  <2> SUFFICES ASSUME NEW s \in Subscribers, handler[s] \in {"streaming", "writing"}
               PROVE  ExactFor(s)'
    BY <1>4 DEF ExactInv
  <2>1. Received(s)' = Received(s) /\ SinceJoined(s)' = SinceJoined(s)
    BY <1>4 DEF Received, SinceJoined
  <2> QED
    BY <1>4, <2>1, ExactStays DEF ExactInv
<1>5. (\E g \in Ingesters : Ingest(g) \/ Publish(g)) \/ UNCHANGED vars =>
        UNCHANGED <<fan, fanned, dropped, handler, chan, delivered, writing, joinedAt>>
  BY DEF vars, hubVars, Ingest, Publish
<1> QED
  BY <1>1, <1>2, <1>3, <1>4, <1>5 DEF Next

-----------------------------------------------------------------------------
LEMMA NextInv == Inv /\ [Next]_vars => Inv'
  BY NextTypes, NextOwns, NextLog, NextOnce, NextFan, NextHandlers, NextExact DEF Inv

\* Every reachable state satisfies the inductive invariant.
LEMMA SpecInv == Spec => []Inv
  BY InitInv, NextInv, PTL DEF Spec

(***************************************************************************)
(* The buffers of hub.incoming and of every connection stay within their   *)
(* capacities, the store within MaxEvents, and every variable in its type. *)
(***************************************************************************)
THEOREM StreamTypes == Spec => []TypeOK
<1>1. Inv => TypeOK
  BY DEF Inv
<1> QED
  BY <1>1, SpecInv, PTL

(***************************************************************************)
(* hub.run holds exactly the channels of the handlers between hub.add and  *)
(* hub.remove: no send on a closed channel, no channel closed twice,       *)
(* whatever the order in which handlers join and leave.                    *)
(***************************************************************************)
THEOREM ChannelsOwned == Spec => []HandlerOwnsItsChannel
<1>1. Inv => HandlerOwnsItsChannel
  BY DEF Inv
<1> QED
  BY <1>1, SpecInv, PTL

(***************************************************************************)
(* A client of GET /v1/stream gets every event the hub took since it       *)
(* joined but for those dropped for its full channel, once and in order.   *)
(***************************************************************************)
THEOREM StreamsAreExact == Spec => []StreamIsExact
<1>1. Inv => StreamIsExact
  BY DEF Inv, ExactInv, ExactFor, Matches, Elems, StreamIsExact
<1> QED
  BY <1>1, SpecInv, PTL

(***************************************************************************)
(* No event is fanned out twice, and each that is has been stored: the     *)
(* store holds it or has overwritten it since.                             *)
(***************************************************************************)
THEOREM StreamedAfterStored == Spec => []StreamedOnceAndStored
<1>1. ASSUME Inv
      PROVE  StreamedOnceAndStored
  <2>1. /\ fanned \in Seq(Event) /\ log \in Seq(Event) /\ Len(log) <= MaxEvents
        /\ nextID \in Nat /\ MaxEvents \in Nat /\ Len(log) \in Nat
    <3>1. /\ fanned \in Seq(Event) /\ log \in Seq(Event) /\ Len(log) <= MaxEvents
          /\ nextID \in 1..MaxIngested + 1
      BY <1>1 DEF Inv, TypeOK
    <3> QED
      BY <3>1, LiveStreamAssumption
  <2>2. \A i, j \in DOMAIN fanned : i # j => fanned[i] # fanned[j]
    BY <1>1 DEF Inv, OnceInv, Distinct
  <2>3. ASSUME NEW i \in DOMAIN fanned, ~(fanned[i].id + MaxEvents < nextID)
        PROVE  \E j \in DOMAIN log : log[j] = fanned[i]
    <3> DEFINE e == fanned[i]
               j == e.id - (nextID - 1 - Len(log))
    <3>1. e \in Event /\ e \in Elems(fanned)
      BY <2>1, SeqFacts DEF Elems
    <3>2. e.id \in Nat \ {0} /\ e.id < nextID
      BY <1>1, <3>1, LiveStreamAssumption DEF Event, Inv, OnceInv
    <3>3. ~(e.id + MaxEvents < nextID)
      BY <2>3
    <3> HIDE DEF e
    <3>4. Len(log) < nextID /\ (Len(log) = nextID - 1 \/ Len(log) = MaxEvents)
      BY <1>1 DEF Inv, LogInv
    <3>5. j \in 1..Len(log)
      BY <2>1, <3>2, <3>3, <3>4
    <3>6. log[j].id = nextID - 1 - Len(log) + j
      BY <1>1, <3>5 DEF Inv, LogInv
    <3>7. log[j].id = e.id
      BY <2>1, <3>2, <3>6
    <3> HIDE DEF j
    <3>8. j \in DOMAIN log /\ log[j] \in Event
      BY <2>1, <3>5
    <3>9. log[j] = e
      BY <3>1, <3>7, <3>8 DEF Event
    <3> QED
      BY <3>8, <3>9 DEF e
  <2> QED
    BY <2>2, <2>3 DEF StreamedOnceAndStored
<1> QED
  BY <1>1, SpecInv, PTL
=============================================================================
