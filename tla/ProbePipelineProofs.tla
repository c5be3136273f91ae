------------------------ MODULE ProbePipelineProofs ------------------------
(***************************************************************************)
(* Theorems about ProbePipeline: for every number of CPUs, processes and   *)
(* containers and every size of the ring buffer, the queue and a batch.    *)
(***************************************************************************)
EXTENDS ProbePipeline, FiniteSetTheorems, TLAPS

\* Something with a number of its own: a record or an event.
Sorted(s) == \A i, j \in DOMAIN s : i < j => s[i].id < s[j].id

Below(A, B) == \A a \in A, b \in B : a < b

-----------------------------------------------------------------------------
(***************************************************************************)
(* What the operators on sequences do to the numbers in one.               *)
(***************************************************************************)
LEMMA IdsOfSeq ==
  ASSUME NEW S, \A e \in S : e.id \in Ids, NEW s \in Seq(S)
  PROVE  /\ IdsOf(s) \subseteq Ids
         /\ \A i \in 1..Len(s) : s[i].id \in IdsOf(s)
         /\ \A id \in IdsOf(s) : \E i \in 1..Len(s) : s[i].id = id
         /\ s = << >> <=> IdsOf(s) = {}
<1>1. DOMAIN s = 1..Len(s) /\ Len(s) \in Nat /\ \A i \in 1..Len(s) : s[i] \in S
  OBVIOUS
<1>2. /\ IdsOf(s) \subseteq Ids
      /\ \A i \in 1..Len(s) : s[i].id \in IdsOf(s)
      /\ \A id \in IdsOf(s) : \E i \in 1..Len(s) : s[i].id = id
  BY <1>1 DEF IdsOf
<1>3. s = << >> => IdsOf(s) = {}
  BY <1>2
<1>4. ASSUME s # << >>
      PROVE  IdsOf(s) # {}
  <2>1. 1 \in 1..Len(s)
    BY <1>4
  <2> QED
    BY <1>2, <2>1
<1> QED
  BY <1>2, <1>3, <1>4

LEMMA AppendIds ==
  ASSUME NEW S, \A e \in S : e.id \in Ids, NEW s \in Seq(S), NEW e \in S
  PROVE  /\ IdsOf(Append(s, e)) = IdsOf(s) \cup {e.id}
         /\ Sorted(s) /\ Below(IdsOf(s), {e.id}) => Sorted(Append(s, e))
<1> DEFINE t == Append(s, e)
<1>1. /\ t \in Seq(S) /\ Len(t) = Len(s) + 1 /\ t[Len(s) + 1] = e
      /\ \A i \in 1..Len(s) : t[i] = s[i]
  OBVIOUS
<1> HIDE DEF t
<1>2. IdsOf(t) = IdsOf(s) \cup {e.id}
  BY <1>1 DEF IdsOf
<1>3. ASSUME Sorted(s), Below(IdsOf(s), {e.id})
      PROVE  Sorted(t)
  <2>0. DOMAIN t = 1..Len(t)
    BY <1>1
  <2> SUFFICES ASSUME NEW i \in 1..Len(t), NEW j \in 1..Len(t), i < j
               PROVE  t[i].id < t[j].id
    BY <2>0 DEF Sorted
  <2>1. i \in 1..Len(s) /\ s[i].id \in IdsOf(s)
    BY <1>1, IdsOfSeq
  <2>2. CASE j \in 1..Len(s)
    BY <1>1, <1>3, <2>1, <2>2, SMTT(20) DEF Sorted
  <2>3. CASE j = Len(s) + 1
    BY <1>1, <1>3, <2>1, <2>3 DEF Below
  <2> QED
    BY <1>1, <2>2, <2>3, SMTT(20)
<1> QED
  BY <1>2, <1>3 DEF t

LEMMA TailIds ==
  ASSUME NEW S, \A e \in S : e.id \in Ids, NEW s \in Seq(S), s # << >>, Sorted(s)
  PROVE  /\ IdsOf(s) = {s[1].id} \cup IdsOf(Tail(s))
         /\ Below({s[1].id}, IdsOf(Tail(s)))
         /\ Sorted(Tail(s))
<1> DEFINE t == Tail(s)
<1>1. /\ t \in Seq(S) /\ Len(t) = Len(s) - 1 /\ Len(s) \in Nat \ {0}
      /\ \A i \in 1..Len(t) : t[i] = s[i + 1]
  OBVIOUS
<1> HIDE DEF t
<1>2. \A id \in IdsOf(t) : id \in IdsOf(s) /\ s[1].id < id
  <2> SUFFICES ASSUME NEW id \in IdsOf(t)
               PROVE  id \in IdsOf(s) /\ s[1].id < id
    OBVIOUS
  <2>1. PICK i \in 1..Len(t) : t[i].id = id
    BY <1>1, IdsOfSeq
  <2>2. i + 1 \in 1..Len(s) /\ s[i + 1].id = id /\ 1 \in 1..Len(s) /\ 1 < i + 1
    BY <1>1, <2>1
  <2> QED
    BY <2>2, IdsOfSeq DEF Sorted
<1>3. \A id \in IdsOf(s) : id = s[1].id \/ id \in IdsOf(t)
  <2> SUFFICES ASSUME NEW id \in IdsOf(s), id # s[1].id
               PROVE  id \in IdsOf(t)
    OBVIOUS
  <2>1. PICK i \in 1..Len(s) : s[i].id = id
    BY IdsOfSeq
  <2>2. i - 1 \in 1..Len(t) /\ t[i - 1].id = id
    BY <1>1, <2>1
  <2> QED
    BY <1>1, <2>2, IdsOfSeq
<1>4. s[1].id \in IdsOf(s)
  BY <1>1, IdsOfSeq
<1>5. Sorted(t)
  <2>0. DOMAIN t = 1..Len(t)
    BY <1>1
  <2> SUFFICES ASSUME NEW i \in 1..Len(t), NEW j \in 1..Len(t), i < j
               PROVE  t[i].id < t[j].id
    BY <2>0 DEF Sorted
  <2>1. i + 1 \in 1..Len(s) /\ j + 1 \in 1..Len(s) /\ i + 1 < j + 1
    BY <1>1
  <2>2. s[i + 1].id < s[j + 1].id
    BY <2>1 DEF Sorted
  <2> QED
    BY <1>1, <2>2
<1> QED
  BY <1>2, <1>3, <1>4, <1>5 DEF t, Below

\* The type and the length of a concatenation.
LEMMA ConcatType ==
  ASSUME NEW S, NEW s \in Seq(S), NEW t \in Seq(S)
  PROVE  /\ s \o t \in Seq(S) /\ Len(s \o t) = Len(s) + Len(t)
         /\ Len(s) \in Nat /\ Len(t) \in Nat
  OBVIOUS

LEMMA ConcatIds ==
  ASSUME NEW S, \A e \in S : e.id \in Ids, NEW s \in Seq(S), NEW t \in Seq(S)
  PROVE  /\ IdsOf(s \o t) = IdsOf(s) \cup IdsOf(t)
         /\ Sorted(s) /\ Sorted(t) /\ Below(IdsOf(s), IdsOf(t)) => Sorted(s \o t)
<1> DEFINE u == s \o t
<1>1. /\ u \in Seq(S) /\ Len(u) = Len(s) + Len(t) /\ Len(s) \in Nat /\ Len(t) \in Nat
      /\ \A i \in 1..Len(s) : u[i] = s[i]
      /\ \A i \in 1..Len(t) : u[Len(s) + i] = t[i]
  OBVIOUS
<1>2. \A i \in 1..Len(u) :
        i \notin 1..Len(s) => i - Len(s) \in 1..Len(t) /\ u[i] = t[i - Len(s)]
  <2> HIDE DEF u
  <2>1. ASSUME NEW i \in 1..Len(u), i \notin 1..Len(s)
        PROVE  i - Len(s) \in 1..Len(t) /\ u[i] = t[i - Len(s)]
    <3>1. i - Len(s) \in 1..Len(t) /\ Len(s) + (i - Len(s)) = i
      BY <1>1, <2>1
    <3> QED
      BY <1>1, <3>1
  <2> QED
    BY <2>1
<1> HIDE DEF u
<1>3. \A id \in IdsOf(u) : id \in IdsOf(s) \cup IdsOf(t)
  <2> SUFFICES ASSUME NEW id \in IdsOf(u)
               PROVE  id \in IdsOf(s) \cup IdsOf(t)
    OBVIOUS
  <2>1. PICK i \in 1..Len(u) : u[i].id = id
    BY <1>1, IdsOfSeq
  <2>2. CASE i \in 1..Len(s)
    BY <1>1, <2>1, <2>2, IdsOfSeq
  <2>3. CASE i \notin 1..Len(s)
    BY <1>2, <2>1, <2>3, IdsOfSeq
  <2> QED
    BY <2>2, <2>3
<1>4. \A id \in IdsOf(s) : id \in IdsOf(u)
  <2> SUFFICES ASSUME NEW id \in IdsOf(s)
               PROVE  id \in IdsOf(u)
    OBVIOUS
  <2>1. PICK i \in 1..Len(s) : s[i].id = id
    BY IdsOfSeq
  <2>2. i \in 1..Len(u) /\ u[i].id = id
    BY <1>1, <2>1
  <2> QED
    BY <1>1, <2>2, IdsOfSeq
<1>5. \A id \in IdsOf(t) : id \in IdsOf(u)
  <2> SUFFICES ASSUME NEW id \in IdsOf(t)
               PROVE  id \in IdsOf(u)
    OBVIOUS
  <2>1. PICK i \in 1..Len(t) : t[i].id = id
    BY IdsOfSeq
  <2>2. Len(s) + i \in 1..Len(u) /\ u[Len(s) + i].id = id
    BY <1>1, <2>1
  <2> QED
    BY <1>1, <2>2, IdsOfSeq
<1>6. ASSUME Sorted(s), Sorted(t), Below(IdsOf(s), IdsOf(t))
      PROVE  Sorted(u)
  <2> SUFFICES ASSUME NEW i \in 1..Len(u), NEW j \in 1..Len(u), i < j
               PROVE  u[i].id < u[j].id
    BY <1>1 DEF Sorted
  <2>1. CASE i \in 1..Len(s) /\ j \in 1..Len(s)
    <3>1. s[i].id < s[j].id
      BY <1>6, <2>1 DEF Sorted
    <3> QED
      BY <1>1, <2>1, <3>1
  <2>2. CASE i \in 1..Len(s) /\ j \notin 1..Len(s)
    <3>1. u[i].id \in IdsOf(s) /\ u[j].id \in IdsOf(t)
      BY <1>1, <1>2, <2>2, IdsOfSeq
    <3> QED
      BY <1>6, <3>1 DEF Below
  <2>3. CASE i \notin 1..Len(s)
    <3>1. j \notin 1..Len(s)
      BY <1>1, <2>3
    <3>2. /\ i - Len(s) \in 1..Len(t) /\ j - Len(s) \in 1..Len(t) /\ i - Len(s) < j - Len(s)
          /\ u[i] = t[i - Len(s)] /\ u[j] = t[j - Len(s)]
      BY <1>1, <1>2, <2>3, <3>1
    <3> QED
      BY <1>6, <3>2 DEF Sorted
  <2> QED
    BY <2>1, <2>2, <2>3
<1> QED
  BY <1>3, <1>4, <1>5, <1>6 DEF u

\* A sequence cut in two.
LEMMA SplitIds ==
  ASSUME NEW S, \A e \in S : e.id \in Ids, NEW s \in Seq(S), NEW n \in 0..Len(s)
  PROVE  LET a == SubSeq(s, 1, n)
             b == SubSeq(s, n + 1, Len(s))
         IN  /\ a \in Seq(S) /\ Len(a) = n /\ b \in Seq(S) /\ Len(b) = Len(s) - n
             /\ IdsOf(s) = IdsOf(a) \cup IdsOf(b)
             /\ Sorted(s) => Sorted(a) /\ Sorted(b) /\ Below(IdsOf(a), IdsOf(b))
<1> DEFINE a == SubSeq(s, 1, n)
           b == SubSeq(s, n + 1, Len(s))
<1>1. /\ a \in Seq(S) /\ Len(a) = n /\ \A i \in 1..n : a[i] = s[i]
      /\ n \in Nat /\ n <= Len(s) /\ Len(s) \in Nat
  OBVIOUS
<1>2. b \in Seq(S) /\ Len(b) = Len(s) - n /\ \A i \in 1..Len(s) - n : b[i] = s[n + i]
  OBVIOUS
<1> HIDE DEF a, b
<1>3. \A id \in IdsOf(a) : \E i \in 1..n : a[i].id = id /\ i \in 1..Len(s) /\ s[i].id = id
  BY <1>1, IdsOfSeq
<1>4. \A id \in IdsOf(b) : \E i \in 1..Len(s) - n : b[i].id = id /\ n + i \in 1..Len(s) /\ s[n + i].id = id
  BY <1>1, <1>2, IdsOfSeq
<1>5. \A i \in 1..Len(s) : s[i].id \in IdsOf(a) \cup IdsOf(b)
  <2> SUFFICES ASSUME NEW i \in 1..Len(s)
               PROVE  s[i].id \in IdsOf(a) \cup IdsOf(b)
    OBVIOUS
  <2>1. CASE i <= n
    <3>1. i \in 1..Len(a) /\ a[i] = s[i]
      BY <1>1, <2>1
    <3> QED
      BY <1>1, <3>1, IdsOfSeq
  <2>2. CASE i > n
    <3>1. i - n \in 1..Len(b) /\ n + (i - n) = i
      BY <1>1, <1>2, <2>2
    <3>2. b[i - n] = s[i]
      BY <1>2, <3>1
    <3> QED
      BY <1>2, <3>1, <3>2, IdsOfSeq
  <2> QED
    BY <1>1, <2>1, <2>2
<1>6. IdsOf(s) = IdsOf(a) \cup IdsOf(b)
  <2>1. \A id \in IdsOf(a) \cup IdsOf(b) : id \in IdsOf(s)
    BY <1>3, <1>4, IdsOfSeq
  <2>2. \A id \in IdsOf(s) : id \in IdsOf(a) \cup IdsOf(b)
    BY <1>5, IdsOfSeq
  <2> QED
    BY <2>1, <2>2
<1>7. ASSUME Sorted(s)
      PROVE  Sorted(a) /\ Sorted(b) /\ Below(IdsOf(a), IdsOf(b))
  <2>1. Sorted(a)
    BY <1>1, <1>7 DEF Sorted
  <2>2. Sorted(b)
    <3> SUFFICES ASSUME NEW i \in 1..Len(b), NEW j \in 1..Len(b), i < j
                 PROVE  b[i].id < b[j].id
      BY <1>2 DEF Sorted
    <3>1. /\ n + i \in 1..Len(s) /\ n + j \in 1..Len(s) /\ n + i < n + j
          /\ b[i] = s[n + i] /\ b[j] = s[n + j]
      BY <1>1, <1>2
    <3> QED
      BY <1>7, <3>1 DEF Sorted
  <2>3. ASSUME NEW x \in IdsOf(a), NEW y \in IdsOf(b)
        PROVE  x < y
    <3>1. PICK i \in 1..n : i \in 1..Len(s) /\ s[i].id = x
      BY <1>3
    <3>2. PICK j \in 1..Len(s) - n : n + j \in 1..Len(s) /\ s[n + j].id = y
      BY <1>4
    <3>3. i < n + j
      BY <1>1
    <3> QED
      BY <1>7, <3>1, <3>2, <3>3 DEF Sorted
  <2> QED
    BY <2>1, <2>2, <2>3 DEF Below
<1> QED
  BY <1>1, <1>2, <1>6, <1>7 DEF a, b

-----------------------------------------------------------------------------
(***************************************************************************)
(* The inductive invariant, in parts.                                      *)
(***************************************************************************)
HeldIds == IdsOf(batch) \cup IdsOf(queue) \cup IdsOf(ring)

\* Reports move through the probe in the order of their reservations, and where the
\* process now runs that has the ID of a record has been seen since the call.
OrderInv ==
  /\ Sorted(ring) /\ Sorted(queue) /\ Sorted(batch)
  /\ Below(IdsOf(batch), IdsOf(queue))
  /\ Below(IdsOf(batch), IdsOf(ring))
  /\ Below(IdsOf(queue), IdsOf(ring))
  /\ Below(HeldIds, {nextId})
  /\ \A i \in DOMAIN ring : proc[ring[i].pid] \in ring[i].seen \cup {Gone}

\* The reports without a fate are those the probe holds, and those to come.
FateInv == \A id \in Ids : fate[id] = "none" <=> id \in HeldIds \/ id >= nextId

ForwarderInv ==
  /\ batch = << >> <=> forwarder \in {"idle", "done"}
  /\ forwarder = "done" => queue = << >> /\ reader = "stopped"
  /\ reply # "none" => forwarder = "sending" /\ batch \notin net
  /\ reply = "sent" => IdsOf(batch) \subseteq IdsOf(stored)
  /\ reply = "refused" => IdsOf(batch) \cap IdsOf(stored) = {}

\* A request is the one whose answer the forwarder waits for, or one it gave up.
NetInv ==
  /\ \A b \in net :
       /\ Sorted(b)
       /\ IdsOf(b) \cap IdsOf(stored) = {}
       /\ Below(IdsOf(b), IdsOf(queue) \cup IdsOf(ring) \cup {nextId})
       /\ \/ b = batch /\ forwarder = "sending"
          \/ Below(IdsOf(b), IdsOf(batch)) /\ \A id \in IdsOf(b) : fate[id] = "failed"
  /\ \A b, d \in net : b # d => IdsOf(b) \cap IdsOf(d) = {}

StoredInv ==
  /\ Below(IdsOf(stored), IdsOf(queue) \cup IdsOf(ring) \cup {nextId})
  /\ forwarder = "filling" \/ batch \in net => Below(IdsOf(stored), IdsOf(batch))
  /\ StoredOnceInOrder
  /\ FateIsTrue

Inv == TypeOK /\ OrderInv /\ FateInv /\ ForwarderInv /\ NetInv /\ StoredInv

-----------------------------------------------------------------------------
LEMMA Types ==
  ASSUME TypeOK
  PROVE  /\ Ids \subseteq Nat \ {0}
         /\ nextId \in Nat \ {0}
         /\ \A e \in Record : e.id \in Ids
         /\ \A e \in AuditEvent : e.id \in Ids
         /\ IdsOf(ring) \subseteq Ids
         /\ IdsOf(queue) \subseteq Ids
         /\ IdsOf(batch) \subseteq Ids
         /\ IdsOf(stored) \subseteq Ids
         /\ \A b \in net : b \in Seq(AuditEvent) /\ b # << >> /\ IdsOf(b) \subseteq Ids
         /\ batch = << >> <=> IdsOf(batch) = {}
<1>1. Ids \subseteq Nat \ {0} /\ nextId \in Nat \ {0}
  <2>1. Ids \subseteq Nat \ {0}
    BY ProbePipelineAssumption DEF Ids
  <2>2. nextId \in 1..MaxEvents + 1
    BY DEF TypeOK
  <2> QED
    BY <2>1, <2>2, ProbePipelineAssumption
<1>2. (\A e \in Record : e.id \in Ids) /\ (\A e \in AuditEvent : e.id \in Ids)
  BY DEF Record, AuditEvent
<1>3. IdsOf(ring) \subseteq Ids
  BY <1>2, IdsOfSeq DEF TypeOK
<1>4. IdsOf(queue) \subseteq Ids /\ IdsOf(batch) \subseteq Ids /\ IdsOf(stored) \subseteq Ids
  BY <1>2, IdsOfSeq DEF TypeOK
<1>5. batch = << >> <=> IdsOf(batch) = {}
  BY <1>2, IdsOfSeq DEF TypeOK
<1>6. ASSUME NEW b \in net
      PROVE  b \in Seq(AuditEvent) /\ b # << >> /\ IdsOf(b) \subseteq Ids
  <2>1. b \in Seq(AuditEvent) /\ Len(b) \in 1..BatchSize
    BY DEF TypeOK
  <2> QED
    BY <1>2, <2>1, IdsOfSeq
<1> QED
  BY <1>1, <1>2, <1>3, <1>4, <1>5, <1>6

LEMMA InitInv == Init => Inv
<1> SUFFICES ASSUME Init
             PROVE  Inv
  OBVIOUS
<1>1. ring = << >> /\ queue = << >> /\ batch = << >> /\ stored = << >> /\ net = {} /\ nextId = 1
  BY DEF Init
<1>2. IdsOf(<< >>) = {}
  BY DEF IdsOf
<1>3. HeldIds = {}
  BY <1>1, <1>2 DEF HeldIds
<1>4. TypeOK
  <2>1. nextId \in 1..MaxEvents + 1
    BY <1>1, ProbePipelineAssumption
  <2>2. /\ ring \in Seq(Record) /\ Len(ring) <= RingRoom
        /\ queue \in Seq(AuditEvent) /\ Len(queue) <= QueueLen
        /\ batch \in Seq(AuditEvent) /\ Len(batch) <= BatchSize
        /\ stored \in Seq(AuditEvent)
    BY <1>1, ProbePipelineAssumption
  <2>3. cpu \in [Cpus -> Ids \cup {0}] /\ proc \in [Pids -> Places \cup {Gone}]
    BY DEF Init
  <2>4. fate \in [Ids -> {"none", "no room in the ring", "not converted", "no room in the queue",
                         "sent", "refused", "failed"}]
    BY DEF Init
  <2> QED
    BY <1>1, <2>1, <2>2, <2>3, <2>4 DEF Init, TypeOK
<1>5. OrderInv
  BY <1>1, <1>2, <1>3 DEF OrderInv, Sorted, Below
<1>6. FateInv
  <2>1. Ids \subseteq Nat \ {0}
    BY <1>4, Types
  <2> QED
    BY <1>1, <1>3, <2>1 DEF FateInv, Init
<1>7. ForwarderInv
  BY DEF ForwarderInv, Init
<1>8. NetInv
  BY <1>1 DEF NetInv
<1>9. StoredInv
  BY <1>1, <1>2 DEF StoredInv, StoredOnceInOrder, FateIsTrue, Below, Init
<1> QED
  BY <1>4, <1>5, <1>6, <1>7, <1>8, <1>9 DEF Inv

-----------------------------------------------------------------------------
\* A step that touches none of these keeps the invariant, when its reader and its phase
\* are in their types.
data == <<proc, ring, nextId, queue, forwarder, batch, reply, net, stored, fate>>

LEMMA QuietStep ==
  ASSUME Inv, UNCHANGED data, TypeOK', reader = "stopped" => reader' = "stopped"
  PROVE  Inv'
<1> USE DEF data
<1>1. HeldIds' = HeldIds
  BY DEF HeldIds, IdsOf
<1>2. OrderInv'
  BY <1>1 DEF Inv, OrderInv, Sorted, Below, IdsOf
<1>3. FateInv'
  BY <1>1 DEF Inv, FateInv
<1>4. ForwarderInv'
  <2>1. ForwarderInv
    BY DEF Inv
  <2>2. /\ forwarder' = forwarder /\ batch' = batch /\ reply' = reply
        /\ net' = net /\ stored' = stored /\ queue' = queue /\ ring' = ring
    OBVIOUS
  <2>3. forwarder' = "done" => queue' = << >> /\ reader' = "stopped"
    BY <2>1, <2>2 DEF ForwarderInv
  <2> QED
    BY <2>1, <2>2, <2>3 DEF ForwarderInv
<1>5. NetInv'
  BY DEF Inv, NetInv
<1>6. StoredInv'
  BY DEF Inv, StoredInv, StoredOnceInOrder, FateIsTrue
<1> QED
  BY <1>2, <1>3, <1>4, <1>5, <1>6 DEF Inv

\* The tasks' steps between two of their awaits that move no event, and main's.
LEMMA ControlStep ==
  ASSUME Inv, Wake \/ Drained \/ ClearReady \/ Terminate \/ Abort \/ EndInOrder \/ EndAnyway
  PROVE  Inv'
<1> USE DEF kernel, sending
<1>1. TypeOK'
  BY ZenonT(60) DEF Inv, TypeOK, Wake, Drained, ClearReady, LeftReady, Terminate, Abort, EndInOrder, EndAnyway
<1>2. UNCHANGED data
  BY DEF data, Wake, Drained, ClearReady, Terminate, Abort, EndInOrder, EndAnyway
<1>3. reader = "stopped" => reader' = "stopped"
  BY DEF Wake, Drained, ClearReady, Terminate, Abort, EndInOrder, EndAnyway
<1> QED
  BY <1>1, <1>2, <1>3, QuietStep

-----------------------------------------------------------------------------
\* What is decided about reports that had no fate leaves the stored events as they
\* should be, when it says neither that they were sent nor that they cannot arrive.
LEMMA OrderSurvives ==
  ASSUME Inv, UNCHANGED stored, \A id \in Ids : fate[id] = "failed" => fate'[id] = "failed"
  PROVE  StoredOnceInOrder'
<1>1. \A i \in DOMAIN stored : stored[i].id \in Ids
  <2>1. stored \in Seq(AuditEvent)
    BY DEF Inv, TypeOK
  <2>2. \A i \in DOMAIN stored : stored[i] \in AuditEvent
    BY <2>1
  <2> QED
    BY <2>2 DEF AuditEvent
<1> QED
  BY <1>1 DEF Inv, StoredInv, StoredOnceInOrder

LEMMA ReserveStep ==
  ASSUME Inv, NEW c \in Cpus, NEW p \in Pids, NEW usable \in BOOLEAN, Reserve(c, p, usable)
  PROVE  Inv'
<1> DEFINE r == [id |-> nextId, pid |-> p, seen |-> {proc[p]}, usable |-> usable, busy |-> TRUE]
<1>1. /\ nextId \in Ids /\ nextId' = nextId + 1 /\ nextId' \in 1..MaxEvents + 1
      /\ UNCHANGED <<proc, ready, notified, reader, queue, sending, net, stored, phase>>
  <2>1. nextId \in Ids /\ nextId' = nextId + 1
    BY DEF Reserve
  <2>2. nextId' \in 1..MaxEvents + 1
    BY <2>1, ProbePipelineAssumption DEF Ids
  <2> QED
    BY <2>1, <2>2 DEF Reserve
<1>2. TypeOK
  BY DEF Inv
<1>0. /\ Ids \subseteq Nat /\ nextId \in Nat /\ IdsOf(ring) \subseteq Ids
       /\ IdsOf(queue) \subseteq Ids /\ IdsOf(batch) \subseteq Ids /\ IdsOf(stored) \subseteq Ids
       /\ \A b \in net : IdsOf(b) \subseteq Ids
  BY <1>2, Types
<1>3. r \in Record /\ r.id = nextId
  <2>1. proc[p] \in Places
    BY <1>2 DEF Reserve, TypeOK
  <2> QED
    BY <1>1, <2>1 DEF Record
<1>4. /\ \A id \in HeldIds : id < nextId
      /\ HeldIds \subseteq Ids
  BY <1>2, Types DEF Inv, OrderInv, Below, HeldIds
<1>5. \/ ring' = Append(ring, r) /\ Len(ring) < RingRoom /\ UNCHANGED fate
         /\ cpu' = [cpu EXCEPT ![c] = nextId]
      \/ /\ UNCHANGED <<ring, cpu>>
         /\ fate' = [i \in Ids |-> IF i = nextId THEN "no room in the ring" ELSE fate[i]]
  BY DEF Reserve, Decide
<1>6. /\ \A id \in IdsOf(ring)' : id \in IdsOf(ring) \/ id = nextId
      /\ IdsOf(ring) \subseteq IdsOf(ring)'
      /\ UNCHANGED ring \/ nextId \in IdsOf(ring)'
      /\ Sorted(ring)'
  <2>1. CASE ring' = Append(ring, r)
    <3>1. ring \in Seq(Record) /\ Sorted(ring) /\ Below(IdsOf(ring), {nextId})
      BY <1>2, <1>4 DEF Inv, OrderInv, TypeOK, HeldIds, Below
    <3>2. \A e \in Record : e.id \in Ids
      BY <1>2, Types
    <3>3. IdsOf(ring') = IdsOf(ring) \cup {nextId} /\ Sorted(ring')
      BY <1>3, <2>1, <3>1, <3>2, AppendIds
    <3> QED
      BY <3>3
  <2>2. CASE UNCHANGED ring
    BY <2>2 DEF Inv, OrderInv, IdsOf, Sorted
  <2> QED
    BY <1>5, <2>1, <2>2
<1>7. /\ fate' \in [Ids -> {"none", "no room in the ring", "not converted", "no room in the queue",
                            "sent", "refused", "failed"}]
      /\ \A id \in Ids : id # nextId => fate'[id] = fate[id]
      /\ fate'[nextId] = "none" <=> nextId \in IdsOf(ring)'
      /\ fate'[nextId] \in {"none", "no room in the ring"}
  <2>1. fate[nextId] = "none"
    BY <1>1, <1>2, Types DEF Inv, FateInv
  <2>2. nextId \notin IdsOf(ring)
    BY <1>1, <1>2, <1>4, Types DEF HeldIds
  <2>3. CASE UNCHANGED fate /\ ring' = Append(ring, r)
    <3>1. nextId \in IdsOf(ring)'
      <4>1. ring' # ring
        <5>1. ring \in Seq(Record)
          BY <1>2 DEF TypeOK
        <5>2. Len(ring') = Len(ring) + 1 /\ Len(ring) \in Nat
          BY <2>3, <5>1
        <5> QED
          BY <5>2
      <4> QED
        BY <1>6, <4>1
    <3> QED
      BY <1>2, <2>1, <2>3, <3>1 DEF TypeOK
  <2>4. CASE UNCHANGED ring /\ fate' = [i \in Ids |-> IF i = nextId THEN "no room in the ring" ELSE fate[i]]
    BY <1>1, <1>2, <2>2, <2>4 DEF TypeOK
  <2> QED
    BY <1>5, <2>3, <2>4
<1>8. UNCHANGED <<IdsOf(queue), IdsOf(batch), IdsOf(stored)>> /\ HeldIds' = IdsOf(batch) \cup IdsOf(queue) \cup IdsOf(ring)'
  BY <1>1 DEF sending, HeldIds
<1>9. TypeOK'
  <2>1. ring' \in Seq(Record) /\ Len(ring') <= RingRoom
    <3>1. CASE ring' = Append(ring, r) /\ Len(ring) < RingRoom
      <4>0. ring \in Seq(Record)
        BY <1>2 DEF TypeOK
      <4>1. ring \in Seq(Record) /\ Len(ring) \in Nat
        BY <4>0
      <4>2. ring' \in Seq(Record) /\ Len(ring') = Len(ring) + 1
        BY <1>3, <3>1, <4>1
      <4> QED
        BY <3>1, <4>1, <4>2, ProbePipelineAssumption
    <3>2. CASE UNCHANGED ring
      BY <1>2, <3>2 DEF TypeOK
    <3> QED
      BY <1>5, <3>1, <3>2
  <2>2. cpu' \in [Cpus -> Ids \cup {0}]
    BY <1>1, <1>2, <1>5 DEF TypeOK
  <2> QED
    BY <1>1, <1>2, <1>7, <2>1, <2>2 DEF TypeOK, sending
<1>10. OrderInv'
  <2>1. Sorted(ring)' /\ Sorted(queue)' /\ Sorted(batch)'
    BY <1>1, <1>6 DEF Inv, OrderInv, sending, Sorted
  <2>2. /\ Below(IdsOf(batch)', IdsOf(queue)') /\ Below(IdsOf(batch)', IdsOf(ring)')
        /\ Below(IdsOf(queue)', IdsOf(ring)')
    BY <1>4, <1>6, <1>8 DEF Inv, OrderInv, Below, HeldIds
  <2>3. Below(HeldIds', {nextId'})
    BY <1>1, <1>2, <1>4, <1>6, <1>8, Types DEF Below, HeldIds
  <2>4. ASSUME NEW i \in DOMAIN ring'
        PROVE  proc'[ring'[i].pid] \in ring'[i].seen \cup {Gone}
    <3>1. CASE ring' = Append(ring, r)
      <4>1. ring \in Seq(Record)
        BY <1>2 DEF TypeOK
      <4>2. \/ i \in DOMAIN ring /\ ring'[i] = ring[i]
            \/ ring'[i] = r
        BY <3>1, <4>1
      <4> QED
        BY <1>1, <2>4, <4>2 DEF Inv, OrderInv
    <3>2. CASE UNCHANGED ring
      BY <1>1, <2>4, <3>2 DEF Inv, OrderInv
    <3> QED
      BY <1>5, <3>1, <3>2
  <2> QED
    BY <2>1, <2>2, <2>3, <2>4 DEF OrderInv
<1>11. FateInv'
  <2> SUFFICES ASSUME NEW id \in Ids
               PROVE  fate'[id] = "none" <=> id \in HeldIds' \/ id >= nextId'
    BY DEF FateInv
  <2>1. fate[id] = "none" <=> id \in HeldIds \/ id >= nextId
    BY DEF Inv, FateInv
  <2>2. CASE id = nextId
    <3>1. nextId \notin IdsOf(batch) \cup IdsOf(queue) /\ ~(nextId >= nextId')
      BY <1>1, <1>4, <1>0 DEF HeldIds
    <3> QED
      BY <1>7, <1>8, <2>2, <3>1
  <2>3. CASE id # nextId
    <3>1. id >= nextId' <=> id >= nextId
      BY <1>1, <1>2, <2>3, Types
    <3> QED
      BY <1>6, <1>7, <1>8, <2>1, <2>3, <3>1 DEF HeldIds
  <2> QED
    BY <2>2, <2>3
<1>12. ForwarderInv'
  BY <1>1, <1>8 DEF Inv, ForwarderInv, sending
<1>13. NetInv'
  <2>1. ASSUME NEW b \in net
        PROVE  /\ Sorted(b)
               /\ IdsOf(b) \cap IdsOf(stored) = {}
               /\ Below(IdsOf(b), IdsOf(queue) \cup IdsOf(ring)' \cup {nextId'})
               /\ \/ b = batch /\ forwarder = "sending"
                  \/ Below(IdsOf(b), IdsOf(batch)) /\ \A id \in IdsOf(b) : fate'[id] = "failed"
    <3>1. /\ Sorted(b)
          /\ IdsOf(b) \cap IdsOf(stored) = {}
          /\ Below(IdsOf(b), IdsOf(queue) \cup IdsOf(ring) \cup {nextId})
          /\ \/ b = batch /\ forwarder = "sending"
             \/ Below(IdsOf(b), IdsOf(batch)) /\ \A id \in IdsOf(b) : fate[id] = "failed"
      BY DEF Inv, NetInv
    <3>2. IdsOf(b) \subseteq Ids
      BY <1>2, Types
    <3>3. Below(IdsOf(b), IdsOf(queue) \cup IdsOf(ring)' \cup {nextId'})
      <4>1. \A x \in IdsOf(b) : x \in Nat /\ x < nextId
        BY <1>0, <3>1 DEF Below
      <4>2. nextId < nextId' /\ nextId' \in Nat /\ \A x \in IdsOf(b) : x < nextId'
        BY <1>1, <1>0, <4>1
      <4>3. \A y \in IdsOf(queue) \cup IdsOf(ring)' \cup {nextId'} :
              y \in IdsOf(queue) \cup IdsOf(ring) \cup {nextId} \/ y = nextId'
        BY <1>6
      <4> QED
        BY <3>1, <4>2, <4>3 DEF Below
    <3>4. \A id \in IdsOf(b) : id # nextId
      <4>1. \A x \in IdsOf(b) : x \in Nat /\ x < nextId
        BY <1>0, <3>1 DEF Below
      <4> QED
        BY <1>0, <4>1
    <3> QED
      BY <1>7, <3>1, <3>2, <3>3, <3>4
  <2> QED
    BY <1>1, <1>8, <2>1 DEF Inv, NetInv, sending
<1>14. StoredInv'
  <2>1. Below(IdsOf(stored)', IdsOf(queue)' \cup IdsOf(ring)' \cup {nextId'})
    <3>1. Below(IdsOf(stored), IdsOf(queue) \cup IdsOf(ring) \cup {nextId})
      BY DEF Inv, StoredInv
    <3>2. \A x \in IdsOf(stored) : x < nextId'
      <4>1. \A x \in IdsOf(stored) : x \in Nat /\ x < nextId
        BY <1>0, <3>1 DEF Below
      <4> QED
        BY <1>1, <1>0, <4>1
    <3>3. \A y \in IdsOf(queue) \cup IdsOf(ring)' \cup {nextId'} :
            y \in IdsOf(queue) \cup IdsOf(ring) \cup {nextId} \/ y = nextId'
      BY <1>6
    <3> QED
      BY <1>8, <3>1, <3>2, <3>3 DEF Below
  <2>2. nextId \notin IdsOf(stored) /\ \A b \in net : nextId \notin IdsOf(b)
    <3>1. Below(IdsOf(stored), {nextId}) /\ \A b \in net : Below(IdsOf(b), {nextId})
      BY DEF Inv, StoredInv, NetInv, Below
    <3>2. \A x \in Nat : ~(x < x)
      OBVIOUS
    <3> QED
      BY <1>0, <3>1, <3>2 DEF Below
  <2>3. FateIsTrue'
    BY <1>1, <1>7, <1>8, <2>2 DEF Inv, StoredInv, FateIsTrue
  <2>4. fate[nextId] = "none"
    BY <1>1, <1>2, Types DEF Inv, FateInv
  <2>5. StoredOnceInOrder'
    BY <1>1, <1>7, <2>4, OrderSurvives
  <2> QED
    BY <1>1, <1>8, <2>1, <2>3, <2>5 DEF Inv, StoredInv, sending
<1> QED
  BY <1>9, <1>10, <1>11, <1>12, <1>13, <1>14 DEF Inv

-----------------------------------------------------------------------------
\* The hook and the processes: only what a record says of its process changes.
LEMMA KernelStep ==
  ASSUME Inv, UNCHANGED <<nextId, queue, sending, net, stored, fate>>, TypeOK',
         reader = "stopped" => reader' = "stopped",
         DOMAIN ring' = DOMAIN ring,
         \A i \in DOMAIN ring :
           /\ ring'[i].id = ring[i].id
           /\ proc'[ring'[i].pid] \in ring'[i].seen \cup {Gone}
  PROVE  Inv'
<1> USE DEF sending
<1>1. /\ IdsOf(ring)' = IdsOf(ring)
      /\ UNCHANGED <<IdsOf(queue), IdsOf(batch), IdsOf(stored)>>
      /\ HeldIds' = HeldIds
  BY DEF IdsOf, HeldIds
<1>2. OrderInv'
  BY <1>1 DEF Inv, OrderInv, Sorted, Below
<1>3. FateInv'
  BY <1>1 DEF Inv, FateInv
<1>4. ForwarderInv'
  BY <1>1 DEF Inv, ForwarderInv
<1>5. NetInv'
  BY <1>1 DEF Inv, NetInv
<1>6. StoredInv'
  BY <1>1 DEF Inv, StoredInv, StoredOnceInOrder, FateIsTrue
<1> QED
  BY <1>2, <1>3, <1>4, <1>5, <1>6 DEF Inv

LEMMA SubmitStep ==
  ASSUME Inv, NEW c \in Cpus, Submit(c)
  PROVE  Inv'
<1>1. /\ cpu' = [cpu EXCEPT ![c] = 0]
      /\ ring' = [i \in DOMAIN ring |->
                    IF ring[i].id = cpu[c] THEN [ring[i] EXCEPT !.busy = FALSE] ELSE ring[i]]
      /\ \/ ready' = TRUE /\ notified' = TRUE
         \/ UNCHANGED <<ready, notified>>
      /\ UNCHANGED <<proc, nextId, reader, queue, sending, net, stored, phase, fate>>
  BY DEF Submit
<1>2. ring \in Seq(Record) /\ Len(ring) <= RingRoom /\ DOMAIN ring = 1..Len(ring) /\ Len(ring) \in Nat
  <2>1. ring \in Seq(Record) /\ Len(ring) <= RingRoom
    BY DEF Inv, TypeOK
  <2> QED
    BY <2>1
<1>3. \A i \in DOMAIN ring :
        /\ ring'[i] \in Record /\ ring'[i].id = ring[i].id
        /\ ring'[i].pid = ring[i].pid /\ ring'[i].seen = ring[i].seen
  <2> SUFFICES ASSUME NEW i \in DOMAIN ring
               PROVE  /\ ring'[i] \in Record /\ ring'[i].id = ring[i].id
                      /\ ring'[i].pid = ring[i].pid /\ ring'[i].seen = ring[i].seen
    OBVIOUS
  <2>1. ring[i] \in Record
    BY <1>2
  <2>2. ring'[i] = ring[i] \/ ring'[i] = [ring[i] EXCEPT !.busy = FALSE]
    BY <1>1
  <2> QED
    BY <2>1, <2>2 DEF Record
<1>4. ring' \in Seq(Record) /\ Len(ring') = Len(ring) /\ DOMAIN ring' = DOMAIN ring
  <2>1. DOMAIN ring' = 1..Len(ring) /\ ring' = [i \in 1..Len(ring) |-> ring'[i]]
    BY <1>1, <1>2
  <2> QED
    BY <1>2, <1>3, <2>1
<1>5. TypeOK'
  <2>1. cpu' \in [Cpus -> Ids \cup {0}]
    BY <1>1 DEF Inv, TypeOK
  <2> QED
    BY <1>1, <1>2, <1>4, <2>1 DEF Inv, TypeOK, sending
<1>6. \A i \in DOMAIN ring : proc'[ring'[i].pid] \in ring'[i].seen \cup {Gone}
  BY <1>1, <1>3 DEF Inv, OrderInv
<1> QED
  BY <1>1, <1>3, <1>4, <1>5, <1>6, KernelStep

LEMMA EndStep ==
  ASSUME Inv, NEW p \in Pids, End(p)
  PROVE  Inv'
<1>1. /\ proc' = [proc EXCEPT ![p] = Gone]
      /\ UNCHANGED <<ring, cpu, nextId, ready, notified, reader, queue, sending, net, stored,
                     phase, fate>>
  BY DEF End
<1>2. proc \in [Pids -> Places \cup {Gone}] /\ ring \in Seq(Record)
  BY DEF Inv, TypeOK
<1>3. \A i \in DOMAIN ring : proc'[ring'[i].pid] \in ring'[i].seen \cup {Gone}
  <2> SUFFICES ASSUME NEW i \in DOMAIN ring
               PROVE  proc'[ring[i].pid] \in ring[i].seen \cup {Gone}
    BY <1>1
  <2>1. ring[i] \in Record /\ proc[ring[i].pid] \in ring[i].seen \cup {Gone}
    BY <1>2 DEF Inv, OrderInv
  <2>2. ring[i].pid \in Pids
    BY <2>1 DEF Record
  <2> QED
    BY <1>1, <1>2, <2>1, <2>2
<1>4. TypeOK'
  BY <1>1, <1>2 DEF Inv, TypeOK, sending
<1> QED
  BY <1>1, <1>3, <1>4, KernelStep

\* A process that starts or is moved is seen by the records of its ID.
LEMMA RunsStep ==
  ASSUME Inv, NEW p \in Pids, NEW place \in Places, RunsAt(p, place),
         UNCHANGED <<cpu, nextId, ready, notified, reader, queue, sending, net, stored,
                     phase, fate>>
  PROVE  Inv'
<1>1. /\ proc' = [proc EXCEPT ![p] = place]
      /\ ring' = [i \in DOMAIN ring |->
                    IF ring[i].pid = p THEN [ring[i] EXCEPT !.seen = @ \cup {place}] ELSE ring[i]]
  BY DEF RunsAt
<1>2. ring \in Seq(Record) /\ Len(ring) <= RingRoom /\ DOMAIN ring = 1..Len(ring) /\ Len(ring) \in Nat
  <2>1. ring \in Seq(Record) /\ Len(ring) <= RingRoom
    BY DEF Inv, TypeOK
  <2> QED
    BY <2>1
<1>3. proc \in [Pids -> Places \cup {Gone}]
  BY DEF Inv, TypeOK
<1>4. \A i \in DOMAIN ring :
        /\ ring'[i] \in Record /\ ring'[i].id = ring[i].id
        /\ proc'[ring'[i].pid] \in ring'[i].seen \cup {Gone}
  <2> SUFFICES ASSUME NEW i \in DOMAIN ring
               PROVE  /\ ring'[i] \in Record /\ ring'[i].id = ring[i].id
                      /\ proc'[ring'[i].pid] \in ring'[i].seen \cup {Gone}
    OBVIOUS
  <2>1. /\ ring[i] \in Record /\ ring[i].pid \in Pids
        /\ proc[ring[i].pid] \in ring[i].seen \cup {Gone}
    <3>1. ring[i] \in Record
      BY <1>2
    <3>2. ring[i].pid \in Pids
      BY <3>1 DEF Record
    <3> QED
      BY <3>1, <3>2 DEF Inv, OrderInv
  <2>2. CASE ring[i].pid = p
    <3>1. ring'[i] = [ring[i] EXCEPT !.seen = ring[i].seen \cup {place}]
      BY <1>1, <2>2
    <3>2. proc'[p] = place
      BY <1>1, <1>3
    <3>3. /\ ring'[i] \in Record /\ ring'[i].id = ring[i].id /\ ring'[i].pid = p
          /\ ring'[i].seen = ring[i].seen \cup {place}
      BY <2>1, <2>2, <3>1 DEF Record
    <3> QED
      BY <3>2, <3>3
  <2>3. CASE ring[i].pid # p
    <3>1. ring'[i] = ring[i]
      BY <1>1, <2>3
    <3> QED
      BY <1>1, <1>3, <2>1, <2>3, <3>1
  <2> QED
    BY <2>2, <2>3
<1>5. ring' \in Seq(Record) /\ Len(ring') = Len(ring) /\ DOMAIN ring' = DOMAIN ring
  <2>1. DOMAIN ring' = 1..Len(ring) /\ ring' = [i \in 1..Len(ring) |-> ring'[i]]
    BY <1>1, <1>2
  <2> QED
    BY <1>2, <1>4, <2>1
<1>6. TypeOK'
  BY <1>1, <1>2, <1>3, <1>5 DEF Inv, TypeOK, sending
<1> QED
  BY <1>4, <1>5, <1>6, KernelStep

-----------------------------------------------------------------------------
\* Reports that move on within the probe, as the reader and the forwarder move them.
LEMMA ReportsMove ==
  ASSUME Inv, TypeOK', UNCHANGED <<nextId, net, stored>>,
         IdsOf(ring)' \subseteq IdsOf(ring),
         IdsOf(queue)' \subseteq IdsOf(queue) \cup IdsOf(ring),
         IdsOf(batch)' \subseteq IdsOf(batch) \cup IdsOf(queue),
         \/ UNCHANGED <<batch, forwarder>>
         \/ forwarder # "sending" /\ forwarder' = "filling",
         \A id \in Ids : fate[id] = "failed" => fate'[id] = "failed",
         FateIsTrue'
  PROVE  NetInv' /\ StoredInv'
<1>1. IdsOf(stored)' = IdsOf(stored)
  BY DEF IdsOf
<1>2. NetInv'
  <2>1. ASSUME NEW b \in net
        PROVE  /\ Sorted(b)
               /\ IdsOf(b) \cap IdsOf(stored) = {}
               /\ Below(IdsOf(b), IdsOf(queue)' \cup IdsOf(ring)' \cup {nextId})
               /\ \/ b = batch' /\ forwarder' = "sending"
                  \/ Below(IdsOf(b), IdsOf(batch)') /\ \A id \in IdsOf(b) : fate'[id] = "failed"
    <3>1. /\ Sorted(b)
          /\ IdsOf(b) \cap IdsOf(stored) = {}
          /\ Below(IdsOf(b), IdsOf(queue) \cup IdsOf(ring) \cup {nextId})
          /\ \/ b = batch /\ forwarder = "sending"
             \/ Below(IdsOf(b), IdsOf(batch)) /\ \A id \in IdsOf(b) : fate[id] = "failed"
      BY DEF Inv, NetInv
    <3>2. Below(IdsOf(b), IdsOf(queue)' \cup IdsOf(ring)' \cup {nextId})
      BY <3>1 DEF Below
    <3>3. IdsOf(b) \subseteq Ids
      BY Types DEF Inv
    <3>4. CASE b = batch /\ forwarder = "sending"
      BY <3>1, <3>2, <3>4
    <3>5. CASE Below(IdsOf(b), IdsOf(batch)) /\ \A id \in IdsOf(b) : fate[id] = "failed"
      <4>1. Below(IdsOf(b), IdsOf(batch)')
        BY <3>1, <3>5 DEF Below
      <4> QED
        BY <3>1, <3>2, <3>3, <3>5, <4>1
    <3> QED
      BY <3>1, <3>4, <3>5
  <2> QED
    BY <1>1, <2>1 DEF Inv, NetInv
<1>3. Below(IdsOf(stored)', IdsOf(queue)' \cup IdsOf(ring)' \cup {nextId'})
  BY <1>1 DEF Inv, StoredInv, Below
<1>4. forwarder' = "filling" \/ batch' \in net' => Below(IdsOf(stored)', IdsOf(batch)')
  <2>1. CASE UNCHANGED <<batch, forwarder>>
    BY <1>1, <2>1 DEF Inv, StoredInv
  <2>2. CASE forwarder # "sending" /\ forwarder' = "filling"
    <3>1. Below(IdsOf(stored), IdsOf(batch))
      <4>1. forwarder = "filling" \/ IdsOf(batch) = {}
        BY <2>2, Types DEF Inv, ForwarderInv, TypeOK
      <4> QED
        BY <4>1 DEF Inv, StoredInv, Below
    <3> QED
      BY <1>1, <3>1 DEF Inv, StoredInv, Below
  <2> QED
    BY <2>1, <2>2
<1>5. StoredOnceInOrder'
  BY OrderSurvives
<1> QED
  BY <1>2, <1>3, <1>4, <1>5 DEF StoredInv

LEMMA DrainStep ==
  ASSUME Inv, Drain
  PROVE  Inv'
<1> DEFINE r == ring[1]
<1>0. PICK place \in PlacesRead(r) :
        IF ~Keeps(r, place)
          THEN Decide({r.id}, "not converted") /\ UNCHANGED queue
          ELSE IF QueueHasRoom
            THEN queue' = Append(queue, [id |-> r.id, container |-> place]) /\ UNCHANGED fate
            ELSE Dropped(r.id) /\ UNCHANGED queue
  BY DEF Drain
<1> DEFINE e == [id |-> r.id, container |-> place]
<1>1. /\ reader = "draining" /\ ring # << >> /\ ring' = Tail(ring)
      /\ UNCHANGED <<proc, cpu, nextId, ready, notified, reader, sending, net, stored, phase>>
  BY DEF Drain, Readable
<1>2. \/ /\ Len(queue) < QueueLen /\ queue' = Append(queue, e) /\ UNCHANGED fate
      \/ /\ UNCHANGED queue
         /\ \E what \in {"not converted", "no room in the queue"} :
              fate' = [i \in Ids |-> IF i = r.id THEN what ELSE fate[i]]
  BY <1>0 DEF Dropped, Decide, QueueHasRoom
<1>3. TypeOK
  BY DEF Inv
<1>4. /\ Ids \subseteq Nat /\ nextId \in Nat /\ IdsOf(ring) \subseteq Ids
      /\ IdsOf(queue) \subseteq Ids /\ IdsOf(batch) \subseteq Ids /\ IdsOf(stored) \subseteq Ids
      /\ (\A x \in Record : x.id \in Ids) /\ (\A x \in AuditEvent : x.id \in Ids)
  BY <1>3, Types
<1>5. ring \in Seq(Record) /\ Len(ring) <= RingRoom /\ queue \in Seq(AuditEvent) /\ Len(queue) <= QueueLen
  BY <1>3 DEF TypeOK
<1>6. r \in Record /\ r.id \in Ids /\ r.pid \in Pids
  <2>1. 1 \in 1..Len(ring)
    BY <1>1, <1>5
  <2>2. r \in Record
    BY <1>5, <2>1
  <2> QED
    BY <2>2 DEF Record
<1>7. e \in AuditEvent /\ e.id = r.id
  <2>1. place \in Places
    BY <1>0, <1>3, <1>6 DEF PlacesRead, InCgroupFile, TypeOK, Places
  <2> QED
    BY <1>6, <2>1 DEF AuditEvent
<1> HIDE DEF e, r
<1>8. /\ IdsOf(ring) = {r.id} \cup IdsOf(ring)' /\ Below({r.id}, IdsOf(ring)') /\ Sorted(ring)'
      /\ ring' \in Seq(Record) /\ Len(ring') <= RingRoom
  <2>1. Sorted(ring)
    BY DEF Inv, OrderInv
  <2>2. /\ IdsOf(ring) = {r.id} \cup IdsOf(Tail(ring)) /\ Below({r.id}, IdsOf(Tail(ring)))
        /\ Sorted(Tail(ring))
    BY <1>1, <1>4, <1>5, <2>1, TailIds DEF r
  <2>3. Tail(ring) \in Seq(Record) /\ Len(Tail(ring)) = Len(ring) - 1 /\ Len(ring) \in Nat
    BY <1>1, <1>5
  <2> QED
    BY <1>1, <1>5, <2>2, <2>3, ProbePipelineAssumption
<1>9. /\ r.id \in IdsOf(ring) /\ r.id \notin IdsOf(ring)' /\ r.id \notin IdsOf(queue) /\ r.id \notin IdsOf(batch)
      /\ r.id < nextId /\ fate[r.id] = "none"
  <2>1. r.id \in IdsOf(ring)
    BY <1>8
  <2>2. r.id \notin IdsOf(ring)' /\ r.id \notin IdsOf(queue) /\ r.id \notin IdsOf(batch)
    <3>1. /\ \A x \in IdsOf(ring)' : r.id < x
          /\ \A x \in IdsOf(queue) : x < r.id
          /\ \A x \in IdsOf(batch) : x < r.id
      BY <1>8, <2>1 DEF Inv, OrderInv, Below
    <3>2. r.id \in Nat
      BY <1>4, <1>6, Zenon
    <3> QED
      BY <3>1, <3>2
  <2>3. r.id < nextId
    BY <2>1 DEF Inv, OrderInv, Below, HeldIds
  <2>4. fate[r.id] = "none"
    BY <1>6, <2>1 DEF Inv, FateInv, HeldIds
  <2> QED
    BY <2>1, <2>2, <2>3, <2>4
<1>10. \/ /\ IdsOf(queue)' = IdsOf(queue) \cup {r.id} /\ UNCHANGED fate
       \/ /\ IdsOf(queue)' = IdsOf(queue)
          /\ \A id \in Ids : id # r.id => fate'[id] = fate[id]
          /\ fate'[r.id] \in {"not converted", "no room in the queue"}
  <2>1. CASE queue' = Append(queue, e) /\ UNCHANGED fate
    <3>1. \A x \in AuditEvent : x.id \in Ids
      BY <1>4
    <3>2. IdsOf(Append(queue, e)) = IdsOf(queue) \cup {e.id}
      <4>1. queue \in Seq(AuditEvent) /\ e \in AuditEvent
        BY <1>5, <1>7
      <4> QED
        BY ONLY <3>1, <4>1, AppendIds
    <3> QED
      BY <1>7, <2>1, <3>2
  <2>2. ASSUME UNCHANGED queue, NEW what \in {"not converted", "no room in the queue"},
               fate' = [i \in Ids |-> IF i = r.id THEN what ELSE fate[i]]
        PROVE  /\ IdsOf(queue)' = IdsOf(queue)
               /\ \A id \in Ids : id # r.id => fate'[id] = fate[id]
               /\ fate'[r.id] \in {"not converted", "no room in the queue"}
    BY <1>6, <2>2 DEF IdsOf
  <2> QED
    BY <1>2, <2>1, <2>2
<1>11. Sorted(queue)' /\ queue' \in Seq(AuditEvent) /\ Len(queue') <= QueueLen
  <2>1. Sorted(queue) /\ Below(IdsOf(queue), {r.id})
    BY <1>9 DEF Inv, OrderInv, Below
  <2>2. CASE Len(queue) < QueueLen /\ queue' = Append(queue, e)
    <3>1. Sorted(Append(queue, e))
      BY <1>4, <1>5, <1>7, <2>1, AppendIds
    <3>2. Append(queue, e) \in Seq(AuditEvent) /\ Len(Append(queue, e)) = Len(queue) + 1 /\ Len(queue) \in Nat
      BY <1>5, <1>7
    <3> QED
      BY <2>2, <3>1, <3>2, ProbePipelineAssumption
  <2>3. CASE UNCHANGED queue
    BY <1>5, <2>1, <2>3 DEF Sorted
  <2> QED
    BY <1>2, <2>2, <2>3
<1>12. HeldIds' = IdsOf(batch) \cup IdsOf(queue)' \cup IdsOf(ring)' /\ IdsOf(batch)' = IdsOf(batch)
  BY <1>1 DEF HeldIds, sending
<1>13. TypeOK'
  <2>1. fate' \in [Ids -> {"none", "no room in the ring", "not converted", "no room in the queue",
                            "sent", "refused", "failed"}]
    BY <1>2, <1>3 DEF TypeOK
  <2> QED
    BY <1>1, <1>3, <1>8, <1>11, <2>1 DEF TypeOK, sending
<1>14. OrderInv'
  <2>1. Sorted(batch)'
    BY <1>1 DEF Inv, OrderInv, Sorted, sending
  <2>2. /\ Below(IdsOf(batch)', IdsOf(queue)') /\ Below(IdsOf(batch)', IdsOf(ring)')
        /\ Below(IdsOf(queue)', IdsOf(ring)')
    BY <1>8, <1>9, <1>10, <1>12 DEF Inv, OrderInv, Below
  <2>3. HeldIds' \subseteq HeldIds
    BY <1>8, <1>10, <1>12 DEF HeldIds
  <2>4. Below(HeldIds', {nextId'})
    BY <1>1, <2>3 DEF Inv, OrderInv, Below
  <2>5. ASSUME NEW i \in DOMAIN ring'
        PROVE  proc'[ring'[i].pid] \in ring'[i].seen \cup {Gone}
    <3>1. i + 1 \in DOMAIN ring /\ ring'[i] = ring[i + 1]
      BY <1>1, <1>5
    <3> QED
      BY <1>1, <2>5, <3>1 DEF Inv, OrderInv
  <2> QED
    BY <1>8, <1>11, <2>1, <2>2, <2>4, <2>5 DEF OrderInv
<1>15. FateInv'
  <2> SUFFICES ASSUME NEW id \in Ids
               PROVE  fate'[id] = "none" <=> id \in HeldIds' \/ id >= nextId'
    BY DEF FateInv
  <2>1. fate[id] = "none" <=> id \in HeldIds \/ id >= nextId
    BY DEF Inv, FateInv
  <2>2. CASE id = r.id
    <3>1. ~(id >= nextId') /\ id \notin IdsOf(batch) \cup IdsOf(ring)'
      BY <1>1, <1>4, <1>6, <1>9, <2>2
    <3> QED
      BY <1>9, <1>10, <1>12, <2>2, <3>1
  <2>3. CASE id # r.id
    <3>1. id \in HeldIds' <=> id \in HeldIds
      BY <1>8, <1>10, <1>12, <2>3 DEF HeldIds
    <3> QED
      BY <1>1, <1>10, <2>1, <2>3, <3>1
  <2> QED
    BY <2>2, <2>3
<1>16. ForwarderInv'
  <2>1. forwarder # "done"
    BY <1>1 DEF Inv, ForwarderInv
  <2> QED
    BY <1>1, <2>1 DEF Inv, ForwarderInv, sending
<1>17. FateIsTrue'
  <2>1. r.id \notin IdsOf(stored) /\ \A b \in net : r.id \notin IdsOf(b)
    <3>1. /\ \A x \in IdsOf(stored) : x < r.id
          /\ \A b \in net : \A x \in IdsOf(b) : x < r.id
      BY <1>9 DEF Inv, StoredInv, NetInv, Below
    <3>2. r.id \in Nat
      BY <1>4, <1>6, Zenon
    <3> QED
      BY <3>1, <3>2
  <2>2. UNCHANGED <<stored, net>> /\ IdsOf(stored)' = IdsOf(stored)
    BY <1>1
  <2> QED
    BY <1>10, <2>1, <2>2 DEF Inv, StoredInv, FateIsTrue
<1>18. NetInv' /\ StoredInv'
  <2>1. UNCHANGED <<nextId, net, stored, batch, forwarder>>
    BY <1>1 DEF sending
  <2>2. IdsOf(ring)' \subseteq IdsOf(ring) /\ IdsOf(queue)' \subseteq IdsOf(queue) \cup IdsOf(ring)
    BY <1>8, <1>9, <1>10
  <2>3. \A id \in Ids : fate[id] = "failed" => fate'[id] = "failed"
    BY <1>9, <1>10
  <2> QED
    BY <1>12, <1>13, <1>17, <2>1, <2>2, <2>3, ReportsMove
<1> QED
  BY <1>13, <1>14, <1>15, <1>16, <1>18 DEF Inv

-----------------------------------------------------------------------------
\* The forwarder takes the first n events of the queue.
LEMMA TakeStep ==
  ASSUME Inv, NEW n \in 1..Len(queue), Len(batch) + n <= BatchSize,
         batch' = batch \o SubSeq(queue, 1, n),
         queue' = SubSeq(queue, n + 1, Len(queue)),
         forwarder \in {"idle", "filling"}, forwarder' = "filling",
         UNCHANGED <<kernel, ready, notified, reader, reply, net, stored, phase, fate>>
  PROVE  Inv'
<1> USE DEF kernel
<1>1. TypeOK
  BY DEF Inv
<1>2. /\ Ids \subseteq Nat /\ nextId \in Nat
      /\ IdsOf(ring) \subseteq Ids /\ IdsOf(queue) \subseteq Ids /\ IdsOf(batch) \subseteq Ids
      /\ \A x \in AuditEvent : x.id \in Ids
  BY <1>1, Types
<1>3. queue \in Seq(AuditEvent) /\ batch \in Seq(AuditEvent) /\ Len(queue) <= QueueLen
  BY <1>1 DEF TypeOK
<1> DEFINE taken == SubSeq(queue, 1, n)
<1>4. /\ taken \in Seq(AuditEvent) /\ Len(taken) = n
      /\ queue' \in Seq(AuditEvent) /\ Len(queue') = Len(queue) - n
      /\ IdsOf(queue) = IdsOf(taken) \cup IdsOf(queue')
      /\ Sorted(queue) => Sorted(taken) /\ Sorted(queue') /\ Below(IdsOf(taken), IdsOf(queue'))
  <2>1. n \in 0..Len(queue)
    BY <1>3
  <2> QED
    BY <1>2, <1>3, <2>1, SplitIds, ZenonT(20)
<1>5. batch' = batch \o taken
  OBVIOUS
<1> HIDE DEF taken
<1>6. Sorted(queue) /\ Sorted(batch) /\ Sorted(ring) /\ Below(IdsOf(batch), IdsOf(queue))
  BY DEF Inv, OrderInv
<1>7. Below(IdsOf(batch), IdsOf(taken))
  BY <1>4, <1>6 DEF Below
<1>8. IdsOf(batch') = IdsOf(batch) \cup IdsOf(taken) /\ Sorted(batch')
  <2>1. \A x \in AuditEvent : x.id \in Ids
    BY <1>2
  <2>2. Sorted(taken)
    BY <1>4, <1>6
  <2>3. taken \in Seq(AuditEvent)
    BY <1>4
  <2>4. /\ IdsOf(batch \o taken) = IdsOf(batch) \cup IdsOf(taken)
        /\ Sorted(batch \o taken)
    BY <1>3, <1>6, <1>7, <2>1, <2>2, <2>3, ConcatIds, ZenonT(20)
  <2> QED
    BY <1>5, <2>4
<1>9. batch' \in Seq(AuditEvent) /\ Len(batch') = Len(batch) + n /\ Len(batch) \in Nat /\ n \in Nat \ {0}
  <2>1. /\ batch \o taken \in Seq(AuditEvent) /\ Len(batch \o taken) = Len(batch) + Len(taken)
        /\ Len(batch) \in Nat
    <3>1. batch \in Seq(AuditEvent) /\ taken \in Seq(AuditEvent)
      BY <1>3, <1>4
    <3> QED
      BY <3>1, ConcatType
  <2>2. n \in Nat \ {0} /\ Len(taken) = n
    BY <1>4
  <2> QED
    BY <1>5, <2>1, <2>2
<1>10. HeldIds' = HeldIds /\ IdsOf(ring)' = IdsOf(ring)
  BY <1>4, <1>8 DEF HeldIds
<1>11. TypeOK'
  <2>1. Len(queue') <= QueueLen
    BY <1>3, <1>4, ProbePipelineAssumption
  <2> QED
    BY <1>1, <1>4, <1>9, <2>1 DEF TypeOK
<1>12. OrderInv'
  <2>1. Below(IdsOf(batch)', IdsOf(queue)')
    BY <1>4, <1>6, <1>8 DEF Below
  <2>2. Below(IdsOf(batch)', IdsOf(ring)') /\ Below(IdsOf(queue)', IdsOf(ring)')
    BY <1>4, <1>8, <1>10 DEF Inv, OrderInv, Below
  <2> QED
    BY <1>4, <1>6, <1>8, <1>10, <2>1, <2>2 DEF Inv, OrderInv
<1>13. FateInv'
  BY <1>10 DEF Inv, FateInv
<1>14. ForwarderInv'
  <2>1. batch' # << >>
    <3>1. Len(batch') # 0
      BY <1>9
    <3> QED
      BY <3>1
  <2>2. reply = "none"
    BY <1>1 DEF Inv, ForwarderInv
  <2> QED
    BY <2>1, <2>2 DEF ForwarderInv
<1>15. NetInv' /\ StoredInv'
  <2>1. FateIsTrue'
    BY DEF Inv, StoredInv, FateIsTrue
  <2>2. IdsOf(queue)' \subseteq IdsOf(queue) \cup IdsOf(ring) /\ IdsOf(batch)' \subseteq IdsOf(batch) \cup IdsOf(queue)
    BY <1>4, <1>8
  <2> QED
    BY <1>10, <1>11, <2>1, <2>2, ReportsMove
<1> QED
  BY <1>11, <1>12, <1>13, <1>14, <1>15 DEF Inv

LEMMA ReceiveStep ==
  ASSUME Inv, ReceiveFirst \/ ReceiveMore
  PROVE  Inv'
<1>1. queue \in Seq(AuditEvent) /\ batch \in Seq(AuditEvent) /\ queue # << >>
      /\ Len(batch) \in Nat /\ Len(queue) \in Nat \ {0}
  <2>1. queue \in Seq(AuditEvent) /\ batch \in Seq(AuditEvent) /\ queue # << >>
    BY DEF Inv, TypeOK, ReceiveFirst, ReceiveMore
  <2> QED
    BY <2>1
<1>2. ASSUME NEW limit \in Nat \ {0}, Receive(limit), Len(batch) + limit <= BatchSize,
             forwarder \in {"idle", "filling"}, forwarder' = "filling",
             UNCHANGED <<kernel, ready, notified, reader, reply, net, stored, phase, fate>>
      PROVE  Inv'
  <2> DEFINE n == MinOf(limit, Len(queue))
  <2>1. n \in 1..Len(queue) /\ n <= limit
    BY <1>1 DEF MinOf
  <2>2. batch' = batch \o SubSeq(queue, 1, n) /\ queue' = SubSeq(queue, n + 1, Len(queue))
    BY <1>2 DEF Receive
  <2>3. Len(batch) + n <= BatchSize
    BY <1>1, <1>2, <2>1, ProbePipelineAssumption
  <2> HIDE DEF n
  <2> QED
    BY <1>2, <2>1, <2>2, <2>3, TakeStep
<1>3. CASE ReceiveFirst
  <2>1. Len(batch) = 0
    BY <1>1, <1>3 DEF ReceiveFirst, Inv, ForwarderInv
  <2>2. BatchSize \in Nat \ {0} /\ Len(batch) + BatchSize <= BatchSize
    BY <2>1, ProbePipelineAssumption
  <2> QED
    BY <1>2, <1>3, <2>2 DEF ReceiveFirst
<1>4. CASE ReceiveMore
  <2>1. Room \in Nat \ {0} /\ Len(batch) + Room <= BatchSize
    BY <1>1, <1>4, ProbePipelineAssumption DEF ReceiveMore, Room
  <2> QED
    BY <1>2, <1>4, <2>1 DEF ReceiveMore
<1> QED
  BY <1>3, <1>4

-----------------------------------------------------------------------------
LEMMA SendStep ==
  ASSUME Inv, Send
  PROVE  Inv'
<1>1. /\ forwarder = "filling" /\ forwarder' = "sending" /\ net' = net \cup {batch}
      /\ UNCHANGED <<proc, ring, cpu, nextId, ready, notified, reader, queue, batch, reply, stored,
                     phase, fate>>
  BY DEF Send, kernel
<1>2. TypeOK
  BY DEF Inv
<1>3. Ids \subseteq Nat /\ IdsOf(batch) \subseteq Ids /\ \A b \in net : IdsOf(b) \subseteq Ids
  BY <1>2, Types
<1>4. batch # << >> /\ reply = "none"
  BY <1>1, <1>2 DEF Inv, ForwarderInv, TypeOK
<1>5. /\ UNCHANGED <<IdsOf(ring), IdsOf(queue), IdsOf(batch), IdsOf(stored)>>
      /\ HeldIds' = HeldIds
  BY <1>1 DEF HeldIds
<1>6. TypeOK'
  <2>1. batch \in Seq(AuditEvent) /\ Len(batch) <= BatchSize
    BY <1>2 DEF TypeOK
  <2>2. Len(batch) \in 1..BatchSize
    BY <1>4, <2>1, ProbePipelineAssumption
  <2> QED
    BY <1>1, <1>2, <2>1, <2>2 DEF TypeOK
<1>7. OrderInv'
  BY <1>1, <1>5 DEF Inv, OrderInv, Sorted
<1>8. FateInv'
  BY <1>1, <1>5 DEF Inv, FateInv
<1>9. ForwarderInv'
  BY <1>1, <1>4 DEF ForwarderInv
<1>10. Below(IdsOf(stored), IdsOf(batch)) /\ \A b \in net : Below(IdsOf(b), IdsOf(batch))
  BY <1>1 DEF Inv, StoredInv, NetInv
<1>11. /\ \A id \in IdsOf(batch) : fate[id] = "none" /\ id < nextId
       /\ IdsOf(batch) \cap IdsOf(stored) = {}
       /\ \A b \in net : IdsOf(b) \cap IdsOf(batch) = {}
  <2>1. \A id \in IdsOf(batch) : fate[id] = "none" /\ id < nextId
    BY <1>3 DEF Inv, FateInv, OrderInv, HeldIds, Below
  <2>2. \A id \in IdsOf(batch) : ~(id < id)
    <3>1. IdsOf(batch) \subseteq Nat
      BY <1>3, Zenon
    <3> QED
      BY <3>1
  <2> QED
    BY <1>10, <2>1, <2>2 DEF Below
<1>12. NetInv'
  <2>1. /\ Sorted(batch)
        /\ Below(IdsOf(batch), IdsOf(queue) \cup IdsOf(ring) \cup {nextId})
    BY <1>11 DEF Inv, OrderInv, Below
  <2>2. ASSUME NEW b \in net
        PROVE  /\ Sorted(b)
               /\ IdsOf(b) \cap IdsOf(stored) = {}
               /\ Below(IdsOf(b), IdsOf(queue) \cup IdsOf(ring) \cup {nextId})
               /\ Below(IdsOf(b), IdsOf(batch)) /\ \A id \in IdsOf(b) : fate[id] = "failed"
    BY <1>1 DEF Inv, NetInv
  <2>3. \A b, d \in net \cup {batch} : b # d => IdsOf(b) \cap IdsOf(d) = {}
    BY <1>11 DEF Inv, NetInv
  <2>4. \A b \in net' : b \in net \/ b = batch
    BY <1>1
  <2> QED
    BY <1>1, <1>5, <1>11, <2>1, <2>2, <2>3, <2>4 DEF NetInv
<1>13. StoredInv'
  <2>1. FateIsTrue'
    BY <1>1, <1>5, <1>3, <1>11 DEF Inv, StoredInv, FateIsTrue
  <2>2. StoredOnceInOrder'
    BY <1>1, OrderSurvives
  <2> QED
    BY <1>1, <1>5, <1>10, <2>1, <2>2 DEF Inv, StoredInv
<1> QED
  BY <1>6, <1>7, <1>8, <1>9, <1>12, <1>13 DEF Inv

\* The forwarder is done with its batch, and tells of it as it may.
LEMMA OverStep ==
  ASSUME Inv, forwarder = "sending", NEW what \in {"sent", "refused", "failed"}, Over(what),
         what # "failed" => reply = what,
         UNCHANGED <<kernel, ready, notified, reader, queue, net, stored, phase>>
  PROVE  Inv'
<1>1. /\ fate' = [i \in Ids |-> IF i \in IdsOf(batch) THEN what ELSE fate[i]]
      /\ batch' = << >> /\ reply' = "none" /\ forwarder' = "idle"
      /\ UNCHANGED <<proc, ring, cpu, nextId, ready, notified, reader, queue, net, stored, phase>>
  BY DEF Over, Decide, kernel
<1>2. TypeOK
  BY DEF Inv
<1>3. /\ Ids \subseteq Nat /\ IdsOf(batch) \subseteq Ids /\ nextId \in Nat
      /\ \A b \in net : IdsOf(b) \subseteq Ids
  BY <1>2, Types
<1>4. /\ UNCHANGED <<IdsOf(ring), IdsOf(queue), IdsOf(stored)>>
      /\ IdsOf(batch') = {}
      /\ HeldIds' = IdsOf(queue) \cup IdsOf(ring)
  BY <1>1 DEF HeldIds, IdsOf
<1>5. /\ \A id \in Ids : id \notin IdsOf(batch) => fate'[id] = fate[id]
      /\ \A id \in IdsOf(batch) : fate[id] = "none" /\ fate'[id] = what /\ id < nextId
  BY <1>1, <1>3 DEF Inv, FateInv, OrderInv, HeldIds, Below
<1>6. IdsOf(batch) \cap (IdsOf(queue) \cup IdsOf(ring)) = {}
  <2>1. \A id \in IdsOf(batch) : ~(id < id)
    <3>1. IdsOf(batch) \subseteq Nat
      BY <1>3, Zenon
    <3> QED
      BY <3>1
  <2> QED
    BY <2>1 DEF Inv, OrderInv, Below
<1>7. \A b \in net : b # batch => IdsOf(b) \cap IdsOf(batch) = {} /\ \A id \in IdsOf(b) : fate'[id] = "failed"
  <2> SUFFICES ASSUME NEW b \in net, b # batch
               PROVE  IdsOf(b) \cap IdsOf(batch) = {} /\ \A id \in IdsOf(b) : fate'[id] = "failed"
    OBVIOUS
  <2>1. \A id \in IdsOf(b) : fate[id] = "failed"
    BY DEF Inv, NetInv
  <2> QED
    BY <1>3, <1>5, <2>1
<1>8. TypeOK'
  <2>1. fate' \in [Ids -> {"none", "no room in the ring", "not converted", "no room in the queue",
                            "sent", "refused", "failed"}]
    BY <1>1, <1>2 DEF TypeOK
  <2>2. batch' \in Seq(AuditEvent) /\ Len(batch') <= BatchSize
    BY <1>1, ProbePipelineAssumption
  <2> QED
    BY <1>1, <1>2, <2>1, <2>2 DEF TypeOK
<1>9. OrderInv'
  <2>1. Sorted(batch')
    BY <1>1 DEF Sorted
  <2>2. Below(IdsOf(batch'), IdsOf(queue)) /\ Below(IdsOf(batch'), IdsOf(ring))
    BY <1>4 DEF Below
  <2>3. Below(HeldIds', {nextId})
    BY <1>4 DEF Inv, OrderInv, Below, HeldIds
  <2> QED
    BY <1>1, <1>4, <2>1, <2>2, <2>3 DEF Inv, OrderInv, Sorted
<1>10. FateInv'
  <2> SUFFICES ASSUME NEW id \in Ids
               PROVE  fate'[id] = "none" <=> id \in HeldIds' \/ id >= nextId'
    BY DEF FateInv
  <2>1. fate[id] = "none" <=> id \in HeldIds \/ id >= nextId
    BY DEF Inv, FateInv
  <2>2. CASE id \in IdsOf(batch)
    <3>1. ~(id >= nextId')
      BY <1>1, <1>3, <1>5, <2>2
    <3> QED
      BY <1>4, <1>5, <1>6, <2>2, <3>1
  <2>3. CASE id \notin IdsOf(batch)
    BY <1>1, <1>4, <1>5, <2>1, <2>3 DEF HeldIds
  <2> QED
    BY <2>2, <2>3
<1>11. ForwarderInv'
  BY <1>1 DEF ForwarderInv
<1>12. what # "failed" => batch \notin net
  BY DEF Inv, ForwarderInv
<1>13. NetInv'
  <2>1. \A b \in net : \A id \in IdsOf(b) : fate'[id] = "failed"
    BY <1>5, <1>7, <1>12
  <2>2. \A b \in net : Below(IdsOf(b), IdsOf(batch'))
    BY <1>4 DEF Below
  <2> QED
    BY <1>1, <1>4, <2>1, <2>2 DEF Inv, NetInv
<1>14. StoredInv'
  <2>1. StoredOnceInOrder'
    <3>1. \A id \in Ids : fate[id] = "failed" => fate'[id] = "failed"
      BY <1>5
    <3> QED
      BY <1>1, <3>1, OrderSurvives
  <2>2. FateIsTrue'
    <3> SUFFICES ASSUME NEW id \in Ids
                 PROVE  /\ fate'[id] = "sent" => id \in IdsOf(stored)
                        /\ fate'[id] \notin {"none", "sent", "failed"} =>
                             id \notin IdsOf(stored) /\ \A b \in net : id \notin IdsOf(b)
      BY <1>1, <1>4 DEF FateIsTrue
    <3>1. CASE id \notin IdsOf(batch)
      BY <1>5, <3>1 DEF Inv, StoredInv, FateIsTrue
    <3>2. CASE id \in IdsOf(batch)
      <4>1. CASE what = "sent"
        BY <1>5, <3>2, <4>1 DEF Inv, ForwarderInv
      <4>2. CASE what = "refused"
        BY <1>5, <1>7, <1>12, <3>2, <4>2 DEF Inv, ForwarderInv
      <4>3. CASE what = "failed"
        BY <1>5, <3>2, <4>3
      <4> QED
        BY <4>1, <4>2, <4>3
    <3> QED
      BY <3>1, <3>2
  <2>3. Below(IdsOf(stored), IdsOf(batch'))
    BY <1>4 DEF Below
  <2> QED
    BY <1>1, <1>4, <2>1, <2>2, <2>3 DEF Inv, StoredInv
<1> QED
  BY <1>8, <1>9, <1>10, <1>11, <1>13, <1>14 DEF Inv

LEMMA OutcomeStep ==
  ASSUME Inv, Replied \/ GiveUp
  PROVE  Inv'
<1>1. CASE Replied
  <2>1. reply \in {"sent", "refused"}
    BY <1>1 DEF Inv, TypeOK, Replied
  <2> QED
    BY <1>1, <2>1, OverStep DEF Replied, Outcome
<1>2. CASE GiveUp
  BY <1>2, OverStep DEF GiveUp, Unanswered
<1> QED
  BY <1>1, <1>2

LEMMA FinishStep ==
  ASSUME Inv, Finish
  PROVE  Inv'
<1>1. /\ forwarder = "idle" /\ forwarder' = "done" /\ reader = "stopped" /\ queue = << >>
      /\ UNCHANGED <<proc, ring, cpu, nextId, ready, notified, reader, queue, batch, reply, net, stored,
                     phase, fate>>
  BY DEF Finish, Closed, NothingQueued, kernel
<1>2. HeldIds' = HeldIds
  BY <1>1 DEF HeldIds
<1>3. TypeOK'
  BY <1>1 DEF Inv, TypeOK
<1>4. OrderInv'
  BY <1>1, <1>2 DEF Inv, OrderInv, Sorted
<1>5. FateInv'
  BY <1>1, <1>2 DEF Inv, FateInv
<1>6. ForwarderInv'
  BY <1>1 DEF Inv, ForwarderInv
<1>7. NetInv'
  BY <1>1 DEF Inv, NetInv
<1>8. StoredInv'
  BY <1>1, OrderSurvives DEF Inv, StoredInv, FateIsTrue
<1> QED
  BY <1>3, <1>4, <1>5, <1>6, <1>7, <1>8 DEF Inv

-----------------------------------------------------------------------------
\* A request that leaves the network without effect on what is stored.
LEMMA GoneStep ==
  ASSUME Inv, NEW b \in net, Refuse(b) \/ Lose(b)
  PROVE  Inv'
<1>1. /\ net' = net \ {b}
      /\ UNCHANGED <<kernel, ready, notified, reader, queue, forwarder, batch, stored, phase, fate>>
      /\ \/ UNCHANGED reply
         \/ reply' = "refused" /\ forwarder = "sending" /\ batch = b
  BY DEF Refuse, Lose, Answer, sending
<1>2. UNCHANGED <<IdsOf(ring), IdsOf(queue), IdsOf(batch), IdsOf(stored), HeldIds>>
  BY <1>1 DEF HeldIds, kernel
<1>3. TypeOK'
  BY <1>1 DEF Inv, TypeOK, kernel
<1>4. OrderInv'
  BY <1>1, <1>2 DEF Inv, OrderInv, Sorted, kernel
<1>5. FateInv'
  BY <1>1, <1>2 DEF Inv, FateInv, kernel
<1>6. ForwarderInv'
  <2>1. CASE UNCHANGED reply
    BY <1>1, <1>2, <2>1 DEF Inv, ForwarderInv
  <2>2. CASE reply' = "refused" /\ forwarder = "sending" /\ batch = b
    <3>1. IdsOf(batch) \cap IdsOf(stored) = {} /\ batch \notin net'
      BY <1>1, <2>2 DEF Inv, NetInv
    <3> QED
      BY <1>1, <1>2, <2>2, <3>1 DEF Inv, ForwarderInv
  <2> QED
    BY <1>1, <2>1, <2>2
<1>7. NetInv'
  BY <1>1, <1>2 DEF Inv, NetInv, kernel
<1>8. StoredInv'
  <2>1. StoredOnceInOrder'
    BY <1>1, OrderSurvives
  <2>2. FateIsTrue'
    BY <1>1, <1>2 DEF Inv, StoredInv, FateIsTrue
  <2> QED
    BY <1>1, <1>2, <2>1, <2>2 DEF Inv, StoredInv, kernel
<1> QED
  BY <1>3, <1>4, <1>5, <1>6, <1>7, <1>8 DEF Inv

\* The agent stores a batch: the one that is being sent, or one that was given up.
LEMMA AcceptStep ==
  ASSUME Inv, NEW b \in net, Accept(b)
  PROVE  Inv'
<1>1. /\ net' = net \ {b} /\ stored' = stored \o b
      /\ UNCHANGED <<proc, ring, cpu, nextId, ready, notified, reader, queue, forwarder, batch, phase, fate>>
      /\ \/ UNCHANGED reply
         \/ reply' = "sent" /\ forwarder = "sending" /\ batch = b
  BY DEF Accept, Answer, kernel
<1>2. TypeOK
  BY DEF Inv
<1>3. /\ \A x \in AuditEvent : x.id \in Ids
      /\ b \in Seq(AuditEvent) /\ b # << >>
      /\ stored \in Seq(AuditEvent)
  BY <1>2, Types DEF TypeOK
<1>4. IdsOf(stored') = IdsOf(stored) \cup IdsOf(b) /\ stored' \in Seq(AuditEvent)
  <2>1. IdsOf(stored \o b) = IdsOf(stored) \cup IdsOf(b) /\ stored \o b \in Seq(AuditEvent)
    BY <1>3, ConcatIds
  <2> QED
    BY <1>1, <2>1
<1>5. UNCHANGED <<IdsOf(ring), IdsOf(queue), IdsOf(batch), HeldIds>>
  BY <1>1 DEF HeldIds
<1>6. /\ Sorted(b)
      /\ IdsOf(b) \cap IdsOf(stored) = {}
      /\ Below(IdsOf(b), IdsOf(queue) \cup IdsOf(ring) \cup {nextId})
      /\ \/ b = batch /\ forwarder = "sending"
         \/ Below(IdsOf(b), IdsOf(batch)) /\ \A id \in IdsOf(b) : fate[id] = "failed"
      /\ \A d \in net : b # d => IdsOf(b) \cap IdsOf(d) = {}
  BY DEF Inv, NetInv
<1>7. TypeOK'
  BY <1>1, <1>2, <1>4 DEF TypeOK
<1>8. OrderInv'
  BY <1>1, <1>5 DEF Inv, OrderInv, Sorted
<1>9. FateInv'
  BY <1>1, <1>5 DEF Inv, FateInv
<1>10. ForwarderInv'
  <2>1. CASE reply' = "sent" /\ forwarder = "sending" /\ batch = b
    BY <1>1, <1>4, <1>5, <2>1 DEF Inv, ForwarderInv
  <2>2. CASE UNCHANGED reply
    <3>1. reply = "refused" => IdsOf(batch) \cap IdsOf(b) = {}
      <4>1. SUFFICES ASSUME reply = "refused"
                     PROVE  IdsOf(batch) \cap IdsOf(b) = {}
        OBVIOUS
      <4>2. b # batch
        BY <4>1 DEF Inv, ForwarderInv
      <4>3. Below(IdsOf(b), IdsOf(batch))
        BY <1>6, <4>2
      <4>4. IdsOf(batch) \subseteq Nat
        BY <1>2, Types
      <4> QED
        BY <4>3, <4>4 DEF Below
    <3> QED
      BY <1>1, <1>4, <1>5, <2>2, <3>1 DEF Inv, ForwarderInv
  <2> QED
    BY <1>1, <2>1, <2>2
<1>11. NetInv'
  <2>1. ASSUME NEW d \in net'
        PROVE  IdsOf(d) \cap IdsOf(stored') = {}
    BY <1>1, <1>4, <1>6, <2>1 DEF Inv, NetInv
  <2> QED
    BY <1>1, <1>5, <2>1 DEF Inv, NetInv
<1>12. Below(IdsOf(stored'), IdsOf(queue) \cup IdsOf(ring) \cup {nextId})
  BY <1>4, <1>6 DEF Inv, StoredInv, Below
<1>13. forwarder = "filling" \/ batch \in net' => Below(IdsOf(stored'), IdsOf(batch))
  <2> SUFFICES ASSUME forwarder = "filling" \/ batch \in net'
               PROVE  Below(IdsOf(stored'), IdsOf(batch))
    OBVIOUS
  <2>1. Below(IdsOf(stored), IdsOf(batch))
    BY <1>1 DEF Inv, StoredInv
  <2>2. Below(IdsOf(b), IdsOf(batch))
    BY <1>1, <1>6
  <2> QED
    BY <1>4, <2>1, <2>2 DEF Below
<1>14. FateIsTrue'
  <2> SUFFICES ASSUME NEW id \in Ids
               PROVE  /\ fate[id] = "sent" => id \in IdsOf(stored')
                      /\ fate[id] \notin {"none", "sent", "failed"} =>
                           id \notin IdsOf(stored') /\ \A d \in net' : id \notin IdsOf(d)
    BY <1>1 DEF FateIsTrue
  <2>1. /\ fate[id] = "sent" => id \in IdsOf(stored)
        /\ fate[id] \notin {"none", "sent", "failed"} =>
             id \notin IdsOf(stored) /\ \A d \in net : id \notin IdsOf(d)
    BY DEF Inv, StoredInv, FateIsTrue
  <2> QED
    BY <1>1, <1>4, <2>1
<1>15. StoredOnceInOrder'
  <2>1. /\ Len(stored') = Len(stored) + Len(b) /\ Len(stored) \in Nat /\ Len(b) \in Nat
        /\ DOMAIN stored' = 1..Len(stored') /\ DOMAIN stored = 1..Len(stored) /\ DOMAIN b = 1..Len(b)
        /\ \A i \in 1..Len(stored) : stored'[i] = stored[i]
    BY <1>1, <1>3
  <2>2. \A i \in 1..Len(stored') : i \notin 1..Len(stored) =>
          i - Len(stored) \in 1..Len(b) /\ stored'[i] = b[i - Len(stored)]
    BY <1>1, <1>3
  <2>3. \A i \in 1..Len(stored) : stored[i].id \in IdsOf(stored)
    BY <2>1 DEF IdsOf
  <2>4. \A i \in 1..Len(b) : b[i].id \in IdsOf(b)
    BY <2>1 DEF IdsOf
  <2> SUFFICES ASSUME NEW i \in 1..Len(stored'), NEW j \in 1..Len(stored'), i < j
               PROVE  /\ stored'[i].id # stored'[j].id
                      /\ stored'[i].id < stored'[j].id \/ fate[stored'[j].id] = "failed"
    <3>1. fate' = fate
      BY <1>1
    <3> QED
      BY <2>1, <3>1 DEF StoredOnceInOrder
  <2>5. CASE j \in 1..Len(stored)
    <3>1. i \in 1..Len(stored)
      BY <2>1, <2>5
    <3> QED
      BY <2>1, <2>5, <3>1 DEF Inv, StoredInv, StoredOnceInOrder
  <2>6. CASE i \in 1..Len(stored) /\ j \notin 1..Len(stored)
    <3>1. stored'[i].id \in IdsOf(stored) /\ stored'[j].id \in IdsOf(b)
      BY <2>1, <2>2, <2>3, <2>4, <2>6
    <3>2. CASE b = batch
      <4>1. Below(IdsOf(stored), IdsOf(b))
        BY <3>2 DEF Inv, StoredInv
      <4> QED
        BY <1>6, <3>1, <4>1 DEF Below
    <3>3. CASE b # batch
      BY <1>6, <3>1, <3>3
    <3> QED
      BY <3>2, <3>3
  <2>7. CASE i \notin 1..Len(stored) /\ j \notin 1..Len(stored)
    <3>1. /\ i - Len(stored) \in 1..Len(b) /\ stored'[i] = b[i - Len(stored)]
          /\ j - Len(stored) \in 1..Len(b) /\ stored'[j] = b[j - Len(stored)]
      BY <2>2, <2>7
    <3>2. i - Len(stored) < j - Len(stored)
      BY <2>1
    <3>3. b[i - Len(stored)].id < b[j - Len(stored)].id
      BY <1>6, <2>1, <3>1, <3>2 DEF Sorted
    <3>4. b[i - Len(stored)].id \in Nat /\ b[j - Len(stored)].id \in Nat
      BY <1>2, <1>3, <3>1, Types, SMTT(20)
    <3> QED
      BY <3>1, <3>3, <3>4
  <2>8. j \notin 1..Len(stored) => i \in 1..Len(stored) \/ i \notin 1..Len(stored)
    OBVIOUS
  <2> QED
    BY <2>5, <2>6, <2>7
<1> QED
  BY <1>1, <1>5, <1>7, <1>8, <1>9, <1>10, <1>11, <1>12, <1>13, <1>14, <1>15 DEF Inv, StoredInv

-----------------------------------------------------------------------------
LEMMA NextInv == Inv /\ [Next]_vars => Inv'
<1> SUFFICES ASSUME Inv, [Next]_vars
             PROVE  Inv'
  OBVIOUS
<1>1. CASE UNCHANGED vars
  <2>1. UNCHANGED data /\ UNCHANGED reader
    BY <1>1 DEF vars, kernel, sending, data
  <2>2. TypeOK'
    BY <1>1 DEF Inv, TypeOK, vars, kernel, sending
  <2> QED
    BY <2>1, <2>2, QuietStep
<1>2. CASE \E c \in Cpus : Submit(c) \/ \E p \in Pids, usable \in BOOLEAN : Reserve(c, p, usable)
  BY <1>2, SubmitStep, ReserveStep
<1>3. CASE \E p \in Pids : End(p) \/ Start(p) \/ Move(p)
  BY <1>3, EndStep, RunsStep DEF Start, Move
<1>4. CASE Wake \/ Drained \/ ClearReady \/ Terminate \/ Abort \/ EndInOrder \/ EndAnyway
  BY <1>4, ControlStep
<1>5. CASE Drain
  BY <1>5, DrainStep
<1>6. CASE ReceiveFirst \/ ReceiveMore
  BY <1>6, ReceiveStep
<1>7. CASE Send
  BY <1>7, SendStep
<1>8. CASE Replied \/ GiveUp
  BY <1>8, OutcomeStep
<1>9. CASE Finish
  BY <1>9, FinishStep
<1>10. CASE \E b \in net : Accept(b) \/ Refuse(b) \/ Lose(b)
  BY <1>10, AcceptStep, GoneStep
<1> QED
  BY <1>1, <1>2, <1>3, <1>4, <1>5, <1>6, <1>7, <1>8, <1>9, <1>10 DEF Next

LEMMA SpecInv == Spec => []Inv
  BY InitInv, NextInv, PTL DEF Spec

\* Every variable stays in its type, and the ring buffer, the queue and a batch within
\* their sizes.
THEOREM ProbeTypes == Spec => []TypeOK
<1>1. Inv => TypeOK
  BY DEF Inv
<1> QED
  BY <1>1, SpecInv, PTL

\* A report is in one place of the probe or has one fate (read_events and forward of
\* crates/aegis-probe/src/main.rs, submit of the hooks).
THEOREM NothingIsLost == Spec => []NothingVanishes
<1>1. Inv => NothingVanishes
  <2> SUFFICES ASSUME Inv, NEW id \in 1..nextId - 1
               PROVE  LET places == {p \in DOMAIN Held : id \in Held[p]}
                      IN  Cardinality(places) = IF fate[id] = "none" THEN 1 ELSE 0
    BY DEF NothingVanishes
  <2> DEFINE places == {p \in DOMAIN Held : id \in Held[p]}
  <2>1. id \in Ids /\ id < nextId /\ id \in Nat
    <3>1. nextId \in 1..MaxEvents + 1
      BY DEF Inv, TypeOK
    <3> QED
      BY <3>1, ProbePipelineAssumption DEF Ids
  <2>2. /\ DOMAIN Held = {"ring", "queue", "batch"}
        /\ Held["ring"] = IdsOf(ring) /\ Held["queue"] = IdsOf(queue) /\ Held["batch"] = IdsOf(batch)
    BY DEF Held
  <2>3. fate[id] = "none" <=> id \in HeldIds
    <3>1. ~(id >= nextId)
      BY <2>1, Types DEF Inv
    <3> QED
      BY <2>1, <3>1 DEF Inv, FateInv
  <2>4. /\ id \in IdsOf(batch) => id \notin IdsOf(queue) /\ id \notin IdsOf(ring)
        /\ id \in IdsOf(queue) => id \notin IdsOf(ring)
    BY <2>1 DEF Inv, OrderInv, Below
  <2>5. CASE fate[id] # "none"
    <3>1. places = {}
      BY <2>2, <2>3, <2>5 DEF HeldIds
    <3> QED
      BY <2>5, <3>1, FS_EmptySet
  <2>6. CASE fate[id] = "none"
    <3>1. places = {"ring"} \/ places = {"queue"} \/ places = {"batch"}
      BY <2>2, <2>3, <2>4, <2>6 DEF HeldIds
    <3>2. \A x : Cardinality({x}) = 1
      BY FS_Singleton
    <3> QED
      BY <2>6, <3>1, <3>2
  <2> QED
    BY <2>5, <2>6
<1> QED
  BY <1>1, SpecInv, PTL

\* The agent stores a report once at most, and in order but for late batches.
THEOREM StoredOnce == Spec => []StoredOnceInOrder
<1>1. Inv => StoredOnceInOrder
  BY DEF Inv, StoredInv
<1> QED
  BY <1>1, SpecInv, PTL

\* What the probe counts as sent is stored, what it counts as dropped or refused never
\* is (send, and the counters of read_events).
THEOREM CountsAreTrue == Spec => []FateIsTrue
<1>1. Inv => FateIsTrue
  BY DEF Inv, StoredInv
<1> QED
  BY <1>1, SpecInv, PTL

\* A stop in order leaves nothing in the queue or in a batch (main.rs:149-150).
THEOREM StopLosesNothing == Spec => []StopSendsTheQueue
<1>1. Inv => StopSendsTheQueue
  <2> SUFFICES ASSUME Inv, forwarder = "done", NEW id \in 1..nextId - 1, fate[id] = "none"
               PROVE  id \in IdsOf(ring)
    BY DEF StopSendsTheQueue
  <2>1. id \in Ids /\ ~(id >= nextId)
    <3>1. nextId \in 1..MaxEvents + 1
      BY DEF Inv, TypeOK
    <3> QED
      BY <3>1, ProbePipelineAssumption DEF Ids
  <2>2. id \in HeldIds
    BY <2>1 DEF Inv, FateInv
  <2>3. IdsOf(queue) = {} /\ IdsOf(batch) = {}
    BY DEF Inv, ForwarderInv, IdsOf
  <2> QED
    BY <2>2, <2>3 DEF HeldIds
<1> QED
  BY <1>1, SpecInv, PTL

\* What an event names, long after its call, is a container in which a process with
\* its ID has run since the call, or none (Converter.convert of event.rs).
THEOREM NamedRight == Spec => NamedWhereItRan
<1> DEFINE Faithful(r) ==
      r.id \notin IdsOf(ring') =>
        \/ UNCHANGED queue
        \/ \E place \in r.seen \cup {Host} :
             /\ queue' = Append(queue, [id |-> r.id, container |-> place])
             /\ ContainersOnly => place \in Containers
<1>1. ASSUME Inv, Next, NEW i \in DOMAIN ring
      PROVE  Faithful(ring[i])
  <2>1. /\ ring \in Seq(Record) /\ queue \in Seq(AuditEvent) /\ Len(queue) <= QueueLen
        /\ Len(queue) \in Nat /\ QueueLen \in Nat
    <3>1. ring \in Seq(Record) /\ queue \in Seq(AuditEvent) /\ Len(queue) <= QueueLen
      BY <1>1 DEF Inv, TypeOK
    <3> QED
      BY <3>1, ProbePipelineAssumption
  <2>2. CASE Drain
    <3> DEFINE r == ring[1]
    <3>1. ring # << >> /\ ring' = Tail(ring)
      BY <2>2 DEF Drain, Readable
    <3>2. i # 1 => ring[i].id \in IdsOf(ring')
      <4>1. SUFFICES ASSUME i # 1
                     PROVE  ring[i].id \in IdsOf(ring')
        OBVIOUS
      <4>2. i - 1 \in DOMAIN Tail(ring) /\ Tail(ring)[i - 1] = ring[i]
        BY <2>1, <3>1, <4>1
      <4> QED
        BY <3>1, <4>2 DEF IdsOf
    <3>3. PICK place \in PlacesRead(r) :
            IF ~Keeps(r, place)
              THEN UNCHANGED queue
              ELSE \/ queue' = Append(queue, [id |-> r.id, container |-> place])
                   \/ UNCHANGED queue
      BY <2>2 DEF Drain
    <3>4. place \in r.seen \cup {Host}
      <4>1. 1 \in DOMAIN ring
        BY <2>1, <3>1
      <4>2. proc[r.pid] \in r.seen \cup {Gone}
        BY <1>1, <4>1 DEF Inv, OrderInv
      <4> QED
        BY <3>3, <4>2 DEF PlacesRead, InCgroupFile
    <3>5. Faithful(r)
      BY <3>3, <3>4 DEF Keeps
    <3> QED
      BY <3>2, <3>5
  <2>3. CASE \E c \in Cpus : Submit(c)
    <3>1. DOMAIN ring' = DOMAIN ring /\ ring'[i].id = ring[i].id
      <4>1. ring[i] \in Record
        BY <2>1
      <4> QED
        BY <2>3, <4>1 DEF Submit, Record
    <3> QED
      BY <3>1 DEF IdsOf
  <2>4. CASE \E p \in Pids : Start(p) \/ Move(p)
    <3>1. DOMAIN ring' = DOMAIN ring /\ ring'[i].id = ring[i].id
      <4>1. ring[i] \in Record
        BY <2>1
      <4>2. PICK p \in Pids, place \in Places : RunsAt(p, place)
        BY <2>4 DEF Start, Move
      <4> QED
        BY <4>1, <4>2 DEF RunsAt, Record
    <3> QED
      BY <3>1 DEF IdsOf
  <2>5. CASE \E c \in Cpus, p \in Pids, usable \in BOOLEAN : Reserve(c, p, usable)
    <3>1. PICK c \in Cpus, p \in Pids, usable \in BOOLEAN : Reserve(c, p, usable)
      BY <2>5
    <3>2. i \in DOMAIN ring' /\ ring'[i] = ring[i]
      <4>1. UNCHANGED ring \/ \E r \in Record : ring' = Append(ring, r)
        <5>1. nextId \in Ids /\ proc[p] \in Places
          BY <1>1, <3>1 DEF Reserve, Inv, TypeOK
        <5>2. [id |-> nextId, pid |-> p, seen |-> {proc[p]}, usable |-> usable, busy |-> TRUE] \in Record
          BY <5>1 DEF Record
        <5> QED
          BY <3>1, <5>2 DEF Reserve
      <4> QED
        BY <2>1, <4>1
    <3> QED
      BY <3>2 DEF IdsOf
  <2>6. CASE UNCHANGED ring
    BY <2>6 DEF IdsOf
  <2>7. \/ \E p \in Pids : End(p)
        \/ Wake \/ Drained \/ ClearReady
        \/ ReceiveFirst \/ ReceiveMore \/ Send \/ Replied \/ GiveUp \/ Finish
        \/ \E b \in net : Accept(b) \/ Refuse(b) \/ Lose(b)
        \/ Terminate \/ Abort \/ EndInOrder \/ EndAnyway
        => UNCHANGED ring
    BY DEF kernel, End, Wake, Drained, ClearReady, ReceiveFirst, ReceiveMore, Send, Replied, GiveUp,
           Finish, Accept, Refuse, Lose, Terminate, Abort, EndInOrder, EndAnyway
  <2> QED
    BY <1>1, <2>2, <2>3, <2>4, <2>5, <2>6, <2>7 DEF Next
<1>2. Inv /\ [Next]_vars => [\A r \in {ring[i] : i \in DOMAIN ring} : Faithful(r)]_vars
  BY <1>1
<1> QED
  BY <1>2, SpecInv, PTL DEF Spec, NamedWhereItRan
=============================================================================
