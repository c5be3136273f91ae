-------------------------- MODULE AgentStoreProofs --------------------------
(***************************************************************************)
(* Theorems about AgentStore, for every number of slots, remediations,     *)
(* requests, containers and rules: the ring and its index, the             *)
(* remediations and theirs, the batches, and what the remediations sum.    *)
(* Then what its readers see: the log that it implements, and the lists of *)
(* AgentReaders.                                                           *)
(***************************************************************************)
EXTENDS AgentReaders, FiniteSetTheorems, SequenceTheorems, WellFoundedInduction, TLAPS

\* Opening a remediation and counting one more occurrence give remediations.
LEMMA RecordType ==
  ASSUME NEW r \in Rules, NEW ev \in Event, Matches(r, ev)
  PROVE  /\ <<r, ev.container>> \in Keys
         /\ Opened(r, ev) \in Remediation
         /\ \A rem \in Remediation : Recurred(rem, ev) \in Remediation
<1>1. /\ ev.container \in Containers
      /\ ev.time \in Int /\ ev.named \in BOOLEAN /\ ev.id \in Nat
  BY DEF Event, Matches
<1>2. <<r, ev.container>> \in Keys
  BY <1>1 DEF Keys
<1>3. Opened(r, ev) \in Remediation
  BY <1>1, <1>2 DEF Opened, Remediation
<1>4. ASSUME NEW rem \in Remediation
      PROVE  Recurred(rem, ev) \in Remediation
  <2>1. /\ rem.occurrences \in Nat \ {0} /\ rem.first \in Int /\ rem.last \in Int
        /\ rem = [key |-> rem.key, named |-> rem.named, event |-> rem.event,
                  occurrences |-> rem.occurrences, first |-> rem.first, last |-> rem.last]
    BY DEF Remediation
  <2>2. /\ rem.occurrences + 1 \in Nat \ {0}
        /\ EarlierOf(rem.first, ev.time) \in Int
        /\ LaterOf(rem.last, ev.time) \in Int
    BY <1>1, <2>1 DEF EarlierOf, LaterOf
  <2> QED
    BY <2>1, <2>2 DEF Recurred, Remediation
<1> QED
  BY <1>2, <1>3, <1>4

\* The empty store is well typed.
LEMMA InitTypeOK == Init => TypeOK
  BY AgentStoreAssumption DEF Init, TypeOK, EmptyMap, NoEvent, Rules, AgentStoreAssumption

\* What a step of the loop over the rules does to the remediations keeps their
\* types.
LEMMA RecordTypeOK ==
  ASSUME TypeOK, NEW r \in Rules, NEW ev \in Event, Matches(r, ev), Record(r, ev)
  PROVE  /\ DOMAIN rems' \subseteq Nat /\ rems' \in [DOMAIN rems' -> Remediation]
         /\ DOMAIN remFor' \subseteq Keys /\ remFor' \in [DOMAIN remFor' -> Nat]
         /\ nextID' \in Nat
<1> DEFINE key == <<r, ev.container>>
<1>1. /\ DOMAIN rems \subseteq Nat /\ rems \in [DOMAIN rems -> Remediation]
      /\ DOMAIN remFor \subseteq Keys /\ remFor \in [DOMAIN remFor -> Nat]
      /\ nextID \in Nat
  BY DEF TypeOK
<1>2. /\ key \in Keys /\ Opened(r, ev) \in Remediation
      /\ \A rem \in Remediation : Recurred(rem, ev) \in Remediation
  BY RecordType
<1>3. CASE key \in DOMAIN remFor
  <2>1. /\ rems' = [rems EXCEPT ![remFor[key]] = Recurred(@, ev)]
        /\ UNCHANGED <<remFor, nextID>>
    BY <1>3 DEF Record
  <2> QED
    BY <1>1, <1>2, <2>1
<1>4. CASE key \notin DOMAIN remFor /\ ~AtCap
  <2>1. /\ rems' = Put(rems, nextID, Opened(r, ev))
        /\ remFor' = Put(remFor, key, nextID)
        /\ nextID' = nextID + 1
    BY <1>4 DEF Record
  <2>2. DOMAIN rems' \subseteq Nat /\ rems' \in [DOMAIN rems' -> Remediation]
    BY <1>1, <1>2, <2>1 DEF Put
  <2>3. DOMAIN remFor' \subseteq Keys /\ remFor' \in [DOMAIN remFor' -> Nat]
    BY <1>1, <1>2, <2>1 DEF Put
  <2> QED
    BY <1>1, <2>1, <2>2, <2>3
<1>5. CASE key \notin DOMAIN remFor /\ AtCap
  <2>1. PICK old \in Oldest :
          /\ rems' = Put(Delete(rems, old), nextID, Opened(r, ev))
          /\ remFor' = Put(DropKeyOf(old), key, nextID)
          /\ nextID' = nextID + 1
    BY <1>5 DEF Record
  <2>2. /\ DOMAIN Delete(rems, old) \subseteq Nat
        /\ Delete(rems, old) \in [DOMAIN Delete(rems, old) -> Remediation]
    BY <1>1 DEF Delete, Restrict
  <2>3. DOMAIN rems' \subseteq Nat /\ rems' \in [DOMAIN rems' -> Remediation]
    BY <1>1, <1>2, <2>1, <2>2 DEF Put
  <2>4. /\ DOMAIN DropKeyOf(old) \subseteq Keys
        /\ DropKeyOf(old) \in [DOMAIN DropKeyOf(old) -> Nat]
    BY <1>1 DEF DropKeyOf, Delete, Restrict
  <2>5. DOMAIN remFor' \subseteq Keys /\ remFor' \in [DOMAIN remFor' -> Nat]
    BY <1>1, <1>2, <2>1, <2>4 DEF Put
  <2> QED
    BY <1>1, <2>1, <2>3, <2>5
<1> QED
  BY <1>3, <1>4, <1>5

\* What % does to the slots the ring computes.
LEMMA SmallMod == ASSUME NEW n \in Nat, NEW m \in Nat, n < m PROVE n % m = n
  OBVIOUS

\* A number is a multiple of itself.
LEMMA SelfMod == ASSUME NEW m \in Nat \ {0} PROVE m % m = 0
  OBVIOUS

\* NextSlot is the following slot, back at 0 after the last.
LEMMA NextSlotValue ==
  ASSUME TypeOK
  PROVE  /\ NextSlot = IF head + 1 = MaxEvents THEN 0 ELSE head + 1
         /\ NextSlot \in 0..MaxEvents - 1
<1>1. MaxEvents \in Nat \ {0} /\ head \in 0..MaxEvents - 1
  BY AgentStoreAssumption DEF TypeOK, AgentStoreAssumption
<1>2. CASE head + 1 < MaxEvents
  BY <1>1, <1>2, SmallMod DEF NextSlot
<1>3. CASE head + 1 = MaxEvents
  BY <1>1, <1>3, SelfMod DEF NextSlot
<1> QED
  BY <1>1, <1>2, <1>3

\* Every step keeps the types.
LEMMA StepTypeOK == TypeOK /\ [Next]_vars => TypeOK'
<1> SUFFICES ASSUME TypeOK, [Next]_vars PROVE TypeOK'
  OBVIOUS
<1> USE AgentStoreAssumption DEF TypeOK
<1>1. ASSUME NEW w \in Ingesters, Validate(w) PROVE TypeOK'
  <2>1. PICK n \in 1..MaxBatch : \E b \in [1..n -> Inputs] :
          /\ batch' = [batch EXCEPT ![w] = b]
          /\ pc' = [pc EXCEPT ![w] = IF Accepts(b) THEN "waiting" ELSE "rejected"]
    BY <1>1 DEF Validate
  <2>2. PICK b \in [1..n -> Inputs] :
          /\ batch' = [batch EXCEPT ![w] = b]
          /\ pc' = [pc EXCEPT ![w] = IF Accepts(b) THEN "waiting" ELSE "rejected"]
    BY <2>1
  <2>3. b \in Seq(Inputs)
    <3>1. n \in Nat
      BY DEF AgentStoreAssumption
    <3>2. b \in UNION {[1..m -> Inputs] : m \in Nat}
      BY <3>1
    <3> QED
      BY <3>2, SeqDef, Zenon
  <2>4. UNCHANGED <<store, remVars, nextID, known, mutex, loop, ids, arrived>>
    BY <1>1 DEF Validate
  <2> QED
    BY <2>2, <2>3, <2>4 DEF store, remVars, loop
<1>2. ASSUME NEW w \in Ingesters, Lock(w) PROVE TypeOK'
  BY <1>2 DEF Lock, store, remVars, loop
<1>3. ASSUME NEW w \in Ingesters, Begin(w) PROVE TypeOK'
  <2>1. /\ nextID' = nextID + 1 /\ rule' = 1
        /\ UNCHANGED <<store, remVars, known, mutex, request, ids, arrived>>
    BY <1>3 DEF Begin
  <2>2. cur' \in Event
    <3> DEFINE ev == batch[w][Len(ids[w]) + 1]
    <3>1. ev \in InputSpace
      BY <1>3, SMTT(20) DEF Begin, AgentStoreAssumption
    <3>2. cur' = [id |-> nextID, class |-> ev.class, container |-> ev.container,
                  time |-> ev.time, named |-> ev.named \/ ev.container \in known,
                  severity |-> 0]
      BY <1>3 DEF Begin, Enriched
    <3>3. (ev.named \/ ev.container \in known) \in BOOLEAN
      BY <3>1 DEF InputSpace
    <3> QED
      BY <3>1, <3>2, <3>3, SMTT(20) DEF InputSpace, Event, Severities
  <2>3. rule' \in 1..NumRules + 1
    BY <2>1 DEF AgentStoreAssumption
  <2>4. nextID' \in Nat
    BY <2>1, SMTT(20)
  <2> QED
    BY <2>1, <2>2, <2>3, <2>4 DEF store, remVars, request, Event
<1>4. ASSUME NEW w \in Ingesters, Classify(w) PROVE TypeOK'
  <2>1. /\ cur \in Event /\ rule \in Rules /\ rule' = rule + 1
        /\ UNCHANGED <<store, known, mutex, request, ids, arrived>>
    BY <1>4 DEF Classify
  <2>2. rule' \in 1..NumRules + 1
    BY <2>1, SMTT(20) DEF Rules, AgentStoreAssumption
  <2>3. CASE ~Matches(rule, cur)
    <3>1. UNCHANGED <<remVars, nextID, cur>>
      BY <1>4, <2>3 DEF Classify
    <3> QED
      BY <2>1, <2>2, <3>1 DEF store, remVars, request
  <2>4. CASE Matches(rule, cur)
    <3>1. /\ cur' = [cur EXCEPT !.severity = IF RuleSeverity[rule] > @ THEN RuleSeverity[rule] ELSE @]
          /\ Record(rule, cur)
      BY <1>4, <2>4 DEF Classify
    <3>2. cur' \in Event
      BY <2>1, <3>1 DEF Event, AgentStoreAssumption
    <3>3. /\ DOMAIN rems' \subseteq Nat /\ rems' \in [DOMAIN rems' -> Remediation]
          /\ DOMAIN remFor' \subseteq Keys /\ remFor' \in [DOMAIN remFor' -> Nat]
          /\ nextID' \in Nat
      BY <2>1, <2>4, <3>1, RecordTypeOK
    <3> QED
      BY <2>1, <2>2, <3>2, <3>3 DEF store, request
  <2> QED
    BY <2>3, <2>4
<1>5. ASSUME NEW w \in Ingesters, Store(w) PROVE TypeOK'
  <2>1. /\ cur \in Event
        /\ ring' = [ring EXCEPT ![head] = cur] /\ head' = NextSlot
        /\ ids' = [ids EXCEPT ![w] = Append(@, cur.id)]
        /\ arrived' = Append(arrived, cur) /\ cur' = NoEvent
        /\ UNCHANGED <<remVars, nextID, known, mutex, rule, request>>
    BY <1>5 DEF Store
  <2>2. cur.id \in Nat
    BY <2>1 DEF Event
  <2>3. head' \in 0..MaxEvents - 1
    BY <2>1, NextSlotValue
  <2>4. DOMAIN byID' \subseteq Nat /\ byID' \in [DOMAIN byID' -> 0..MaxEvents - 1]
    <3>1. /\ DOMAIN WithoutOverwritten \subseteq Nat
          /\ WithoutOverwritten \in [DOMAIN WithoutOverwritten -> 0..MaxEvents - 1]
      BY DEF WithoutOverwritten, Delete, Restrict
    <3>2. \/ byID' = Put(WithoutOverwritten, cur.id, head)
          \/ byID' = Put(byID, cur.id, head)
      BY <1>5 DEF Store
    <3> HIDE DEF WithoutOverwritten
    <3>3. CASE byID' = Put(WithoutOverwritten, cur.id, head)
      BY <2>2, <3>1, <3>3 DEF Put
    <3>4. CASE byID' = Put(byID, cur.id, head)
      BY <2>2, <3>4 DEF Put
    <3> QED
      BY <3>2, <3>3, <3>4
  <2>5. stored' \in 0..MaxEvents
    BY <1>5, SMTT(20) DEF Store, AgentStoreAssumption
  <2>6. ids' \in [Ingesters -> Seq(Nat)] /\ arrived' \in Seq(Event)
    BY <2>1, <2>2
  <2>7. ring' \in [0..MaxEvents - 1 -> Event \cup {NoEvent}]
    BY <2>1
  <2> QED
    BY <2>1, <2>3, <2>4, <2>5, <2>6, <2>7 DEF remVars, request
<1>6. ASSUME NEW w \in Ingesters, Unlock(w) PROVE TypeOK'
  BY <1>6 DEF Unlock, store, remVars, loop
<1>7. ASSUME NEW w \in Ingesters, Return(w) PROVE TypeOK'
  <2>1. batch' \in [Ingesters -> Seq(Inputs)] /\ ids' \in [Ingesters -> Seq(Nat)]
    BY <1>7, SMTT(20) DEF Return
  <2> QED
    BY <1>7, <2>1 DEF Return, store, remVars, loop
<1>8. CASE RefreshPods
  BY <1>8 DEF RefreshPods, store, remVars, loop, request
<1>9. CASE UNCHANGED vars
  BY <1>9 DEF vars, store, remVars, loop, request
<1> QED
  BY <1>1, <1>2, <1>3, <1>4, <1>5, <1>6, <1>7, <1>8, <1>9 DEF Next

\* The variables of the store keep their types, for every configuration.
THEOREM TypeCorrect == Spec => []TypeOK
  BY InitTypeOK, StepTypeOK, PTL DEF Spec

-----------------------------------------------------------------------------
(***************************************************************************)
(* The ring.  Going i slots back from head, the ring holds the i-th newest *)
(* event, and byID maps its ID to that slot.  Every ID was given by newID  *)
(* before, and only once.                                                  *)
(***************************************************************************)
IdsAreFresh ==
  /\ \A id \in DOMAIN rems : id < nextID
  /\ \A i \in DOMAIN arrived : arrived[i].id < nextID
  /\ \A i, j \in DOMAIN arrived : i # j => arrived[i].id # arrived[j].id
  /\ cur # NoEvent => cur.id < nextID /\ \A i \in DOMAIN arrived : arrived[i].id # cur.id

\* The i-th newest event, 1 being the last one stored.
Newest(i) == arrived[Len(arrived) + 1 - i]

RingHolds ==
  /\ stored = (IF Len(arrived) < MaxEvents THEN Len(arrived) ELSE MaxEvents)
  /\ \A i \in 1..stored : ring[Slot(i)] = Newest(i)

IndexHolds ==
  /\ DOMAIN byID = {Newest(i).id : i \in 1..stored}
  /\ \A i \in 1..stored : byID[Newest(i).id] = Slot(i)

RingInv == TypeOK /\ IdsAreFresh /\ RingHolds /\ IndexHolds

\* Slot without %.
Back(h, i) == IF i <= h THEN h - i ELSE h - i + MaxEvents

\* % wraps a number below twice the modulus once.
LEMMA WrapMod ==
  ASSUME NEW n \in Nat, NEW m \in Nat \ {0}, n >= m, n < 2 * m PROVE n % m = n - m
  OBVIOUS

\* The slot i places back from h, by cases instead of by %.
LEMMA BackIsMod ==
  ASSUME MaxEvents \in Nat \ {0}, NEW h \in 0..MaxEvents - 1, NEW i \in 1..MaxEvents
  PROVE  (h - i + MaxEvents) % MaxEvents = Back(h, i) /\ Back(h, i) \in 0..MaxEvents - 1
<1> DEFINE n == h - i + MaxEvents
<1>1. CASE i <= h
  <2>1. n \in Nat /\ n >= MaxEvents /\ n < 2 * MaxEvents /\ n - MaxEvents = h - i
    BY <1>1
  <2> HIDE DEF n
  <2>2. n % MaxEvents = n - MaxEvents
    BY <2>1, WrapMod
  <2> QED
    BY <1>1, <2>1, <2>2 DEF Back, n
<1>2. CASE i > h
  <2>1. n \in Nat /\ n < MaxEvents
    BY <1>2
  <2> HIDE DEF n
  <2>2. n % MaxEvents = n
    BY <2>1, SmallMod
  <2> QED
    BY <1>2, <2>1, <2>2 DEF Back, n
<1> QED
  BY <1>1, <1>2

\* When head advances, the slot it leaves becomes the newest, every other event
\* is one place further back, and the oldest of a full ring was at head.
LEMMA SlotsAdvance ==
  ASSUME TypeOK, TypeOK', head' = NextSlot
  PROVE  /\ Slot(1)' = head
         /\ \A i \in 1..MaxEvents - 1 : Slot(i + 1)' = Slot(i) /\ Slot(i) # head
         /\ Slot(MaxEvents) = head
         /\ \A i \in 1..MaxEvents : Slot(i) \in 0..MaxEvents - 1
<1>1. MaxEvents \in Nat \ {0} /\ head \in 0..MaxEvents - 1 /\ head' \in 0..MaxEvents - 1
  BY AgentStoreAssumption DEF TypeOK, AgentStoreAssumption
<1>2. head' = IF head + 1 = MaxEvents THEN 0 ELSE head + 1
  BY NextSlotValue
<1>3. \A i \in 1..MaxEvents : Slot(i) = Back(head, i) /\ Slot(i) \in 0..MaxEvents - 1
  BY <1>1, BackIsMod DEF Slot
<1>4. \A i \in 1..MaxEvents : Slot(i)' = Back(head', i)
  BY <1>1, BackIsMod DEF Slot
<1>5. Slot(1)' = head
  BY <1>1, <1>2, <1>4 DEF Back
<1>6. \A i \in 1..MaxEvents - 1 : Slot(i + 1)' = Slot(i) /\ Slot(i) # head
  BY <1>1, <1>2, <1>3, <1>4 DEF Back
<1>7. Slot(MaxEvents) = head
  BY <1>1, <1>3 DEF Back
<1> QED
  BY <1>3, <1>5, <1>6, <1>7

\* A step of recordLocked adds at most the ID that newID gives it.
LEMMA RecordIds ==
  ASSUME NEW r, NEW ev, Record(r, ev)
  PROVE  \/ DOMAIN rems' = DOMAIN rems /\ nextID' = nextID
         \/ DOMAIN rems' \subseteq DOMAIN rems \cup {nextID} /\ nextID' = nextID + 1
<1> DEFINE key == <<r, ev.container>>
<1>1. CASE key \in DOMAIN remFor
  BY <1>1 DEF Record
<1>2. CASE key \notin DOMAIN remFor /\ ~AtCap
  BY <1>2 DEF Record, Put
<1>3. CASE key \notin DOMAIN remFor /\ AtCap
  BY <1>3 DEF Record, Put, Delete, Restrict
<1> QED
  BY <1>1, <1>2, <1>3

\* newID never gives an ID twice, whatever it names.
LEMMA StepIdsAreFresh == TypeOK /\ TypeOK' /\ IdsAreFresh /\ [Next]_vars => IdsAreFresh'
<1> SUFFICES ASSUME TypeOK, TypeOK', IdsAreFresh, [Next]_vars PROVE IdsAreFresh'
  OBVIOUS
<1>0. /\ nextID \in Nat /\ DOMAIN rems \subseteq Nat /\ arrived \in Seq(Event)
      /\ \A i \in DOMAIN arrived : arrived[i].id \in Nat
  <2>1. nextID \in Nat /\ DOMAIN rems \subseteq Nat /\ arrived \in Seq(Event)
    BY DEF TypeOK
  <2>2. \A i \in DOMAIN arrived : arrived[i] \in Event
    BY <2>1
  <2> QED
    BY <2>1, <2>2 DEF Event
<1>1. CASE UNCHANGED <<rems, nextID, cur, arrived>>
  BY <1>1 DEF IdsAreFresh
<1>2. ASSUME NEW w \in Ingesters, Validate(w) \/ Lock(w) \/ Unlock(w) \/ Return(w)
      PROVE  IdsAreFresh'
  BY <1>1, <1>2 DEF Validate, Lock, Unlock, Return, remVars, loop
<1>3. ASSUME NEW w \in Ingesters, Begin(w) PROVE IdsAreFresh'
  <2>1. /\ cur'.id = nextID /\ nextID' = nextID + 1
        /\ UNCHANGED <<rems, arrived>>
    BY <1>3 DEF Begin, remVars
  <2> QED
    BY <1>0, <2>1 DEF IdsAreFresh
<1>4. ASSUME NEW w \in Ingesters, Classify(w) PROVE IdsAreFresh'
  <2>1. cur \in Event /\ cur # NoEvent /\ UNCHANGED arrived
    BY <1>4 DEF Classify, TypeOK
  <2>2. cur'.id = cur.id
    BY <1>4, <2>1 DEF Classify, Event
  <2>3. \/ DOMAIN rems' = DOMAIN rems /\ nextID' = nextID
        \/ DOMAIN rems' \subseteq DOMAIN rems \cup {nextID} /\ nextID' = nextID + 1
    BY <1>4, RecordIds DEF Classify, remVars
  <2>4. cur.id \in Nat
    BY <2>1 DEF Event
  <2> QED
    BY <1>0, <2>1, <2>2, <2>3, <2>4 DEF IdsAreFresh
<1>5. ASSUME NEW w \in Ingesters, Store(w) PROVE IdsAreFresh'
  <2>1. /\ cur # NoEvent /\ cur' = NoEvent /\ arrived' = Append(arrived, cur)
        /\ UNCHANGED <<rems, nextID>>
    BY <1>5 DEF Store, remVars
  <2>2. /\ DOMAIN arrived' = DOMAIN arrived \cup {Len(arrived) + 1}
        /\ \A i \in DOMAIN arrived : arrived'[i] = arrived[i]
        /\ arrived'[Len(arrived) + 1] = cur
        /\ Len(arrived) + 1 \notin DOMAIN arrived
    BY <1>0, <2>1
  <2> QED
    BY <1>0, <2>1, <2>2 DEF IdsAreFresh
<1>6. CASE RefreshPods
  BY <1>1, <1>6 DEF RefreshPods, remVars, loop
<1>7. CASE UNCHANGED vars
  BY <1>1, <1>7 DEF vars, remVars, loop
<1> QED
  BY <1>2, <1>3, <1>4, <1>5, <1>6, <1>7 DEF Next

\* Storing an event moves every retained one a place back, in the ring and in
\* the history alike.
LEMMA NewestAdvances ==
  ASSUME TypeOK, NEW ev \in Event, arrived' = Append(arrived, ev)
  PROVE  /\ Len(arrived') = Len(arrived) + 1
         /\ Newest(1)' = ev
         /\ \A i \in 1..Len(arrived) : Newest(i + 1)' = Newest(i)
<1>1. arrived \in Seq(Event)
  BY DEF TypeOK
<1>2. /\ Len(arrived') = Len(arrived) + 1 /\ Len(arrived) \in Nat
      /\ \A i \in 1..Len(arrived) : arrived'[i] = arrived[i]
      /\ arrived'[Len(arrived) + 1] = ev
  BY <1>1
<1>3. Newest(1)' = ev
  BY <1>2 DEF Newest
<1>4. ASSUME NEW i \in 1..Len(arrived) PROVE Newest(i + 1)' = Newest(i)
  <2>1. Len(arrived') + 1 - (i + 1) = Len(arrived) + 1 - i
        /\ Len(arrived) + 1 - i \in 1..Len(arrived)
    BY <1>2
  <2> QED
    BY <1>2, <2>1 DEF Newest
<1> QED
  BY <1>2, <1>3, <1>4

\* storeLocked overwrites the oldest event of a full ring, and its index entry.
LEMMA StoreKeepsRing ==
  ASSUME RingInv, TypeOK', NEW w \in Ingesters, Store(w)
  PROVE  RingHolds' /\ IndexHolds'
<1>1. /\ MaxEvents \in Nat \ {0} /\ stored \in 0..MaxEvents /\ head \in 0..MaxEvents - 1
      /\ arrived \in Seq(Event) /\ Len(arrived) \in Nat
      /\ ring \in [0..MaxEvents - 1 -> Event \cup {NoEvent}]
  <2>1. MaxEvents \in Nat \ {0}
    BY AgentStoreAssumption DEF AgentStoreAssumption
  <2>2. /\ stored \in 0..MaxEvents /\ head \in 0..MaxEvents - 1
        /\ arrived \in Seq(Event) /\ ring \in [0..MaxEvents - 1 -> Event \cup {NoEvent}]
    BY DEF RingInv, TypeOK
  <2>3. Len(arrived) \in Nat
    BY <2>2
  <2> QED
    BY <2>1, <2>2, <2>3
<1>2. /\ cur \in Event /\ arrived' = Append(arrived, cur) /\ head' = NextSlot
      /\ ring' = [ring EXCEPT ![head] = cur]
  BY DEF Store, RingInv, TypeOK
<1>3. /\ Slot(1)' = head
      /\ \A i \in 1..MaxEvents - 1 : Slot(i + 1)' = Slot(i) /\ Slot(i) # head
      /\ Slot(MaxEvents) = head
      /\ \A i \in 1..MaxEvents : Slot(i) \in 0..MaxEvents - 1
  BY <1>2, SlotsAdvance DEF RingInv
<1>4. /\ Len(arrived') = Len(arrived) + 1
      /\ Newest(1)' = cur
      /\ \A i \in 1..Len(arrived) : Newest(i + 1)' = Newest(i)
  BY <1>2, NewestAdvances DEF RingInv
<1>5. /\ stored = (IF Len(arrived) < MaxEvents THEN Len(arrived) ELSE MaxEvents)
      /\ \A i \in 1..stored : ring[Slot(i)] = Newest(i)
  BY DEF RingInv, RingHolds
<1>6. /\ stored' = (IF stored = MaxEvents THEN stored ELSE stored + 1)
      /\ stored' \in 1..MaxEvents
      /\ \A i \in 1..stored' : i = 1 \/ \E j \in 1..stored : j \in 1..MaxEvents - 1 /\ i = j + 1
      /\ \A j \in 1..stored : j \in 1..Len(arrived)
  <2>1. stored' = (IF stored = MaxEvents THEN stored ELSE stored + 1)
    BY DEF Store
  <2>2. ASSUME NEW i \in 1..stored', i # 1
        PROVE  i - 1 \in 1..stored /\ i - 1 \in 1..MaxEvents - 1 /\ i = (i - 1) + 1
    BY <1>1, <2>1, <2>2
  <2> QED
    BY <1>1, <1>5, <2>1, <2>2
<1>7. RingHolds'
  <2>1. stored' = (IF Len(arrived') < MaxEvents THEN Len(arrived') ELSE MaxEvents)
    BY <1>1, <1>4, <1>5, <1>6
  <2>2. ASSUME NEW i \in 1..stored' PROVE ring'[Slot(i)'] = Newest(i)'
    <3>1. CASE i = 1
      BY <1>1, <1>2, <1>3, <1>4, <3>1
    <3>2. ASSUME NEW j \in 1..stored, j \in 1..MaxEvents - 1, i = j + 1
          PROVE  ring'[Slot(i)'] = Newest(i)'
      <4>1. Slot(i)' = Slot(j) /\ Slot(j) # head /\ Newest(i)' = Newest(j)
        BY <1>3, <1>4, <1>6, <3>2
      <4>2. ring'[Slot(j)] = ring[Slot(j)]
        BY <1>1, <1>2, <4>1
      <4> QED
        BY <1>5, <4>1, <4>2
    <3> QED
      BY <1>6, <3>1, <3>2
  <2> QED
    BY <2>1, <2>2 DEF RingHolds
<1>8. /\ \A i, j \in 1..stored : i # j => Newest(i).id # Newest(j).id
      /\ \A i \in 1..stored : Newest(i).id # cur.id
  <2>1. \A i \in 1..stored : Len(arrived) + 1 - i \in DOMAIN arrived
    BY <1>1, <1>6
  <2>2. /\ \A i, j \in DOMAIN arrived : i # j => arrived[i].id # arrived[j].id
        /\ \A i \in DOMAIN arrived : arrived[i].id # cur.id
    BY DEF RingInv, IdsAreFresh, Store
  <2>3. \A i, j \in 1..stored : i # j => Len(arrived) + 1 - i # Len(arrived) + 1 - j
    BY <1>1
  <2> QED
    BY <2>1, <2>2, <2>3 DEF Newest
<1>9. /\ DOMAIN byID = {Newest(i).id : i \in 1..stored}
      /\ \A i \in 1..stored : byID[Newest(i).id] = Slot(i)
  BY DEF RingInv, IndexHolds
<1> DEFINE Kept(x) == x \in DOMAIN byID /\ (stored = MaxEvents => x # Newest(stored).id)
<1>10. /\ \A x : x \in DOMAIN byID' <=> x = cur.id \/ Kept(x)
       /\ byID'[cur.id] = head
       /\ \A x : x # cur.id /\ Kept(x) => byID'[x] = byID[x]
  <2>1. CASE stored = MaxEvents
    <3>1. byID' = Put(Delete(byID, ring[head].id), cur.id, head)
      BY <2>1 DEF Store, WithoutOverwritten
    <3>2. ring[head] = Newest(stored)
      BY <1>1, <1>3, <1>5, <2>1
    <3>3. \A x : x \in DOMAIN Delete(byID, ring[head].id) <=> Kept(x)
      BY <2>1, <3>2 DEF Delete, Restrict
    <3>4. \A x : Kept(x) => Delete(byID, ring[head].id)[x] = byID[x]
      BY <2>1, <3>2 DEF Delete, Restrict
    <3> QED
      BY <3>1, <3>3, <3>4 DEF Put
  <2>2. CASE stored # MaxEvents
    <3>1. byID' = Put(byID, cur.id, head)
      BY <2>2 DEF Store
    <3> QED
      BY <2>2, <3>1 DEF Put
  <2> QED
    BY <2>1, <2>2
<1>11. IndexHolds'
  <2>1. ASSUME NEW i \in 1..stored'
        PROVE  Newest(i)'.id \in DOMAIN byID' /\ byID'[Newest(i)'.id] = Slot(i)'
    <3>1. CASE i = 1
      <4>1. Newest(i)' = cur /\ Slot(i)' = head
        BY <1>3, <1>4, <3>1
      <4> QED
        BY <1>10, <4>1
    <3>2. ASSUME NEW j \in 1..stored, j \in 1..MaxEvents - 1, i = j + 1
          PROVE  Newest(i)'.id \in DOMAIN byID' /\ byID'[Newest(i)'.id] = Slot(i)'
      <4>1. Slot(i)' = Slot(j) /\ Newest(i)' = Newest(j)
        BY <1>3, <1>4, <1>6, <3>2
      <4>2. stored = MaxEvents => Newest(j).id # Newest(stored).id
        BY <1>1, <1>8, <3>2
      <4>3. Kept(Newest(j).id) /\ Newest(j).id # cur.id
        BY <1>8, <1>9, <3>2, <4>2
      <4>4. byID'[Newest(j).id] = Slot(j) /\ Newest(j).id \in DOMAIN byID'
        BY <1>9, <1>10, <3>2, <4>3
      <4> QED
        BY <4>1, <4>4
    <3> QED
      BY <1>6, <3>1, <3>2
  <2>2. ASSUME NEW x \in DOMAIN byID' PROVE \E i \in 1..stored' : x = Newest(i)'.id
    <3>1. CASE x = cur.id
      BY <1>1, <1>4, <1>6, <3>1
    <3>2. ASSUME NEW j \in 1..stored, x = Newest(j).id, stored = MaxEvents => j # stored
          PROVE  \E i \in 1..stored' : x = Newest(i)'.id
      <4>1. j + 1 \in 1..stored' /\ Newest(j + 1)' = Newest(j)
        BY <1>1, <1>4, <1>6, <3>2
      <4> QED
        BY <3>2, <4>1
    <3>3. x = cur.id \/ \E j \in 1..stored : x = Newest(j).id /\ (stored = MaxEvents => j # stored)
      BY <1>9, <1>10
    <3> QED
      BY <3>1, <3>2, <3>3
  <2>3. DOMAIN byID' = {Newest(i)'.id : i \in 1..stored'}
    BY <2>1, <2>2
  <2> QED
    BY <2>1, <2>3 DEF IndexHolds
<1> QED
  BY <1>7, <1>11

\* The ring and its index keep their invariant: only storeLocked touches them.
LEMMA StepRingInv == RingInv /\ [Next]_vars => RingInv'
<1> SUFFICES ASSUME RingInv, [Next]_vars PROVE RingInv'
  OBVIOUS
<1>1. TypeOK'
  BY StepTypeOK DEF RingInv
<1>2. IdsAreFresh'
  BY <1>1, StepIdsAreFresh DEF RingInv
<1>3. CASE UNCHANGED <<store, arrived>>
  BY <1>1, <1>2, <1>3 DEF RingInv, RingHolds, IndexHolds, Slot, Newest, store
<1>4. ASSUME NEW w \in Ingesters, Store(w) PROVE RingInv'
  BY <1>1, <1>2, <1>4, StoreKeepsRing DEF RingInv
<1>5. ASSUME NEW w \in Ingesters,
             Validate(w) \/ Lock(w) \/ Begin(w) \/ Classify(w) \/ Unlock(w) \/ Return(w)
      PROVE  RingInv'
  BY <1>3, <1>5 DEF Validate, Lock, Begin, Classify, Unlock, Return
<1>6. CASE RefreshPods \/ UNCHANGED vars
  BY <1>3, <1>6 DEF RefreshPods, vars
<1> QED
  BY <1>4, <1>5, <1>6 DEF Next

\* The empty ring satisfies it.
LEMMA InitRingInv == Init => RingInv
<1> SUFFICES ASSUME Init PROVE RingInv
  OBVIOUS
<1>1. TypeOK
  BY InitTypeOK
<1>2. arrived = <<>> /\ Len(arrived) = 0 /\ stored = 0 /\ cur = NoEvent /\ DOMAIN rems = {} /\ DOMAIN byID = {}
  BY DEF Init, EmptyMap
<1>3. MaxEvents > 0 /\ MaxEvents \in Nat
  BY AgentStoreAssumption DEF AgentStoreAssumption
<1> QED
  BY <1>1, <1>2, <1>3 DEF RingInv, IdsAreFresh, RingHolds, IndexHolds

\* Its invariant says what the ring holds, read backwards from head.
LEMMA RingInvHolds ==
  ASSUME RingInv
  PROVE  HoldsTheLatest
<1>1. /\ arrived \in Seq(Event) /\ Len(arrived) \in Nat /\ stored \in Nat
      /\ stored <= Len(arrived)
  BY AgentStoreAssumption DEF RingInv, TypeOK, RingHolds, AgentStoreAssumption
<1> DEFINE tail == SubSeq(arrived, Len(arrived) - stored + 1, Len(arrived))
<1>2. /\ tail \in Seq(Event) /\ Len(tail) = stored
      /\ \A i \in 1..stored : tail[i] = arrived[Len(arrived) - stored + i]
  BY <1>1
<1>3. ASSUME NEW i \in 1..stored PROVE Contents[i] = tail[i]
  <2>1. stored + 1 - i \in 1..stored
    BY <1>1
  <2>2. Contents[i] = Newest(stored + 1 - i)
    BY <2>1 DEF Contents, RingInv, RingHolds
  <2>3. Len(arrived) + 1 - (stored + 1 - i) = Len(arrived) - stored + i
    BY <1>1
  <2> QED
    BY <1>2, <2>2, <2>3 DEF Newest
<1> HIDE DEF tail
<1>4. Contents = tail
  BY <1>2, <1>3 DEF Contents
<1> QED
  BY <1>4 DEF HoldsTheLatest, RingInv, RingHolds, tail

\* The ring always holds the latest events in order.
THEOREM RingHoldsTheLatest == Spec => []HoldsTheLatest
<1>1. RingInv => HoldsTheLatest
  BY RingInvHolds
<1> QED
  BY <1>1, InitRingInv, StepRingInv, PTL DEF Spec

\* GET /v1/events/{id} finds what GET /v1/events lists, and finds it right.
THEOREM IndexCorrect == Spec => []IndexMatchesRing
<1>1. ASSUME RingInv PROVE IndexMatchesRing
  <2>1. stored \in Nat
    BY <1>1 DEF RingInv, TypeOK
  <2>2. \A i \in 1..stored : ring[Slot(i)] = Newest(i) /\ byID[Newest(i).id] = Slot(i)
    BY <1>1 DEF RingInv, RingHolds, IndexHolds
  <2>3. DOMAIN byID = {Newest(i).id : i \in 1..stored}
    BY <1>1 DEF RingInv, IndexHolds
  <2>4. \A i \in 1..stored : stored + 1 - i \in 1..stored /\ stored + 1 - (stored + 1 - i) = i
    BY <2>1
  <2>5. {Contents[i].id : i \in 1..stored} = {Newest(i).id : i \in 1..stored}
    BY <2>2, <2>4 DEF Contents
  <2> QED
    BY <2>2, <2>3, <2>5 DEF IndexMatchesRing
<1> QED
  BY <1>1, InitRingInv, StepRingInv, PTL DEF Spec

-----------------------------------------------------------------------------
(***************************************************************************)
(* The remediations.  Both maps name the same ones, and there are never    *)
(* more than the cap; that the map is finite is what lets it be counted.   *)
(***************************************************************************)
RemInv ==
  /\ TypeOK
  /\ IdsAreFresh
  /\ OneRemediationPerKey
  /\ IsFiniteSet(DOMAIN rems)
  /\ RemediationsBounded

\* recordLocked keeps the two maps in step, also when it evicts.
LEMMA RecordKeepsIndex ==
  ASSUME RemInv, NEW r \in Rules, NEW ev \in Event, Matches(r, ev), Record(r, ev)
  PROVE  OneRemediationPerKey'
<1> DEFINE key == <<r, ev.container>>
<1>1. /\ \A k \in DOMAIN remFor : remFor[k] \in DOMAIN rems /\ rems[remFor[k]].key = k
      /\ \A id \in DOMAIN rems : rems[id].key \in DOMAIN remFor /\ remFor[rems[id].key] = id
      /\ nextID \notin DOMAIN rems
  <2>1. \A id \in DOMAIN rems : id < nextID
    BY DEF RemInv, IdsAreFresh
  <2>2. nextID \in Nat
    BY DEF RemInv, TypeOK
  <2> QED
    BY <2>1, <2>2 DEF RemInv, OneRemediationPerKey
<1>2. CASE key \in DOMAIN remFor
  <2>1. /\ rems' = [rems EXCEPT ![remFor[key]] = Recurred(@, ev)]
        /\ remFor' = remFor
    BY <1>2 DEF Record
  <2>2. rems[remFor[key]] \in Remediation
    BY <1>1, <1>2 DEF RemInv, TypeOK
  <2>3. Recurred(rems[remFor[key]], ev).key = rems[remFor[key]].key
    BY <2>2 DEF Recurred, Remediation
  <2>4. /\ DOMAIN rems' = DOMAIN rems
        /\ \A id \in DOMAIN rems : rems'[id].key = rems[id].key
    BY <2>1, <2>3
  <2> QED
    BY <1>1, <2>1, <2>4 DEF OneRemediationPerKey
<1>3. Opened(r, ev).key = key
  BY DEF Opened
<1>4. CASE key \notin DOMAIN remFor /\ ~AtCap
  <2>1. /\ rems' = Put(rems, nextID, Opened(r, ev))
        /\ remFor' = Put(remFor, key, nextID)
    BY <1>4 DEF Record
  <2>2. /\ DOMAIN rems' = DOMAIN rems \cup {nextID}
        /\ \A id \in DOMAIN rems : rems'[id] = rems[id]
        /\ rems'[nextID].key = key
    BY <1>1, <1>3, <2>1 DEF Put
  <2>3. /\ DOMAIN remFor' = DOMAIN remFor \cup {key}
        /\ \A k \in DOMAIN remFor : remFor'[k] = remFor[k]
        /\ remFor'[key] = nextID
    BY <1>4, <2>1 DEF Put
  <2> QED
    BY <1>1, <1>4, <2>2, <2>3 DEF OneRemediationPerKey
<1>5. CASE key \notin DOMAIN remFor /\ AtCap
  <2>1. PICK old \in Oldest :
          /\ rems' = Put(Delete(rems, old), nextID, Opened(r, ev))
          /\ remFor' = Put(DropKeyOf(old), key, nextID)
    BY <1>5 DEF Record
  <2>2. old \in DOMAIN rems
    BY DEF Oldest
  <2>3. /\ DOMAIN rems' = (DOMAIN rems \ {old}) \cup {nextID}
        /\ \A id \in DOMAIN rems \ {old} : rems'[id] = rems[id]
        /\ rems'[nextID].key = key
    BY <1>1, <1>3, <2>1 DEF Put, Delete, Restrict
  <2>4. /\ DOMAIN remFor' = (DOMAIN remFor \ {rems[old].key}) \cup {key}
        /\ \A k \in DOMAIN remFor \ {rems[old].key} : remFor'[k] = remFor[k]
        /\ remFor'[key] = nextID
    BY <1>5, <2>1 DEF Put, Delete, Restrict, DropKeyOf
  <2>5. \A k \in DOMAIN remFor \ {rems[old].key} : remFor[k] # old
    BY <1>1
  <2>6. \A id \in DOMAIN rems \ {old} : rems[id].key # rems[old].key
    BY <1>1, <2>2
  <2>7. ASSUME NEW k \in DOMAIN remFor' PROVE remFor'[k] \in DOMAIN rems' /\ rems'[remFor'[k]].key = k
    BY <1>1, <2>3, <2>4, <2>5, <2>7
  <2>8. ASSUME NEW id \in DOMAIN rems'
        PROVE  rems'[id].key \in DOMAIN remFor' /\ remFor'[rems'[id].key] = id
    BY <1>1, <1>5, <2>3, <2>4, <2>6, <2>8
  <2> QED
    BY <2>7, <2>8 DEF OneRemediationPerKey
<1> QED
  BY <1>2, <1>4, <1>5

\* An eviction makes room for the remediation that is opened.
LEMMA RecordStaysBounded ==
  ASSUME RemInv, NEW r \in Rules, NEW ev \in Event, Matches(r, ev), Record(r, ev)
  PROVE  IsFiniteSet(DOMAIN rems') /\ Cardinality(DOMAIN rems') <= MaxRemediations
<1> DEFINE key == <<r, ev.container>>
<1>1. /\ IsFiniteSet(DOMAIN rems) /\ Cardinality(DOMAIN rems) \in Nat
      /\ Cardinality(DOMAIN rems) <= MaxRemediations
      /\ MaxRemediations \in Nat \ {0}
  BY AgentStoreAssumption, FS_CardinalityType DEF AgentStoreAssumption, RemInv, RemediationsBounded
<1>2. CASE key \in DOMAIN remFor
  <2>1. DOMAIN rems' = DOMAIN rems
    BY <1>2 DEF Record
  <2> QED
    BY <1>1, <2>1
<1>3. CASE key \notin DOMAIN remFor /\ ~AtCap
  <2>1. DOMAIN rems' = DOMAIN rems \cup {nextID}
    BY <1>3 DEF Record, Put
  <2>2. Cardinality(DOMAIN rems) < MaxRemediations
    BY <1>1, <1>3 DEF AtCap
  <2> DEFINE all == DOMAIN rems
  <2>3. IsFiniteSet(all \cup {nextID})
    BY <1>1, FS_AddElement
  <2>4. \/ Cardinality(all \cup {nextID}) = Cardinality(all)
        \/ Cardinality(all \cup {nextID}) = Cardinality(all) + 1
    BY <1>1, FS_AddElement
  <2> QED
    BY <1>1, <2>1, <2>2, <2>3, <2>4
<1>4. CASE key \notin DOMAIN remFor /\ AtCap
  <2>1. PICK old \in Oldest : rems' = Put(Delete(rems, old), nextID, Opened(r, ev))
    BY <1>4 DEF Record
  <2>2. old \in DOMAIN rems
    BY DEF Oldest
  <2> DEFINE rest == DOMAIN rems \ {old}
  <2>3. DOMAIN rems' = rest \cup {nextID}
    BY <2>1 DEF Put, Delete, Restrict
  <2>4. IsFiniteSet(rest) /\ Cardinality(rest) = Cardinality(DOMAIN rems) - 1
    BY <1>1, <2>2, FS_RemoveElement
  <2>5. /\ IsFiniteSet(rest \cup {nextID})
        /\ Cardinality(rest \cup {nextID}) <= Cardinality(rest) + 1
    BY <1>1, <2>4, FS_AddElement, SMTT(20)
  <2> HIDE DEF rest
  <2>6. Cardinality(rest \cup {nextID}) \in Nat
    BY <2>5, FS_CardinalityType
  <2> QED
    BY <1>1, <2>3, <2>4, <2>5, <2>6
<1> QED
  BY <1>2, <1>3, <1>4

\* Only a match touches the remediations, and it keeps the invariant.
LEMMA StepRemInv == RemInv /\ [Next]_vars => RemInv'
<1> SUFFICES ASSUME RemInv, [Next]_vars PROVE RemInv'
  OBVIOUS
<1>1. TypeOK'
  BY StepTypeOK DEF RemInv
<1>2. IdsAreFresh'
  BY <1>1, StepIdsAreFresh DEF RemInv
<1>3. CASE UNCHANGED remVars
  BY <1>1, <1>2, <1>3 DEF RemInv, OneRemediationPerKey, RemediationsBounded, remVars
<1>4. ASSUME NEW w \in Ingesters, Classify(w), Matches(rule, cur) PROVE RemInv'
  <2>1. cur \in Event /\ rule \in Rules /\ Record(rule, cur)
    BY <1>4 DEF Classify, RemInv, TypeOK
  <2>2. OneRemediationPerKey'
    BY <1>4, <2>1, RecordKeepsIndex
  <2>3. IsFiniteSet(DOMAIN rems') /\ Cardinality(DOMAIN rems') <= MaxRemediations
    BY <1>4, <2>1, RecordStaysBounded
  <2> QED
    BY <1>1, <1>2, <2>2, <2>3 DEF RemInv, RemediationsBounded
<1>5. ASSUME NEW w \in Ingesters, Classify(w), ~Matches(rule, cur) PROVE RemInv'
  BY <1>3, <1>5 DEF Classify
<1>6. ASSUME NEW w \in Ingesters,
             Validate(w) \/ Lock(w) \/ Begin(w) \/ Store(w) \/ Unlock(w) \/ Return(w)
      PROVE  RemInv'
  BY <1>3, <1>6 DEF Validate, Lock, Begin, Store, Unlock, Return
<1>7. CASE RefreshPods \/ UNCHANGED vars
  BY <1>3, <1>7 DEF RefreshPods, vars
<1> QED
  BY <1>4, <1>5, <1>6, <1>7 DEF Next

\* The empty store satisfies it.
LEMMA InitRemInv == Init => RemInv
<1> SUFFICES ASSUME Init PROVE RemInv
  OBVIOUS
<1>1. TypeOK /\ DOMAIN rems = {} /\ DOMAIN remFor = {} /\ arrived = <<>> /\ cur = NoEvent
  BY InitTypeOK DEF Init, EmptyMap
<1>2. IsFiniteSet({}) /\ Cardinality({}) = 0 /\ MaxRemediations \in Nat
  BY FS_EmptySet, AgentStoreAssumption DEF AgentStoreAssumption
<1> QED
  BY <1>1, <1>2 DEF RemInv, IdsAreFresh, OneRemediationPerKey, RemediationsBounded

\* a.rems and a.remFor never disagree, through every eviction.
THEOREM OneRemediation == Spec => []OneRemediationPerKey
<1>1. RemInv => OneRemediationPerKey
  BY DEF RemInv
<1> QED
  BY <1>1, InitRemInv, StepRemInv, PTL DEF Spec

\* The remediations never exceed Config.MaxRemediations.
THEOREM Bounded == Spec => []RemediationsBounded
<1>1. RemInv => RemediationsBounded
  BY DEF RemInv
<1> QED
  BY <1>1, InitRemInv, StepRemInv, PTL DEF Spec
-----------------------------------------------------------------------------
(***************************************************************************)
(* The batches.  Ingest is followed through its loops: what the owner of   *)
(* the mutex has stored and has in hand, and what a request was answered.  *)
(***************************************************************************)

\* The event stored for an event of a request.
FromInput(ev, input) ==
  ev.class = input.class /\ ev.container = input.container /\ ev.time = input.time

\* The events of w's request stored so far stand in arrived after place at.
Stands(w, at) ==
  \A i \in 1..Len(ids[w]) :
    arrived[at + i].id = ids[w][i] /\ FromInput(arrived[at + i], batch[w][i])

LockInv ==
  /\ \A w \in Ingesters : mutex = w <=> pc[w] = "ingesting"
  /\ mutex = Nobody => cur = NoEvent

RequestInv ==
  \A w \in Ingesters :
    /\ pc[w] # "idle" => Len(batch[w]) \in 1..MaxBatch
    /\ pc[w] \in {"waiting", "ingesting", "replied"} => Accepts(batch[w])
    /\ pc[w] = "rejected" => ~Accepts(batch[w])
    /\ pc[w] \in {"idle", "waiting", "rejected"} => ids[w] = << >>

\* The owner's events are the last of the log, and cur is its next one.
HalfStored(w) ==
  /\ Len(ids[w]) <= Len(batch[w])
  /\ Len(ids[w]) <= Len(arrived)
  /\ Stands(w, Len(arrived) - Len(ids[w]))
  /\ cur # NoEvent =>
       Len(ids[w]) < Len(batch[w]) /\ FromInput(cur, batch[w][Len(ids[w]) + 1])

OwnerInv == \A w \in Ingesters : pc[w] = "ingesting" => HalfStored(w)

AllStored(w) ==
  /\ Len(ids[w]) = Len(batch[w])
  /\ \E at \in 0..Len(arrived) - Len(ids[w]) : Stands(w, at)

ReplyInv == \A w \in Ingesters : pc[w] = "replied" => AllStored(w)

BatchInv == TypeOK /\ LockInv /\ RequestInv /\ OwnerInv /\ ReplyInv

LEMMA LockStep ==
  ASSUME TypeOK, LockInv, [Next]_vars
  PROVE  LockInv'
<1> USE DEF store, remVars, loop, request
<1>1. pc \in [Ingesters -> {"idle", "waiting", "ingesting", "replied", "rejected"}]
      /\ Nobody \notin Ingesters
  BY AgentStoreAssumption DEF TypeOK, AgentStoreAssumption
<1>2. CASE UNCHANGED <<mutex, pc, cur>>
  BY <1>2 DEF LockInv
<1>3. ASSUME NEW w \in Ingesters, Validate(w) \/ Return(w)
      PROVE  LockInv'
  <2>1. /\ UNCHANGED <<mutex, cur>> /\ pc[w] # "ingesting" /\ pc'[w] # "ingesting"
        /\ \A v \in Ingesters : v # w => pc'[v] = pc[v]
    BY <1>1, <1>3 DEF Validate, Return
  <2> QED
    BY <2>1 DEF LockInv
<1>4. ASSUME NEW w \in Ingesters, Lock(w)
      PROVE  LockInv'
  BY <1>1, <1>4 DEF Lock, LockInv
<1>5. ASSUME NEW w \in Ingesters, Unlock(w)
      PROVE  LockInv'
  BY <1>1, <1>5 DEF Unlock, LockInv
<1>6. ASSUME NEW w \in Ingesters, Begin(w) \/ Classify(w) \/ Store(w)
      PROVE  LockInv'
  <2>1. UNCHANGED <<mutex, pc>> /\ mutex = w
    BY <1>6 DEF Begin, Classify, Store
  <2> QED
    BY <1>1, <2>1 DEF LockInv
<1>7. RefreshPods \/ UNCHANGED vars => UNCHANGED <<mutex, pc, cur>>
  BY DEF RefreshPods, vars
<1> QED
  BY <1>2, <1>3, <1>4, <1>5, <1>6, <1>7 DEF Next

LEMMA RequestStep ==
  ASSUME TypeOK, LockInv, RequestInv, [Next]_vars
  PROVE  RequestInv'
<1> USE DEF store, remVars, loop, request
<1>1. /\ pc \in [Ingesters -> {"idle", "waiting", "ingesting", "replied", "rejected"}]
      /\ batch \in [Ingesters -> Seq(Inputs)] /\ ids \in [Ingesters -> Seq(Nat)]
  BY DEF TypeOK
<1>2. CASE UNCHANGED <<pc, batch, ids>>
  BY <1>2 DEF RequestInv
<1>3. ASSUME NEW w \in Ingesters, Validate(w)
      PROVE  RequestInv'
  <2>1. PICK n \in 1..MaxBatch : \E b \in [1..n -> Inputs] :
          /\ batch' = [batch EXCEPT ![w] = b]
          /\ pc' = [pc EXCEPT ![w] = IF Accepts(b) THEN "waiting" ELSE "rejected"]
    BY <1>3 DEF Validate
  <2>2. PICK b \in [1..n -> Inputs] :
          /\ batch' = [batch EXCEPT ![w] = b]
          /\ pc' = [pc EXCEPT ![w] = IF Accepts(b) THEN "waiting" ELSE "rejected"]
    BY <2>1
  <2>3. n \in Nat /\ MaxBatch \in Nat
    BY AgentStoreAssumption DEF AgentStoreAssumption
  <2>4. Len(b) = n
    <3>1. DOMAIN b = 1..n
      OBVIOUS
    <3> QED
      BY <2>3, <3>1
  <2>5. UNCHANGED ids /\ ids[w] = << >>
    BY <1>3 DEF Validate, RequestInv
  <2>6. batch'[w] = b /\ pc'[w] = (IF Accepts(b) THEN "waiting" ELSE "rejected")
    BY <1>1, <2>2
  <2>7. \A v \in Ingesters : v # w => batch'[v] = batch[v] /\ pc'[v] = pc[v]
    BY <1>1, <2>2
  <2>8. ASSUME NEW v \in Ingesters
        PROVE  /\ pc'[v] # "idle" => Len(batch'[v]) \in 1..MaxBatch
               /\ pc'[v] \in {"waiting", "ingesting", "replied"} => Accepts(batch'[v])
               /\ pc'[v] = "rejected" => ~Accepts(batch'[v])
               /\ pc'[v] \in {"idle", "waiting", "rejected"} => ids'[v] = << >>
    <3>1. CASE v = w
      BY <2>4, <2>5, <2>6, <3>1
    <3>2. CASE v # w
      BY <2>5, <2>7, <3>2 DEF RequestInv
    <3> QED
      BY <3>1, <3>2
  <2> QED
    BY <2>8 DEF RequestInv, Accepts
<1>4. ASSUME NEW w \in Ingesters, Lock(w) \/ Unlock(w)
      PROVE  RequestInv'
  <2>1. /\ UNCHANGED <<batch, ids>> /\ pc[w] \in {"waiting", "ingesting"} /\ pc'[w] \in {"ingesting", "replied"}
        /\ \A v \in Ingesters : v # w => pc'[v] = pc[v]
    BY <1>1, <1>4 DEF Lock, Unlock, LockInv
  <2> QED
    BY <2>1 DEF RequestInv
<1>5. ASSUME NEW w \in Ingesters, Store(w)
      PROVE  RequestInv'
  <2>1. /\ UNCHANGED <<batch, pc>> /\ pc[w] = "ingesting"
        /\ \A v \in Ingesters : v # w => ids'[v] = ids[v]
    BY <1>1, <1>5 DEF Store, LockInv
  <2> QED
    BY <2>1 DEF RequestInv
<1>6. ASSUME NEW w \in Ingesters, Return(w)
      PROVE  RequestInv'
  <2>1. /\ batch'[w] = << >> /\ ids'[w] = << >> /\ pc'[w] = "idle"
        /\ \A v \in Ingesters : v # w => batch'[v] = batch[v] /\ ids'[v] = ids[v] /\ pc'[v] = pc[v]
    BY <1>1, <1>6 DEF Return
  <2> QED
    BY <2>1 DEF RequestInv
<1>7. ASSUME NEW w \in Ingesters, Begin(w) \/ Classify(w)
      PROVE  RequestInv'
  BY <1>2, <1>7 DEF Begin, Classify
<1>8. RefreshPods \/ UNCHANGED vars => UNCHANGED <<pc, batch, ids>>
  BY DEF RefreshPods, vars
<1> QED
  BY <1>2, <1>3, <1>4, <1>5, <1>6, <1>7, <1>8 DEF Next

\* A step of another request leaves a request's events where they are.
LEMMA StaysStored ==
  ASSUME NEW w \in Ingesters, arrived' = arrived, ids'[w] = ids[w], batch'[w] = batch[w]
  PROVE  /\ AllStored(w) => AllStored(w)'
         /\ HalfStored(w) /\ cur' = cur => HalfStored(w)'
<1>1. \A at : Stands(w, at) => Stands(w, at)'
  BY DEF Stands, FromInput
<1> QED
  BY <1>1 DEF AllStored, HalfStored, FromInput

LEMMA OwnerStep ==
  ASSUME TypeOK, LockInv, RequestInv, OwnerInv, [Next]_vars
  PROVE  OwnerInv'
<1> USE DEF store, remVars, loop, request
<1>1. /\ pc \in [Ingesters -> {"idle", "waiting", "ingesting", "replied", "rejected"}]
      /\ batch \in [Ingesters -> Seq(Inputs)] /\ ids \in [Ingesters -> Seq(Nat)]
      /\ arrived \in Seq(Event) /\ Len(arrived) \in Nat
  <2>1. arrived \in Seq(Event)
    BY DEF TypeOK
  <2> QED
    BY <2>1 DEF TypeOK
<1>2. CASE UNCHANGED <<pc, batch, ids, arrived, cur>>
  BY <1>2, StaysStored DEF OwnerInv
<1>3. ASSUME NEW w \in Ingesters, Validate(w) \/ Return(w) \/ Unlock(w)
      PROVE  OwnerInv'
  <2>1. /\ UNCHANGED <<arrived, cur>> /\ pc'[w] # "ingesting"
        /\ \A v \in Ingesters : v # w => batch'[v] = batch[v] /\ ids'[v] = ids[v] /\ pc'[v] = pc[v]
    BY <1>1, <1>3 DEF Validate, Return, Unlock
  <2> QED
    BY <2>1, StaysStored DEF OwnerInv
<1>4. ASSUME NEW w \in Ingesters, Lock(w)
      PROVE  OwnerInv'
  <2>1. /\ UNCHANGED <<arrived, cur, batch, ids>> /\ cur = NoEvent /\ ids[w] = << >>
        /\ \A v \in Ingesters : v # w => pc'[v] = pc[v]
    BY <1>1, <1>4 DEF Lock, LockInv, RequestInv
  <2>2. Len(batch[w]) \in Nat
    BY <1>1
  <2>3. HalfStored(w)
    BY <1>1, <2>1, <2>2 DEF HalfStored, Stands
  <2> QED
    BY <2>1, <2>3, StaysStored DEF OwnerInv
<1>5. ASSUME NEW w \in Ingesters, Begin(w)
      PROVE  OwnerInv'
  <2>1. /\ UNCHANGED <<arrived, batch, ids, pc>> /\ \A v \in Ingesters : pc[v] = "ingesting" => v = w
        /\ Len(ids[w]) < Len(batch[w])
    BY <1>5 DEF Begin, LockInv
  <2>2. FromInput(cur', batch[w][Len(ids[w]) + 1])
    BY <1>5 DEF Begin, FromInput
  <2> QED
    BY <2>1, <2>2 DEF OwnerInv, HalfStored, Stands, FromInput
<1>6. ASSUME NEW w \in Ingesters, Classify(w)
      PROVE  OwnerInv'
  <2>1. /\ UNCHANGED <<arrived, batch, ids, pc>> /\ cur # NoEvent /\ cur \in Event
        /\ cur' = cur \/ cur' = [cur EXCEPT !.severity = IF RuleSeverity[rule] > @ THEN RuleSeverity[rule] ELSE @]
    BY <1>6 DEF Classify, TypeOK
  <2>2. cur'.class = cur.class /\ cur'.container = cur.container /\ cur'.time = cur.time
    BY <2>1 DEF Event
  <2> QED
    BY <2>1, <2>2 DEF OwnerInv, HalfStored, Stands, FromInput
<1>7. ASSUME NEW w \in Ingesters, Store(w)
      PROVE  OwnerInv'
  <2> DEFINE n == Len(ids[w])
             l == Len(arrived)
  <2>1. /\ UNCHANGED <<batch, pc>> /\ \A v \in Ingesters : pc[v] = "ingesting" => v = w
        /\ pc[w] = "ingesting" /\ cur # NoEvent /\ cur \in Event /\ cur' = NoEvent
    BY <1>7 DEF Store, LockInv, TypeOK
  <2>2. ids'[w] = Append(ids[w], cur.id) /\ arrived' = Append(arrived, cur) /\ cur.id \in Nat
    BY <1>1, <1>7, <2>1 DEF Store, Event
  <2>3. /\ ids[w] \in Seq(Nat) /\ batch[w] \in Seq(Inputs)
        /\ n \in Nat /\ l \in Nat /\ Len(batch[w]) \in Nat
    BY <1>1
  <2>4. /\ Len(ids'[w]) = n + 1 /\ ids'[w][n + 1] = cur.id
        /\ \A i \in 1..n : ids'[w][i] = ids[w][i]
        /\ Len(arrived') = l + 1 /\ arrived'[l + 1] = cur
        /\ \A i \in 1..l : arrived'[i] = arrived[i]
    BY <1>1, <2>1, <2>2, <2>3
  <2>5. /\ n < Len(batch[w]) /\ FromInput(cur, batch[w][n + 1]) /\ n <= l
        /\ \A i \in 1..n : arrived[l - n + i].id = ids[w][i] /\ FromInput(arrived[l - n + i], batch[w][i])
    BY <2>1 DEF OwnerInv, HalfStored, Stands
  <2> HIDE DEF n, l
  <2>6. ASSUME NEW i \in 1..n + 1
        PROVE  arrived'[l - n + i].id = ids'[w][i] /\ FromInput(arrived'[l - n + i], batch[w][i])
    <3>1. CASE i \in 1..n
      <4>1. l - n + i \in 1..l
        BY <2>3, <2>5, <3>1
      <4> QED
        BY <2>4, <2>5, <3>1, <4>1
    <3>2. CASE i = n + 1
      <4>1. l - n + i = l + 1
        BY <2>3, <3>2
      <4> QED
        BY <2>4, <2>5, <3>2, <4>1
    <3> QED
      BY <2>3, <3>1, <3>2
  <2>7. /\ Len(arrived') - Len(ids'[w]) = l - n /\ Len(ids'[w]) <= Len(batch[w])
        /\ Len(ids'[w]) <= Len(arrived')
    BY <2>3, <2>4, <2>5
  <2>8. HalfStored(w)'
    <3>1. Len(ids'[w]) = n + 1 /\ batch' = batch
      BY <2>1, <2>4
    <3>2. \A i \in 1..Len(ids'[w]) :
            /\ arrived'[(Len(arrived') - Len(ids'[w])) + i].id = ids'[w][i]
            /\ FromInput(arrived'[(Len(arrived') - Len(ids'[w])) + i], batch'[w][i])
      BY <2>6, <2>7, <3>1
    <3>3. Stands(w, Len(arrived) - Len(ids[w]))'
      BY <3>2 DEF Stands, FromInput
    <3> QED
      BY <2>1, <2>7, <3>1, <3>3 DEF HalfStored
  <2> QED
    BY <2>1, <2>8 DEF OwnerInv
<1>8. RefreshPods \/ UNCHANGED vars => UNCHANGED <<pc, batch, ids, arrived, cur>>
  BY DEF RefreshPods, vars
<1> QED
  BY <1>2, <1>3, <1>4, <1>5, <1>6, <1>7, <1>8 DEF Next

LEMMA ReplyStep ==
  ASSUME TypeOK, LockInv, RequestInv, OwnerInv, ReplyInv, [Next]_vars
  PROVE  ReplyInv'
<1> USE DEF store, remVars, loop, request
<1>1. /\ pc \in [Ingesters -> {"idle", "waiting", "ingesting", "replied", "rejected"}]
      /\ batch \in [Ingesters -> Seq(Inputs)] /\ ids \in [Ingesters -> Seq(Nat)]
      /\ arrived \in Seq(Event) /\ Len(arrived) \in Nat
  <2>1. arrived \in Seq(Event)
    BY DEF TypeOK
  <2> QED
    BY <2>1 DEF TypeOK
<1>2. CASE UNCHANGED <<pc, batch, ids, arrived>>
  BY <1>2, StaysStored DEF ReplyInv
<1>3. ASSUME NEW w \in Ingesters, Validate(w) \/ Return(w) \/ Lock(w)
      PROVE  ReplyInv'
  <2>1. /\ UNCHANGED arrived /\ pc'[w] # "replied"
        /\ \A v \in Ingesters : v # w => batch'[v] = batch[v] /\ ids'[v] = ids[v] /\ pc'[v] = pc[v]
    BY <1>1, <1>3 DEF Validate, Return, Lock
  <2> QED
    BY <2>1, StaysStored DEF ReplyInv
<1>4. ASSUME NEW w \in Ingesters, Unlock(w)
      PROVE  ReplyInv'
  <2>1. /\ UNCHANGED <<arrived, batch, ids>> /\ pc[w] = "ingesting" /\ Len(ids[w]) = Len(batch[w])
        /\ \A v \in Ingesters : v # w => pc'[v] = pc[v]
    BY <1>1, <1>4 DEF Unlock, LockInv
  <2>2. Len(ids[w]) \in Nat /\ Len(ids[w]) <= Len(arrived) /\ Stands(w, Len(arrived) - Len(ids[w]))
    BY <1>1, <2>1 DEF OwnerInv, HalfStored
  <2>3. Len(arrived) - Len(ids[w]) \in 0..Len(arrived) - Len(ids[w])
    BY <1>1, <2>2
  <2>4. AllStored(w)
    BY <2>1, <2>2, <2>3 DEF AllStored
  <2> QED
    BY <2>1, <2>4, StaysStored DEF ReplyInv
<1>5. ASSUME NEW w \in Ingesters, Store(w)
      PROVE  ReplyInv'
  <2>1. /\ UNCHANGED <<batch, pc>> /\ pc[w] = "ingesting" /\ cur \in Event
        /\ \A v \in Ingesters : v # w => ids'[v] = ids[v]
        /\ arrived' = Append(arrived, cur)
    BY <1>1, <1>5 DEF Store, LockInv, TypeOK
  <2>2. /\ Len(arrived') = Len(arrived) + 1
        /\ \A i \in 1..Len(arrived) : arrived'[i] = arrived[i]
    BY <1>1, <2>1
  <2>3. ASSUME NEW v \in Ingesters, v # w, AllStored(v)
        PROVE  AllStored(v)'
    <3>1. PICK at \in 0..Len(arrived) - Len(ids[v]) : Stands(v, at)
      BY <2>3 DEF AllStored
    <3>2. Len(ids[v]) \in Nat
      BY <1>1
    <3>3. at \in 0..Len(arrived') - Len(ids[v]) /\ \A i \in 1..Len(ids[v]) : at + i \in 1..Len(arrived)
      BY <1>1, <2>2, <3>2
    <3>4. \A i \in 1..Len(ids[v]) :
            arrived'[at + i].id = ids[v][i] /\ FromInput(arrived'[at + i], batch[v][i])
      BY <2>2, <3>1, <3>3 DEF Stands
    <3>5. ids'[v] = ids[v] /\ batch'[v] = batch[v]
      BY <2>1, <2>3
    <3>6. Stands(v, at)'
      BY <3>4, <3>5 DEF Stands, FromInput
    <3> QED
      BY <2>3, <3>3, <3>5, <3>6 DEF AllStored
  <2> QED
    BY <2>1, <2>3 DEF ReplyInv
<1>6. ASSUME NEW w \in Ingesters, Begin(w) \/ Classify(w)
      PROVE  ReplyInv'
  BY <1>2, <1>6 DEF Begin, Classify
<1>7. RefreshPods \/ UNCHANGED vars => UNCHANGED <<pc, batch, ids, arrived>>
  BY DEF RefreshPods, vars
<1> QED
  BY <1>2, <1>3, <1>4, <1>5, <1>6, <1>7 DEF Next

LEMMA InitBatchInv == Init => BatchInv
<1> SUFFICES ASSUME Init
             PROVE  BatchInv
  OBVIOUS
<1>1. Nobody \notin Ingesters
  BY AgentStoreAssumption DEF AgentStoreAssumption
<1> QED
  BY <1>1, InitTypeOK DEF Init, BatchInv, LockInv, RequestInv, OwnerInv, ReplyInv

LEMMA StepBatchInv == BatchInv /\ [Next]_vars => BatchInv'
  BY StepTypeOK, LockStep, RequestStep, OwnerStep, ReplyStep DEF BatchInv

(***************************************************************************)
(* The IDs that Ingest returns are those of the batch's events, which stand*)
(* next to each other in the log, whatever the other requests do; of a     *)
(* batch that it rejects, nothing is stored.                               *)
(***************************************************************************)
THEOREM BatchesAreAtomic == Spec => []AllOrNothing
<1>1. ASSUME BatchInv
      PROVE  AllOrNothing
  <2> SUFFICES ASSUME NEW w \in Ingesters
               PROVE  /\ pc[w] = "replied" =>
                           /\ Len(ids[w]) = Len(batch[w])
                           /\ \E at \in 0..Len(arrived) - Len(ids[w]) :
                                \A i \in DOMAIN ids[w] :
                                  /\ arrived[at + i].id = ids[w][i]
                                  /\ arrived[at + i].class = batch[w][i].class
                                  /\ arrived[at + i].container = batch[w][i].container
                                  /\ arrived[at + i].time = batch[w][i].time
                                  /\ batch[w][i].valid
                      /\ pc[w] = "rejected" => ids[w] = << >> /\ \E i \in DOMAIN batch[w] : ~batch[w][i].valid
    BY DEF AllOrNothing
  <2>1. /\ batch[w] \in Seq(Inputs) /\ ids[w] \in Seq(Nat)
        /\ DOMAIN ids[w] = 1..Len(ids[w]) /\ DOMAIN batch[w] = 1..Len(batch[w])
    <3>1. batch[w] \in Seq(Inputs) /\ ids[w] \in Seq(Nat)
      BY <1>1 DEF BatchInv, TypeOK
    <3> QED
      BY <3>1
  <2>2. ASSUME pc[w] = "replied"
        PROVE  /\ Len(ids[w]) = Len(batch[w])
               /\ \E at \in 0..Len(arrived) - Len(ids[w]) : Stands(w, at)
               /\ \A i \in DOMAIN batch[w] : batch[w][i].valid
    BY <1>1, <2>2 DEF BatchInv, ReplyInv, AllStored, RequestInv, Accepts
  <2>3. ASSUME pc[w] = "rejected"
        PROVE  ids[w] = << >> /\ \E i \in DOMAIN batch[w] : ~batch[w][i].valid
    BY <1>1, <2>3 DEF BatchInv, RequestInv, Accepts
  <2> QED
    BY <2>1, <2>2, <2>3 DEF Stands, FromInput
<1> QED
  BY <1>1, InitBatchInv, StepBatchInv, PTL DEF Spec

-----------------------------------------------------------------------------
(***************************************************************************)
(* What a remediation sums.  While the owner tries the rules on cur, those *)
(* tried already counted it, and the log does not hold it yet.             *)
(***************************************************************************)
Counted(rem) ==
  /\ cur # NoEvent
  /\ rem.key[1] < rule
  /\ rem.key[2] = cur.container
  /\ Matches(rem.key[1], cur)

IdsGrow ==
  /\ \A id \in DOMAIN rems :
       rems[id].event < nextID /\ (cur # NoEvent => rems[id].event <= cur.id)
  /\ cur # NoEvent => \A i \in DOMAIN arrived : arrived[i].id < cur.id

Sums(rem) ==
  LET hits == Aggregated(rem)
  IN  /\ rem.occurrences = Cardinality(hits) + (IF Counted(rem) THEN 1 ELSE 0)
      /\ \/ \E i \in hits : arrived[i].id = rem.event /\ arrived[i].named = rem.named
         \/ Counted(rem) /\ cur.id = rem.event /\ cur.named = rem.named
      /\ \A i \in hits : rem.first <= arrived[i].time /\ arrived[i].time <= rem.last
      /\ Counted(rem) => rem.first <= cur.time /\ cur.time <= rem.last
      /\ (\E i \in hits : arrived[i].time = rem.first) \/ (Counted(rem) /\ cur.time = rem.first)
      /\ (\E i \in hits : arrived[i].time = rem.last) \/ (Counted(rem) /\ cur.time = rem.last)

SumsInv == RemInv /\ BatchInv /\ IdsGrow /\ \A id \in DOMAIN rems : Sums(rems[id])

LEMMA RemTypes ==
  ASSUME RemInv, NEW id \in DOMAIN rems
  PROVE  /\ rems[id] \in Remediation /\ rems[id].key \in Keys
         /\ rems[id].key[1] \in Rules /\ rems[id].key[2] \in Containers
         /\ rems[id].key = <<rems[id].key[1], rems[id].key[2]>>
         /\ rems[id].event \in Nat /\ rems[id].occurrences \in Nat \ {0}
         /\ rems[id].first \in Int /\ rems[id].last \in Int
<1>1. rems[id] \in Remediation
  BY DEF RemInv, TypeOK
<1> QED
  BY <1>1 DEF Remediation, Keys

LEMMA HitsFinite ==
  ASSUME TypeOK, NEW rem
  PROVE  /\ Aggregated(rem) \subseteq 1..Len(arrived)
         /\ IsFiniteSet(Aggregated(rem)) /\ Cardinality(Aggregated(rem)) \in Nat
<1>1. arrived \in Seq(Event) /\ Len(arrived) \in Nat /\ DOMAIN arrived = 1..Len(arrived)
  <2>1. arrived \in Seq(Event)
    BY DEF TypeOK
  <2> QED
    BY <2>1
<1>2. Aggregated(rem) \subseteq 1..Len(arrived)
  BY <1>1 DEF Aggregated
<1>3. IsFiniteSet(1..Len(arrived))
  BY <1>1, FS_Interval
<1>4. IsFiniteSet(Aggregated(rem))
  BY <1>2, <1>3, FS_Subset
<1> QED
  BY <1>2, <1>4, FS_CardinalityType

\* What a match does to the remediations: the one of its key counts it or is opened.
LEMMA RecordEffect ==
  ASSUME RemInv, NEW r \in Rules, NEW ev \in Event, Matches(r, ev), Record(r, ev)
  PROVE  /\ nextID' \in {nextID, nextID + 1}
         /\ \A id \in DOMAIN rems' :
              \/ id \in DOMAIN rems /\ rems[id].key # <<r, ev.container>> /\ rems'[id] = rems[id]
              \/ id \in DOMAIN rems /\ rems[id].key = <<r, ev.container>> /\ rems'[id] = Recurred(rems[id], ev)
              \/ rems'[id] = Opened(r, ev)
<1> DEFINE key == <<r, ev.container>>
<1>1. /\ \A k \in DOMAIN remFor : remFor[k] \in DOMAIN rems /\ rems[remFor[k]].key = k
      /\ \A id \in DOMAIN rems : rems[id].key \in DOMAIN remFor /\ remFor[rems[id].key] = id
  BY DEF RemInv, OneRemediationPerKey
<1>2. CASE key \in DOMAIN remFor
  <2>1. rems' = [rems EXCEPT ![remFor[key]] = Recurred(rems[remFor[key]], ev)] /\ nextID' = nextID
    BY <1>2 DEF Record
  <2>2. \A id \in DOMAIN rems : rems[id].key = key <=> id = remFor[key]
    BY <1>1, <1>2
  <2> HIDE DEF key
  <2> QED
    BY <2>1, <2>2 DEF key
<1>3. CASE key \notin DOMAIN remFor /\ ~AtCap
  <2>1. rems' = Put(rems, nextID, Opened(r, ev)) /\ nextID' = nextID + 1
    BY <1>3 DEF Record
  <2>2. \A id \in DOMAIN rems : rems[id].key # key
    BY <1>1, <1>3
  <2>3. \A id \in DOMAIN rems' : rems'[id] = Opened(r, ev) \/ (id \in DOMAIN rems /\ rems'[id] = rems[id])
    BY <2>1 DEF Put
  <2> QED
    BY <2>1, <2>2, <2>3
<1>4. CASE key \notin DOMAIN remFor /\ AtCap
  <2>1. /\ nextID' = nextID + 1
        /\ \E old \in Oldest : rems' = Put(Delete(rems, old), nextID, Opened(r, ev))
    BY <1>4 DEF Record
  <2>2. PICK old \in Oldest : rems' = Put(Delete(rems, old), nextID, Opened(r, ev))
    BY <2>1
  <2>3. \A id \in DOMAIN rems : rems[id].key # key
    BY <1>1, <1>4
  <2>4. \A id \in DOMAIN rems' : rems'[id] = Opened(r, ev) \/ (id \in DOMAIN rems /\ rems'[id] = rems[id])
    BY <2>2 DEF Put, Delete, Restrict
  <2> QED
    BY <2>1, <2>3, <2>4
<1> QED
  BY <1>2, <1>3, <1>4

\* The event being classified changes its severity only.
LEMMA ClassifyCur ==
  ASSUME TypeOK, NEW w \in Ingesters, Classify(w)
  PROVE  /\ cur \in Event /\ cur # NoEvent /\ cur' \in Event /\ cur' # NoEvent
         /\ cur'.id = cur.id /\ cur'.class = cur.class /\ cur'.container = cur.container
         /\ cur'.time = cur.time /\ cur'.named = cur.named
         /\ rule \in Rules /\ rule' = rule + 1 /\ arrived' = arrived
<1>1. /\ cur \in Event /\ cur # NoEvent /\ rule \in Rules /\ rule' = rule + 1 /\ arrived' = arrived
      /\ cur' = cur \/ cur' = [cur EXCEPT !.severity = IF RuleSeverity[rule] > @ THEN RuleSeverity[rule] ELSE @]
  BY DEF Classify, TypeOK
<1>2. RuleSeverity[rule] \in Severities
  BY <1>1, AgentStoreAssumption DEF AgentStoreAssumption
<1>3. cur' \in Event
  BY <1>1, <1>2 DEF Event
<1>4. /\ cur'.id = cur.id /\ cur'.class = cur.class /\ cur'.container = cur.container
      /\ cur'.time = cur.time /\ cur'.named = cur.named
  BY <1>1 DEF Event
<1>5. cur' # NoEvent
  <2>1. cur.id \in Nat
    BY <1>1 DEF Event
  <2> QED
    BY <1>4, <2>1 DEF NoEvent
<1> QED
  BY <1>1, <1>3, <1>4, <1>5

\* IDs only grow.
LEMMA StepIdsGrow ==
  ASSUME RemInv, IdsGrow, BatchInv, [Next]_vars
  PROVE  IdsGrow'
<1> USE DEF store, remVars, loop, request
<1>1. /\ nextID \in Nat /\ DOMAIN rems \subseteq Nat /\ arrived \in Seq(Event)
      /\ \A id \in DOMAIN rems : rems[id].event \in Nat
      /\ \A i \in DOMAIN arrived : arrived[i].id \in Nat /\ arrived[i].id < nextID
      /\ cur # NoEvent => cur \in Event /\ cur.id \in Nat /\ cur.id < nextID
  <2>1. nextID \in Nat /\ DOMAIN rems \subseteq Nat /\ arrived \in Seq(Event) /\ cur \in Event \cup {NoEvent}
    BY DEF RemInv, TypeOK
  <2>2. \A i \in DOMAIN arrived : arrived[i] \in Event
    BY <2>1
  <2>3. \A id \in DOMAIN rems : rems[id].event \in Nat
    BY RemTypes
  <2> QED
    BY <2>1, <2>2, <2>3 DEF Event, RemInv, IdsAreFresh
<1>2. CASE UNCHANGED <<rems, nextID, cur, arrived>>
  BY <1>2 DEF IdsGrow
<1>3. ASSUME NEW w \in Ingesters, Validate(w) \/ Lock(w) \/ Unlock(w) \/ Return(w)
      PROVE  UNCHANGED <<rems, nextID, cur, arrived>>
  BY <1>3 DEF Validate, Lock, Unlock, Return
<1>4. ASSUME NEW w \in Ingesters, Begin(w)
      PROVE  IdsGrow'
  <2>1. cur'.id = nextID /\ nextID' = nextID + 1 /\ UNCHANGED <<rems, arrived>>
    BY <1>4 DEF Begin
  <2> QED
    BY <1>1, <2>1 DEF IdsGrow
<1>5. ASSUME NEW w \in Ingesters, Store(w)
      PROVE  IdsGrow'
  <2>1. cur' = NoEvent /\ UNCHANGED <<rems, nextID>>
    BY <1>5 DEF Store
  <2> QED
    BY <2>1 DEF IdsGrow
<1>6. ASSUME NEW w \in Ingesters, Classify(w), ~Matches(rule, cur)
      PROVE  UNCHANGED <<rems, nextID, cur, arrived>>
  BY <1>6 DEF Classify
<1>7. ASSUME NEW w \in Ingesters, Classify(w), Matches(rule, cur)
      PROVE  IdsGrow'
  <2>1. cur \in Event /\ cur # NoEvent /\ arrived' = arrived /\ cur'.id = cur.id /\ rule \in Rules
    BY <1>7, ClassifyCur DEF RemInv
  <2>2. Record(rule, cur)
    BY <1>7 DEF Classify
  <2>3. /\ nextID' \in {nextID, nextID + 1}
        /\ \A id \in DOMAIN rems' :
             \/ id \in DOMAIN rems /\ rems[id].key # <<rule, cur.container>> /\ rems'[id] = rems[id]
             \/ id \in DOMAIN rems /\ rems[id].key = <<rule, cur.container>> /\ rems'[id] = Recurred(rems[id], cur)
             \/ rems'[id] = Opened(rule, cur)
    BY <1>7, <2>1, <2>2, RecordEffect
  <2>4. ASSUME NEW id \in DOMAIN rems
        PROVE  Recurred(rems[id], cur).event = rems[id].event
    BY RemTypes DEF Recurred, Remediation
  <2>5. Opened(rule, cur).event = cur.id
    BY DEF Opened
  <2>6. \A id \in DOMAIN rems' :
          rems'[id].event = cur.id \/ (id \in DOMAIN rems /\ rems'[id].event = rems[id].event)
    BY <2>3, <2>4, <2>5
  <2> QED
    BY <1>1, <2>1, <2>3, <2>6 DEF IdsGrow
<1>8. RefreshPods \/ UNCHANGED vars => UNCHANGED <<rems, nextID, cur, arrived>>
  BY DEF RefreshPods, vars
<1> QED
  BY <1>2, <1>3, <1>4, <1>5, <1>6, <1>7, <1>8 DEF Next

\* The sums of a remediation that a step leaves alone, as it does its events.
LEMMA SameSums ==
  ASSUME NEW rem, Sums(rem), arrived' = arrived, Counted(rem)' <=> Counted(rem),
         Counted(rem) => cur'.id = cur.id /\ cur'.time = cur.time /\ cur'.named = cur.named
  PROVE  Sums(rem)'
<1>1. Aggregated(rem)' = Aggregated(rem)
  BY DEF Aggregated, Matches
<1> HIDE DEF Counted, Aggregated
<1>2. CASE Counted(rem)
  BY <1>1, <1>2 DEF Sums
<1>3. CASE ~Counted(rem)
  BY <1>1, <1>3 DEF Sums
<1> QED
  BY <1>2, <1>3

\* One more match of an open remediation.
LEMMA RecurredSums ==
  ASSUME TypeOK, NEW rem \in Remediation, Sums(rem), ~Counted(rem), arrived' = arrived,
         cur \in Event, cur'.time = cur.time,
         NEW new, new = Recurred(rem, cur), Counted(new)'
  PROVE  Sums(new)'
<1>1. /\ rem.occurrences \in Nat \ {0} /\ rem.first \in Int /\ rem.last \in Int /\ cur.time \in Int
  BY DEF Remediation, Event
<1>2. /\ new.key = rem.key /\ new.event = rem.event /\ new.named = rem.named
      /\ new.occurrences = rem.occurrences + 1
      /\ new.first = EarlierOf(rem.first, cur.time) /\ new.last = LaterOf(rem.last, cur.time)
  BY DEF Recurred, Remediation
<1>3. Aggregated(new)' = Aggregated(rem)
  BY <1>2 DEF Aggregated, Matches
<1>4. PICK hits : hits = Aggregated(rem)
  OBVIOUS
<1>5. Cardinality(hits) \in Nat /\ hits \subseteq 1..Len(arrived) /\ arrived \in Seq(Event)
  BY <1>4, HitsFinite DEF TypeOK
<1>6. \A i \in hits : arrived[i].time \in Int
  <2>1. \A i \in 1..Len(arrived) : arrived[i] \in Event
    BY <1>5
  <2> QED
    BY <1>5, <2>1 DEF Event
<1> HIDE DEF Counted, Aggregated
<1>7. /\ rem.occurrences = Cardinality(hits)
      /\ \E i \in hits : arrived[i].id = rem.event /\ arrived[i].named = rem.named
      /\ \A i \in hits : rem.first <= arrived[i].time /\ arrived[i].time <= rem.last
      /\ \E i \in hits : arrived[i].time = rem.first
      /\ \E i \in hits : arrived[i].time = rem.last
  BY <1>1, <1>4, <1>5 DEF Sums
<1>8. /\ new.first <= rem.first /\ new.first <= cur.time /\ new.first \in Int
      /\ new.first = rem.first \/ new.first = cur.time
      /\ rem.last <= new.last /\ cur.time <= new.last /\ new.last \in Int
      /\ new.last = rem.last \/ new.last = cur.time
  BY <1>1, <1>2 DEF EarlierOf, LaterOf
<1>9. new.occurrences = Cardinality(hits) + 1
  BY <1>2, <1>7
<1>10. \A i \in hits : new.first <= arrived[i].time /\ arrived[i].time <= new.last
  BY <1>1, <1>6, <1>7, <1>8
<1>11. Aggregated(new)' = hits
  BY <1>3, <1>4
<1>12. /\ (\E i \in hits : arrived[i].time = new.first) \/ cur.time = new.first
       /\ (\E i \in hits : arrived[i].time = new.last) \/ cur.time = new.last
  BY <1>7, <1>8
<1>13. \E i \in hits : arrived[i].id = new.event /\ arrived[i].named = new.named
  BY <1>2, <1>7
<1> QED
  BY <1>8, <1>9, <1>10, <1>11, <1>12, <1>13 DEF Sums

\* A remediation that a match opens.
LEMMA OpenedSums ==
  ASSUME TypeOK, IdsGrow, arrived' = arrived, cur \in Event, cur # NoEvent,
         cur'.id = cur.id, cur'.time = cur.time, cur'.named = cur.named,
         NEW r, NEW new, new = Opened(r, cur), Counted(new)'
  PROVE  Sums(new)'
<1>1. /\ new.event = cur.id /\ new.named = cur.named /\ new.occurrences = 1
      /\ new.first = cur.time /\ new.last = cur.time
  BY DEF Opened
<1>2. cur.id \in Nat /\ cur.time \in Int /\ \A i \in DOMAIN arrived : arrived[i].id \in Nat /\ arrived[i].id < cur.id
  <2>1. arrived \in Seq(Event)
    BY DEF TypeOK
  <2>2. \A i \in DOMAIN arrived : arrived[i] \in Event
    BY <2>1
  <2> QED
    BY <2>2 DEF Event, IdsGrow
<1>3. Aggregated(new)' = {}
  BY <1>1, <1>2 DEF Aggregated
<1>4. Cardinality({}) = 0
  BY FS_EmptySet
<1> HIDE DEF Counted, Aggregated
<1> QED
  BY <1>1, <1>2, <1>3, <1>4 DEF Sums

\* The event that was counted is stored.
LEMMA StoredSums ==
  ASSUME TypeOK, NEW w \in Ingesters, Store(w),
         NEW rem \in Remediation, Sums(rem), rem.event <= cur.id
  PROVE  Sums(rem)'
<1>1. /\ cur \in Event /\ cur' = NoEvent /\ arrived' = Append(arrived, cur) /\ arrived \in Seq(Event)
      /\ rule \in 1..NumRules + 1 /\ rule \notin Rules /\ cur # NoEvent
  BY DEF Store, TypeOK
<1>2. /\ rem.occurrences \in Nat \ {0} /\ rem.first \in Int /\ rem.last \in Int
      /\ rem.key[1] \in Rules /\ rem.key[2] \in Containers
  BY DEF Remediation, Keys
<1>3. rem.key[1] < rule
  BY <1>1, <1>2, AgentStoreAssumption, SMTT(20) DEF Rules, AgentStoreAssumption
<1> DEFINE top == Len(arrived) + 1
<1>4. /\ DOMAIN arrived = 1..Len(arrived) /\ DOMAIN arrived' = DOMAIN arrived \cup {top}
      /\ top \notin DOMAIN arrived /\ arrived'[top] = cur
      /\ \A i \in DOMAIN arrived : arrived'[i] = arrived[i]
  <2>1. /\ Len(arrived) \in Nat /\ arrived' \in Seq(Event) /\ Len(arrived') = top /\ arrived'[top] = cur
        /\ DOMAIN arrived = 1..Len(arrived)
        /\ \A i \in 1..Len(arrived) : arrived'[i] = arrived[i]
    BY <1>1
  <2>2. DOMAIN arrived' = 1..top
    BY <2>1
  <2> QED
    BY <2>1, <2>2
<1> HIDE DEF top
<1>5. ~Counted(rem)'
  BY <1>1 DEF Counted
<1>6. Counted(rem) <=> cur.container = rem.key[2] /\ Matches(rem.key[1], cur)
  BY <1>1, <1>3 DEF Counted
<1>7. cur.id >= rem.event
  BY <1>1 DEF Remediation, Event
<1>8. /\ Aggregated(rem) \subseteq DOMAIN arrived
      /\ \A i \in Aggregated(rem) : arrived'[i] = arrived[i]
  BY <1>4 DEF Aggregated
<1>9. Aggregated(rem)' = IF Counted(rem) THEN Aggregated(rem) \cup {top} ELSE Aggregated(rem)
  <2>1. ASSUME NEW i \in DOMAIN arrived
        PROVE  i \in Aggregated(rem)' <=> i \in Aggregated(rem)
    BY <1>4 DEF Aggregated, Matches
  <2>2. top \in Aggregated(rem)' <=> Counted(rem)
    BY <1>4, <1>6, <1>7 DEF Aggregated, Matches
  <2>3. Aggregated(rem)' \subseteq DOMAIN arrived \cup {top}
    BY <1>4 DEF Aggregated
  <2> HIDE DEF Counted, Aggregated
  <2> QED
    BY <1>8, <2>1, <2>2, <2>3
<1>10. PICK hits : hits = Aggregated(rem)
  OBVIOUS
<1>11. IsFiniteSet(hits) /\ Cardinality(hits) \in Nat /\ top \notin hits
  BY <1>4, <1>8, <1>10, HitsFinite
<1>12. Cardinality(hits \cup {top}) = Cardinality(hits) + 1
  BY <1>11, FS_AddElement
<1> HIDE DEF Counted, Aggregated
<1>13. \A i \in hits : arrived'[i] = arrived[i]
  BY <1>8, <1>10
<1>14. CASE Counted(rem)
  <2>1. Aggregated(rem)' = hits \cup {top}
    BY <1>9, <1>10, <1>14
  <2>2. /\ rem.occurrences = Cardinality(hits) + 1
        /\ \/ \E i \in hits : arrived[i].id = rem.event /\ arrived[i].named = rem.named
           \/ cur.id = rem.event /\ cur.named = rem.named
        /\ \A i \in hits : rem.first <= arrived[i].time /\ arrived[i].time <= rem.last
        /\ rem.first <= cur.time /\ cur.time <= rem.last
        /\ (\E i \in hits : arrived[i].time = rem.first) \/ cur.time = rem.first
        /\ (\E i \in hits : arrived[i].time = rem.last) \/ cur.time = rem.last
    BY <1>10, <1>14 DEF Sums
  <2>3. rem.occurrences = Cardinality(Aggregated(rem)') + 0
    BY <1>2, <1>12, <2>1, <2>2
  <2>4. /\ \E i \in hits \cup {top} : arrived'[i].id = rem.event /\ arrived'[i].named = rem.named
        /\ \A i \in hits \cup {top} : rem.first <= arrived'[i].time /\ arrived'[i].time <= rem.last
        /\ \E i \in hits \cup {top} : arrived'[i].time = rem.first
        /\ \E i \in hits \cup {top} : arrived'[i].time = rem.last
    BY <1>4, <1>13, <2>2
  <2> QED
    BY <1>5, <2>1, <2>3, <2>4 DEF Sums
<1>15. CASE ~Counted(rem)
  <2>1. Aggregated(rem)' = hits
    BY <1>9, <1>10, <1>15
  <2>2. /\ rem.occurrences = Cardinality(hits) + 0
        /\ \E i \in hits : arrived[i].id = rem.event /\ arrived[i].named = rem.named
        /\ \A i \in hits : rem.first <= arrived[i].time /\ arrived[i].time <= rem.last
        /\ \E i \in hits : arrived[i].time = rem.first
        /\ \E i \in hits : arrived[i].time = rem.last
    BY <1>10, <1>15 DEF Sums
  <2> QED
    BY <1>5, <1>13, <2>1, <2>2 DEF Sums
<1> QED
  BY <1>14, <1>15

LEMMA StepSums ==
  ASSUME SumsInv, [Next]_vars
  PROVE  \A id \in DOMAIN rems' : Sums(rems[id])'
<1> USE DEF store, remVars, loop, request
<1>1. TypeOK /\ RemInv /\ BatchInv /\ IdsGrow /\ \A id \in DOMAIN rems : Sums(rems[id])
  BY DEF SumsInv, RemInv
<1>2. ASSUME NEW id \in DOMAIN rems
      PROVE  rems[id] \in Remediation /\ rems[id].key[1] \in Rules
             /\ rems[id].key = <<rems[id].key[1], rems[id].key[2]>>
  BY <1>1, RemTypes
<1>3. CASE UNCHANGED <<rems, cur, rule, arrived>>
  <2> SUFFICES ASSUME NEW id \in DOMAIN rems
               PROVE  Sums(rems[id])'
    BY <1>3
  <2>1. PICK rem : rem = rems[id]
    OBVIOUS
  <2>2. Sums(rem) /\ (Counted(rem)' <=> Counted(rem))
    BY <1>1, <1>3, <2>1 DEF Counted, Matches
  <2>3. Sums(rem)'
    BY <1>3, <2>2, SameSums
  <2> QED
    BY <1>3, <2>1, <2>3
<1>4. ASSUME NEW w \in Ingesters, Validate(w) \/ Lock(w) \/ Unlock(w) \/ Return(w)
      PROVE  UNCHANGED <<rems, cur, rule, arrived>>
  BY <1>4 DEF Validate, Lock, Unlock, Return
<1>5. ASSUME NEW w \in Ingesters, Begin(w)
      PROVE  \A id \in DOMAIN rems' : Sums(rems[id])'
  <2>1. cur = NoEvent /\ rule' = 1 /\ UNCHANGED <<rems, arrived>>
    BY <1>5 DEF Begin
  <2> SUFFICES ASSUME NEW id \in DOMAIN rems
               PROVE  Sums(rems[id])'
    BY <2>1
  <2>2. PICK rem : rem = rems[id]
    OBVIOUS
  <2>3. rem.key[1] \in Rules /\ Sums(rem)
    BY <1>1, <1>2, <2>2
  <2>4. ~Counted(rem) /\ ~Counted(rem)'
    BY <2>1, <2>3 DEF Counted, Rules
  <2>5. Sums(rem)'
    BY <2>1, <2>3, <2>4, SameSums
  <2> QED
    BY <2>1, <2>2, <2>5
<1>6. ASSUME NEW w \in Ingesters, Classify(w)
      PROVE  \A id \in DOMAIN rems' : Sums(rems[id])'
  <2>1. /\ cur \in Event /\ cur # NoEvent /\ cur' \in Event /\ cur' # NoEvent
        /\ cur'.id = cur.id /\ cur'.class = cur.class /\ cur'.container = cur.container
        /\ cur'.time = cur.time /\ cur'.named = cur.named
        /\ rule \in Rules /\ rule \in Int /\ rule' = rule + 1 /\ arrived' = arrived
    BY <1>1, <1>6, ClassifyCur DEF Rules
  <2>2. \A r : Matches(r, cur)' <=> Matches(r, cur)
    BY <2>1 DEF Matches
  <2>3. ASSUME NEW rem, rem.key[1] \in Rules
        PROVE  Counted(rem)' <=> \/ Counted(rem)
                                 \/ /\ rem.key[1] = rule /\ rem.key[2] = cur.container
                                    /\ Matches(rule, cur)
    <3>1. rem.key[1] < rule + 1 <=> rem.key[1] < rule \/ rem.key[1] = rule
      BY <2>1, <2>3 DEF Rules
    <3>2. Matches(rem.key[1], cur)' <=> Matches(rem.key[1], cur)
      BY <2>1 DEF Matches
    <3> HIDE DEF Matches
    <3> QED
      BY <2>1, <3>1, <3>2 DEF Counted
  <2>4. ASSUME NEW id \in DOMAIN rems, rems'[id] = rems[id],
               Matches(rule, cur) => rems[id].key # <<rule, cur.container>>
        PROVE  Sums(rems[id])'
    <3>1. PICK rem : rem = rems[id]
      OBVIOUS
    <3>2. rem.key[1] \in Rules /\ rem.key = <<rem.key[1], rem.key[2]>> /\ Sums(rem)
      BY <1>1, <1>2, <3>1
    <3>3. Counted(rem)' <=> Counted(rem)
      BY <2>3, <2>4, <3>1, <3>2
    <3>4. Sums(rem)'
      BY <2>1, <3>2, <3>3, SameSums
    <3> QED
      BY <2>4, <3>1, <3>4
  <2>5. CASE ~Matches(rule, cur)
    <3>1. rems' = rems
      BY <1>6, <2>5 DEF Classify
    <3> QED
      BY <2>4, <2>5, <3>1
  <2>6. CASE Matches(rule, cur)
    <3>1. Record(rule, cur)
      BY <1>6, <2>6 DEF Classify
    <3>2. \A id \in DOMAIN rems' :
            \/ id \in DOMAIN rems /\ rems[id].key # <<rule, cur.container>> /\ rems'[id] = rems[id]
            \/ id \in DOMAIN rems /\ rems[id].key = <<rule, cur.container>> /\ rems'[id] = Recurred(rems[id], cur)
            \/ rems'[id] = Opened(rule, cur)
      BY <1>1, <2>1, <2>6, <3>1, RecordEffect
    <3>3. ASSUME NEW new, new.key = <<rule, cur.container>>
          PROVE  Counted(new)'
      <4>1. new.key[1] = rule /\ new.key[2] = cur.container
        BY <3>3
      <4> QED
        BY <2>1, <2>3, <2>6, <4>1
    <3> SUFFICES ASSUME NEW id \in DOMAIN rems'
                 PROVE  Sums(rems[id])'
      OBVIOUS
    <3>4. CASE id \in DOMAIN rems /\ rems[id].key # <<rule, cur.container>> /\ rems'[id] = rems[id]
      BY <2>4, <3>4
    <3>5. CASE id \in DOMAIN rems /\ rems[id].key = <<rule, cur.container>> /\ rems'[id] = Recurred(rems[id], cur)
      <4>1. PICK rem : rem = rems[id]
        OBVIOUS
      <4>2. PICK new : new = Recurred(rem, cur)
        OBVIOUS
      <4>3. rem \in Remediation /\ Sums(rem) /\ rem.key[1] = rule
        BY <1>1, <1>2, <3>5, <4>1
      <4>4. new.key = rem.key
        BY <4>2, <4>3 DEF Recurred, Remediation
      <4>5. Counted(new)'
        BY <3>3, <3>5, <4>1, <4>4
      <4>6. ~Counted(rem)
        BY <2>1, <4>3 DEF Counted
      <4>7. Sums(new)'
        BY <1>1, <2>1, <4>2, <4>3, <4>5, <4>6, RecurredSums
      <4> QED
        BY <3>5, <4>1, <4>2, <4>7
    <3>6. CASE rems'[id] = Opened(rule, cur)
      <4>1. PICK new : new = Opened(rule, cur)
        OBVIOUS
      <4>2. Counted(new)'
        BY <3>3, <4>1 DEF Opened
      <4>3. Sums(new)'
        BY <1>1, <2>1, <4>1, <4>2, OpenedSums
      <4> QED
        BY <3>6, <4>1, <4>3
    <3> QED
      BY <3>2, <3>4, <3>5, <3>6
  <2> QED
    BY <2>5, <2>6
<1>7. ASSUME NEW w \in Ingesters, Store(w)
      PROVE  \A id \in DOMAIN rems' : Sums(rems[id])'
  <2>1. rems' = rems /\ cur # NoEvent
    BY <1>7 DEF Store
  <2> SUFFICES ASSUME NEW id \in DOMAIN rems
               PROVE  Sums(rems[id])'
    BY <2>1
  <2>2. PICK rem : rem = rems[id]
    OBVIOUS
  <2>3. rem \in Remediation /\ Sums(rem) /\ rem.event <= cur.id
    BY <1>1, <1>2, <2>1, <2>2 DEF IdsGrow
  <2>4. Sums(rem)'
    BY <1>1, <1>7, <2>3, StoredSums
  <2> QED
    BY <2>1, <2>2, <2>4
<1>8. RefreshPods \/ UNCHANGED vars => UNCHANGED <<rems, cur, rule, arrived>>
  BY DEF RefreshPods, vars
<1> QED
  BY <1>3, <1>4, <1>5, <1>6, <1>7, <1>8 DEF Next

LEMMA InitSums == Init => SumsInv
<1> SUFFICES ASSUME Init
             PROVE  SumsInv
  OBVIOUS
<1>1. DOMAIN rems = {} /\ cur = NoEvent
  BY DEF Init, EmptyMap
<1> QED
  BY <1>1, InitRemInv, InitBatchInv DEF SumsInv, IdsGrow

LEMMA StepSumsInv == SumsInv /\ [Next]_vars => SumsInv'
<1> SUFFICES ASSUME SumsInv, [Next]_vars
             PROVE  SumsInv'
  OBVIOUS
<1>1. RemInv' /\ BatchInv'
  BY StepRemInv, StepBatchInv DEF SumsInv
<1>2. IdsGrow'
  BY StepIdsGrow DEF SumsInv
<1>3. \A id \in DOMAIN rems' : Sums(rems[id])'
  BY StepSums
<1> QED
  BY <1>1, <1>2, <1>3 DEF SumsInv

(***************************************************************************)
(* What GET /v1/remediations shows is the sum of the events stored: for    *)
(* every order of the requests, of the times in them and of the evictions. *)
(***************************************************************************)
THEOREM RemediationsSum == Spec => []RemediationSumsItsMatches
<1>1. ASSUME SumsInv
      PROVE  RemediationSumsItsMatches
  <2> SUFFICES ASSUME Visible, NEW id \in DOMAIN rems
               PROVE  LET rem == rems[id]
                          hits == Aggregated(rem)
                      IN  /\ rem.occurrences = Cardinality(hits)
                          /\ \E i \in hits : arrived[i].id = rem.event /\ arrived[i].named = rem.named
                          /\ \A i \in hits : rem.first <= arrived[i].time /\ arrived[i].time <= rem.last
                          /\ \E i \in hits : arrived[i].time = rem.first
                          /\ \E i \in hits : arrived[i].time = rem.last
    BY DEF RemediationSumsItsMatches
  <2>1. PICK rem : rem = rems[id]
    OBVIOUS
  <2>2. Sums(rem) /\ ~Counted(rem)
    BY <1>1, <2>1 DEF SumsInv, BatchInv, LockInv, Visible, Counted
  <2>3. Cardinality(Aggregated(rem)) \in Nat
    BY <1>1, HitsFinite DEF SumsInv, BatchInv
  <2> HIDE DEF Counted, Aggregated
  <2> QED
    BY <2>1, <2>2, <2>3 DEF Sums
<1> QED
  BY <1>1, InitSums, StepSumsInv, PTL DEF Spec

-----------------------------------------------------------------------------
(***************************************************************************)
(* The refinement of EventLog.                                             *)
(***************************************************************************)
\* t is the last n elements of s, or all of them.
IsEnd(t, s, n, S) ==
  /\ t \in Seq(S) /\ Len(s) \in Nat
  /\ Len(t) = (IF Len(s) <= n THEN Len(s) ELSE n)
  /\ \A j \in 1..Len(t) : t[j] = s[Len(s) - Len(t) + j]

LEMMA LastNFacts ==
  ASSUME NEW S, NEW s \in Seq(S), NEW n \in Nat
  PROVE  IsEnd(Log!LastN(s, n), s, n, S)
<1>1. CASE Len(s) <= n
  BY <1>1 DEF Log!LastN, IsEnd
<1>2. CASE ~(Len(s) <= n)
  <2> DEFINE u == SubSeq(s, Len(s) - n + 1, Len(s))
  <2>1. u \in Seq(S) /\ Len(u) = n /\ Len(s) \in Nat /\ \A j \in 1..n : u[j] = s[Len(s) - n + j]
    BY <1>2
  <2>2. Log!LastN(s, n) = u
    BY <1>2 DEF Log!LastN
  <2> HIDE DEF u
  <2> QED
    BY <1>2, <2>1, <2>2 DEF IsEnd
<1> QED
  BY <1>1, <1>2

\* The log before the last n of the A events of a and after them, and its last k.
Grown(a, n, A, M, k, before, after, b, S) ==
  /\ Len(after) >= k
  /\ b \in Seq(S) /\ Len(b) = k /\ \A i \in 1..k : b[i] = a[A - k + i]
  /\ before \in Seq(S) /\ Len(before) \in Nat /\ Len(before) <= A - n
  /\ \A j \in 1..Len(before) : before[j] = a[A - n - Len(before) + j]
  /\ after = Log!LastN(before \o b, M)

\* A log of which the last n events are new is the log before them with the new
\* ones that it retains appended.
LEMMA LogGrows ==
  ASSUME NEW S, NEW a \in Seq(S), NEW n \in Nat \ {0}, NEW A, A = Len(a), n <= A,
         NEW M \in Nat \ {0}, NEW k, k = (IF n < M THEN n ELSE M),
         NEW before, before = Log!LastN(SubSeq(a, 1, A - n), M),
         NEW after, after = Log!LastN(a, M),
         NEW b, b = Log!LastN(after, k)
  PROVE  Grown(a, n, A, M, k, before, after, b, S)
<1>1. A \in Nat /\ k \in Nat \ {0} /\ n \in Nat /\ M \in Nat /\ M # 0
  OBVIOUS
<1> DEFINE p == SubSeq(a, 1, A - n)
<1>2. p \in Seq(S) /\ Len(p) = A - n /\ \A i \in 1..A - n : p[i] = a[i]
  OBVIOUS
<1>3. before = Log!LastN(p, M)
  OBVIOUS
<1> HIDE DEF p
<1>4. /\ before \in Seq(S) /\ Len(before) = (IF A - n <= M THEN A - n ELSE M)
      /\ \A j \in 1..Len(before) : before[j] = p[A - n - Len(before) + j]
  <2>1. p \in Seq(S)
    BY <1>2
  <2>2. /\ before \in Seq(S) /\ Len(before) = (IF Len(p) <= M THEN Len(p) ELSE M)
        /\ \A j \in 1..Len(before) : before[j] = p[Len(p) - Len(before) + j]
    <3>1. IsEnd(before, p, M, S)
      BY <1>1, <1>3, <2>1, LastNFacts
    <3> QED
      BY <3>1 DEF IsEnd
  <2> QED
    BY <1>2, <2>2
<1>5. /\ after \in Seq(S) /\ Len(after) = (IF A <= M THEN A ELSE M)
      /\ \A j \in 1..Len(after) : after[j] = a[A - Len(after) + j]
  <2>1. /\ after \in Seq(S) /\ Len(after) = (IF Len(a) <= M THEN Len(a) ELSE M)
        /\ \A j \in 1..Len(after) : after[j] = a[Len(a) - Len(after) + j]
    <3>1. IsEnd(after, a, M, S)
      BY <1>1, LastNFacts
    <3> QED
      BY <3>1 DEF IsEnd
  <2> QED
    BY <2>1
<1>6. PICK L0 : L0 = Len(before)
  OBVIOUS
<1>7. PICK L1 : L1 = Len(after)
  OBVIOUS
<1>8. /\ L0 \in Nat /\ L0 = (IF A - n <= M THEN A - n ELSE M) /\ L0 <= A - n
      /\ L1 \in Nat /\ L1 = (IF A <= M THEN A ELSE M) /\ L1 >= k /\ L1 <= A
  BY <1>1, <1>4, <1>5, <1>6, <1>7
<1>9. /\ b \in Seq(S) /\ Len(b) = k /\ \A i \in 1..k : b[i] = after[L1 - k + i]
  <2>1. after \in Seq(S) /\ k \in Nat
    BY <1>1, <1>5
  <2>2. /\ b \in Seq(S)
        /\ Len(b) = (IF Len(after) <= k THEN Len(after) ELSE k)
        /\ \A j \in 1..Len(b) : b[j] = after[Len(after) - Len(b) + j]
    <3>1. IsEnd(b, after, k, S)
      BY <2>1, LastNFacts
    <3> QED
      BY <3>1 DEF IsEnd
  <2>3. Len(b) = k
    BY <1>1, <1>7, <1>8, <2>2
  <2> QED
    BY <1>7, <2>2, <2>3, ZenonT(20)
<1>10. \A j \in 1..L0 : before[j] = a[A - n - L0 + j]
  <2> SUFFICES ASSUME NEW j \in 1..L0
               PROVE  before[j] = a[A - n - L0 + j]
    OBVIOUS
  <2>1. A - n - L0 + j \in 1..A - n
    BY <1>1, <1>8
  <2>2. before[j] = p[A - n - L0 + j]
    BY <1>4, <1>6
  <2> QED
    BY <1>2, <2>1, <2>2
<1>11. \A i \in 1..k : b[i] = a[A - k + i]
  <2> SUFFICES ASSUME NEW i \in 1..k
               PROVE  b[i] = a[A - k + i]
    OBVIOUS
  <2>1. L1 - k + i \in 1..L1 /\ A - L1 + (L1 - k + i) = A - k + i
    BY ONLY <1>1, <1>8, i \in 1..k
  <2>2. after[L1 - k + i] = a[A - L1 + (L1 - k + i)]
    BY <1>5, <1>7, <2>1
  <2> QED
    BY <1>9, <2>1, <2>2
<1>12. PICK c : c = before \o b
  OBVIOUS
<1>13. /\ c \in Seq(S) /\ Len(c) = L0 + k
       /\ \A j \in 1..L0 : c[j] = before[j]
       /\ \A i \in 1..k : c[L0 + i] = b[i]
  <2>1. before \in Seq(S) /\ b \in Seq(S)
    BY <1>4, <1>9
  <2>2. /\ before \o b \in Seq(S) /\ Len(before \o b) = Len(before) + Len(b)
        /\ \A j \in 1..Len(before) : (before \o b)[j] = before[j]
        /\ \A i \in 1..Len(b) : (before \o b)[Len(before) + i] = b[i]
    BY ONLY <2>1
  <2> QED
    BY ONLY <1>6, <1>9, <1>12, <2>2
<1>14. PICK d : d = Log!LastN(c, M)
  OBVIOUS
<1>15. /\ d \in Seq(S) /\ Len(d) = (IF Len(c) <= M THEN Len(c) ELSE M)
       /\ \A j \in 1..Len(d) : d[j] = c[Len(c) - Len(d) + j]
  <2>1. c \in Seq(S) /\ M \in Nat
    BY <1>1, <1>13
  <2>2. IsEnd(d, c, M, S)
    BY <1>14, <2>1, LastNFacts
  <2> QED
    BY <2>2 DEF IsEnd
<1>16. Len(d) = L1
  <2>1. Len(d) = (IF Len(c) <= M THEN Len(c) ELSE M) /\ Len(c) = L0 + k
    BY <1>13, <1>15
  <2> QED
    BY ONLY <1>1, <1>8, <2>1, k = (IF n < M THEN n ELSE M), n <= A
<1>17. ASSUME NEW j \in 1..L1
       PROVE  d[j] = a[A - L1 + j]
  <2>1. PICK x : x = L0 + k - L1 + j
    OBVIOUS
  <2>2. x \in 1..L0 + k /\ x \in Int
    BY ONLY <1>1, <1>8, <2>1, j \in 1..L1, k = (IF n < M THEN n ELSE M), n <= A
  <2>3. d[j] = c[x]
    <3>1. Len(c) - Len(d) + j = x
      <4>1. Len(c) = L0 + k
        BY <1>13
      <4> QED
        BY ONLY <1>1, <1>8, <1>16, <2>1, <4>1, j \in 1..L1
    <3> QED
      BY <1>15, <1>16, <3>1
  <2>4. CASE x \in 1..L0
    <3>1. A - n - L0 + x = A - L1 + j
      BY ONLY <1>1, <1>8, <2>1, <2>4, j \in 1..L1, k = (IF n < M THEN n ELSE M), n <= A
    <3> QED
      BY <1>10, <1>13, <2>3, <2>4, <3>1
  <2>5. CASE x \notin 1..L0
    <3>1. x - L0 \in 1..k /\ L0 + (x - L0) = x
      BY ONLY <1>1, <1>8, <2>2, <2>5
    <3>2. A - k + (x - L0) = A - L1 + j
      BY ONLY <1>1, <1>8, <2>1, j \in 1..L1
    <3>3. c[x] = b[x - L0]
      BY <1>13, <3>1
    <3> QED
      BY <1>11, <2>3, <3>1, <3>2, <3>3
  <2> QED
    BY <2>4, <2>5
<1>18. \A j \in 1..L1 : d[j] = after[j]
  BY <1>5, <1>7, <1>17
<1>19. after = d
  <2>1. after \in Seq(S) /\ d \in Seq(S) /\ Len(after) = Len(d) /\ \A j \in 1..Len(after) : after[j] = d[j]
    BY <1>5, <1>7, <1>15, <1>16, <1>18
  <2> QED
    BY ONLY <2>1
<1>20. Len(after) >= k /\ Len(before) \in Nat /\ Len(before) <= A - n
  BY <1>6, <1>7, <1>8
<1>21. after = Log!LastN(before \o b, M)
  BY <1>12, <1>14, <1>19
<1>22. \A j \in 1..Len(before) : before[j] = a[A - n - Len(before) + j]
  BY <1>6, <1>10
<1> QED
  BY <1>4, <1>9, <1>11, <1>20, <1>21, <1>22 DEF Grown

\* The events of the batches that readers may see.
Shown == IF Visible THEN arrived ELSE SubSeq(arrived, 1, Len(arrived) - Len(ids[mutex]))

LEMMA VisibleIsShown == RingInv /\ BatchInv => VisibleLog = Log!LastN(Shown, MaxEvents)
<1> SUFFICES ASSUME RingInv, BatchInv
             PROVE  VisibleLog = Log!LastN(Shown, MaxEvents)
  OBVIOUS
<1>1. /\ arrived \in Seq(Event) /\ Len(arrived) \in Nat /\ MaxEvents \in Nat \ {0}
  <2>1. arrived \in Seq(Event)
    BY DEF RingInv, TypeOK
  <2> QED
    BY <2>1, AgentStoreAssumption DEF AgentStoreAssumption
<1>2. CASE Visible
  <2>1. /\ VisibleLog = SubSeq(arrived, Len(arrived) - stored + 1, Len(arrived)) /\ Shown = arrived
        /\ stored = (IF Len(arrived) < MaxEvents THEN Len(arrived) ELSE MaxEvents)
    BY <1>2, RingInvHolds DEF HoldsTheLatest, VisibleLog, Shown
  <2>2. CASE Len(arrived) <= MaxEvents
    <3>1. stored = Len(arrived) /\ Len(arrived) - Len(arrived) + 1 = 1
      BY <1>1, <2>1, <2>2
    <3>2. VisibleLog = SubSeq(arrived, 1, Len(arrived))
      BY <2>1, <3>1
    <3>3. SubSeq(arrived, 1, Len(arrived)) = arrived
      BY <1>1
    <3> QED
      BY <2>1, <2>2, <3>2, <3>3 DEF Log!LastN
  <2>3. CASE ~(Len(arrived) <= MaxEvents)
    <3>1. stored = MaxEvents
      BY <1>1, <2>1, <2>3
    <3> QED
      BY <2>1, <2>3, <3>1 DEF Log!LastN
  <2> QED
    BY <2>2, <2>3
<1>3. CASE ~Visible
  BY <1>3 DEF VisibleLog, Shown, Log!LastN
<1> QED
  BY <1>2, <1>3

LEMMA VisibleIsShownNext == (RingInv /\ BatchInv => VisibleLog = Log!LastN(Shown, MaxEvents))'
  BY VisibleIsShown, PTL

\* Only Unlock shows more of it.
LEMMA ShownStep ==
  ASSUME BatchInv, BatchInv', [Next]_vars, ~\E w \in Ingesters : Unlock(w)
  PROVE  Shown' = Shown
<1> USE DEF store, remVars, loop, request
<1>1. /\ ids \in [Ingesters -> Seq(Nat)] /\ arrived \in Seq(Event) /\ Len(arrived) \in Nat
      /\ pc \in [Ingesters -> {"idle", "waiting", "ingesting", "replied", "rejected"}]
      /\ Nobody \notin Ingesters /\ mutex \in Ingesters \cup {Nobody}
  <2>1. arrived \in Seq(Event)
    BY DEF BatchInv, TypeOK
  <2>2. Nobody \notin Ingesters
    BY AgentStoreAssumption DEF AgentStoreAssumption
  <2>3. /\ ids \in [Ingesters -> Seq(Nat)] /\ mutex \in Ingesters \cup {Nobody}
        /\ pc \in [Ingesters -> {"idle", "waiting", "ingesting", "replied", "rejected"}]
    BY DEF BatchInv, TypeOK
  <2>4. Len(arrived) \in Nat
    BY <2>1
  <2> QED
    BY <2>1, <2>2, <2>3, <2>4
<1>2. CASE UNCHANGED <<arrived, mutex, ids>>
  BY <1>2 DEF Shown, Visible
<1>3. ASSUME NEW w \in Ingesters, Validate(w) \/ Begin(w) \/ Classify(w)
      PROVE  UNCHANGED <<arrived, mutex, ids>>
  BY <1>3 DEF Validate, Begin, Classify
<1>4. ASSUME NEW w \in Ingesters, Lock(w)
      PROVE  Shown' = Shown
  <2>1. UNCHANGED <<arrived, ids>> /\ mutex = Nobody /\ mutex' = w /\ ids[w] = << >>
    BY <1>4 DEF Lock, BatchInv, RequestInv
  <2>2. Shown = arrived /\ Shown' = SubSeq(arrived, 1, Len(arrived) - Len(<< >>))
    BY <1>1, <2>1 DEF Shown, Visible
  <2>3. Len(arrived) - Len(<< >>) = Len(arrived)
    BY <1>1
  <2>4. SubSeq(arrived, 1, Len(arrived)) = arrived
    BY <1>1
  <2> QED
    BY <2>2, <2>3, <2>4
<1>5. ASSUME NEW w \in Ingesters, Store(w)
      PROVE  Shown' = Shown
  <2> DEFINE m == Len(arrived) - Len(ids[w])
             a == Append(arrived, cur)
  <2>1. /\ mutex = w /\ mutex' = w /\ cur \in Event /\ cur.id \in Nat
        /\ ids'[w] = Append(ids[w], cur.id) /\ arrived' = a
    BY <1>1, <1>5 DEF Store, BatchInv, TypeOK, Event
  <2>2. ids[w] \in Seq(Nat) /\ Len(ids[w]) \in Nat /\ Len(ids[w]) <= Len(arrived) /\ m \in 0..Len(arrived)
    BY <1>1, <2>1 DEF BatchInv, LockInv, OwnerInv, HalfStored
  <2>3. Len(ids'[w]) = Len(ids[w]) + 1
    BY <2>1, <2>2
  <2>4. a \in Seq(Event) /\ Len(a) = Len(arrived) + 1 /\ \A i \in 1..Len(arrived) : a[i] = arrived[i]
    BY <1>1, <2>1
  <2>5. Len(arrived') - Len(ids'[w]) = m
    BY <1>1, <2>1, <2>2, <2>3, <2>4
  <2>6. Shown = SubSeq(arrived, 1, m) /\ Shown' = SubSeq(a, 1, m)
    BY <1>1, <2>1, <2>5 DEF Shown, Visible
  <2> HIDE DEF m, a
  <2>7. SubSeq(arrived, 1, m) = SubSeq(a, 1, m)
    BY <1>1, <2>2, <2>4
  <2> QED
    BY <2>6, <2>7
<1>6. ASSUME NEW w \in Ingesters, Return(w)
      PROVE  Shown' = Shown
  <2>1. mutex # w /\ UNCHANGED <<arrived, mutex>> /\ \A v \in Ingesters : v # w => ids'[v] = ids[v]
    BY <1>1, <1>6 DEF Return, BatchInv, LockInv
  <2> QED
    BY <1>1, <2>1 DEF Shown, Visible
<1>7. RefreshPods \/ UNCHANGED vars => UNCHANGED <<arrived, mutex, ids>>
  BY DEF RefreshPods, vars
<1> QED
  BY <1>2, <1>3, <1>4, <1>5, <1>6, <1>7 DEF Next

LEMMA UnlockAppends ==
  ASSUME RingInv, BatchInv, RingInv', BatchInv', NEW w \in Ingesters, Unlock(w)
  PROVE  Log!Next
<1> DEFINE a == arrived
           A == Len(arrived)
           n == Len(ids[w])
           k == IF n < MaxEvents THEN n ELSE MaxEvents
           before == VisibleLog
           after  == VisibleLog'
           b == Log!LastN(after, k)
<1>1. /\ arrived \in Seq(Event) /\ A \in Nat /\ ids \in [Ingesters -> Seq(Nat)]
      /\ \A i \in 1..A : a[i] \in Event
  <2>1. arrived \in Seq(Event) /\ ids \in [Ingesters -> Seq(Nat)]
    BY DEF BatchInv, TypeOK
  <2> QED
    BY <2>1
<1>2. MaxEvents \in Nat \ {0} /\ MaxBatch \in Nat /\ Nobody \notin Ingesters
  BY AgentStoreAssumption DEF AgentStoreAssumption
<1>3. mutex = w /\ mutex' = Nobody /\ UNCHANGED <<arrived, ids>> /\ Len(ids[w]) = Len(batch[w])
  BY DEF Unlock
<1>4. pc[w] = "ingesting"
  BY <1>3 DEF BatchInv, LockInv
<1>5. n \in 1..MaxBatch /\ n <= A
  BY <1>3, <1>4 DEF BatchInv, RequestInv, OwnerInv, HalfStored
<1>6. before = Log!LastN(SubSeq(a, 1, A - n), MaxEvents)
  <2>1. mutex # Nobody
    BY <1>2, <1>3
  <2> QED
    BY <1>3, <2>1, VisibleIsShown DEF Shown, Visible
<1>7. after = Log!LastN(a, MaxEvents)
  <2>1. VisibleLog' = Log!LastN(Shown', MaxEvents)
    BY VisibleIsShownNext
  <2> QED
    BY <1>3, <2>1 DEF Shown, Visible
<1> HIDE DEF before, after
<1>8. n \in Nat \ {0} /\ k \in Nat \ {0}
  BY <1>2, <1>5
<1> HIDE DEF a, A, n
<1>9. /\ Len(after) >= k
      /\ b \in Seq(Event) /\ Len(b) = k /\ \A i \in 1..k : b[i] = a[A - k + i]
      /\ before \in Seq(Event) /\ Len(before) \in Nat /\ Len(before) <= A - n
      /\ \A j \in 1..Len(before) : before[j] = a[A - n - Len(before) + j]
      /\ after = Log!LastN(before \o b, MaxEvents)
  <2>1. a \in Seq(Event) /\ A = Len(a) /\ n <= A /\ k = (IF n < MaxEvents THEN n ELSE MaxEvents)
    BY <1>1, <1>5 DEF a, A
  <2>2. PICK kept : kept = k
    OBVIOUS
  <2>3. b = Log!LastN(after, kept) /\ kept = (IF n < MaxEvents THEN n ELSE MaxEvents)
    BY <2>2
  <2> HIDE DEF b, k
  <2>4. Grown(a, n, A, MaxEvents, kept, before, after, b, Event)
    BY <1>2, <1>6, <1>7, <1>8, <2>1, <2>3, LogGrows
  <2> QED
    BY <2>2, <2>4 DEF Grown
<1>10. DOMAIN b = 1..k /\ DOMAIN before = 1..Len(before)
  BY <1>9
<1>11. \A i, j \in 1..A : i # j => a[i].id # a[j].id
  BY <1>1 DEF RingInv, IdsAreFresh, a, A
<1>12. k \in Nat /\ k <= n /\ k <= A /\ n \in Nat
  <2>1. A \in Nat /\ n \in Nat /\ n <= A /\ MaxEvents \in Nat
    BY <1>1, <1>2, <1>5, <1>8
  <2> QED
    BY <2>1
<1> HIDE DEF b, k
<1>13. ASSUME NEW i \in 1..k
       PROVE  /\ b[i] \in Event
              /\ \A j \in 1..Len(before) : before[j].id # b[i].id
              /\ \A j \in 1..k : j # i => b[j].id # b[i].id
  <2>1. A - k + i \in 1..A
    BY <1>1, <1>12
  <2>2. ASSUME NEW j \in 1..Len(before)
        PROVE  A - n - Len(before) + j \in 1..A /\ A - n - Len(before) + j # A - k + i
    BY <1>1, <1>5, <1>9, <1>12
  <2>3. ASSUME NEW j \in 1..k, j # i
        PROVE  A - k + j \in 1..A /\ A - k + j # A - k + i
    BY <1>1, <1>12, <2>3
  <2>4. b[i] \in Event
    BY <1>1, <1>9, <2>1
  <2>5. ASSUME NEW j \in 1..Len(before)
        PROVE  before[j].id # b[i].id
    BY <1>9, <1>11, <2>1, <2>2
  <2>6. ASSUME NEW j \in 1..k, j # i
        PROVE  b[j].id # b[i].id
    BY <1>9, <1>11, <2>1, <2>3, <2>6
  <2> QED
    BY <2>4, <2>5, <2>6
<1>14. /\ Len(VisibleLog') >= k
       /\ \A i \in DOMAIN b :
            /\ b[i] \in Event
            /\ \A j \in DOMAIN VisibleLog : VisibleLog[j].id # b[i].id
            /\ \A j \in DOMAIN b : j # i => b[j].id # b[i].id
       /\ VisibleLog' = Log!LastN(VisibleLog \o b, MaxEvents)
  BY <1>9, <1>10, <1>13 DEF before, after
<1> QED
  BY <1>5, <1>14 DEF Log!Next, Log!AppendBatch, b, k, after

LEMMA LogStep == RingInv /\ BatchInv /\ [Next]_vars => [Log!Next]_VisibleLog
<1> SUFFICES ASSUME RingInv, BatchInv, [Next]_vars
             PROVE  [Log!Next]_VisibleLog
  OBVIOUS
<1>1. RingInv' /\ BatchInv'
  BY StepRingInv, StepBatchInv
<1>2. CASE \E w \in Ingesters : Unlock(w)
  BY <1>1, <1>2, UnlockAppends
<1>3. CASE ~\E w \in Ingesters : Unlock(w)
  <2>1. Shown' = Shown
    BY <1>1, <1>3, ShownStep
  <2>2. VisibleLog = Log!LastN(Shown, MaxEvents)
    BY VisibleIsShown
  <2>3. VisibleLog' = Log!LastN(Shown', MaxEvents)
    BY <1>1, VisibleIsShownNext
  <2> QED
    BY <2>1, <2>2, <2>3
<1> QED
  BY <1>2, <1>3

LEMMA LogInit == Init => Log!Init
<1> SUFFICES ASSUME Init
             PROVE  VisibleLog = << >>
  BY DEF Log!Init
<1>1. mutex = Nobody /\ stored = 0
  BY DEF Init
<1> QED
  BY <1>1 DEF VisibleLog, Visible, Contents

(***************************************************************************)
(* The ring, the index, the mutex and the loops of Ingest implement an     *)
(* atomic log of the last MaxEvents events: its readers see each batch     *)
(* appended whole, in one step, and nothing else.                          *)
(***************************************************************************)
THEOREM StoreImplementsLog == Spec => ImplementsEventLog
  BY LogInit, LogStep, InitRingInv, StepRingInv, InitBatchInv, StepBatchInv, PTL
  DEF Spec, ImplementsEventLog, Log!Spec

-----------------------------------------------------------------------------
(***************************************************************************)
(* Induction over sets of numbers, for what a loop computes.               *)
(***************************************************************************)
Less == {p \in Nat \X Nat : p[1] < p[2]}

LEMMA LessIsWellFounded == IsWellFoundedOn(Less, Nat)
<1>1. OpToRel(<, Nat) = Less
  BY DEF OpToRel, Less
<1> QED
  BY <1>1, NatLessThanWellFounded

LEMMA SetInduction ==
  ASSUME NEW P \in SUBSET Nat, 0 \in P, \A n \in P : n + 1 \in P
  PROVE  P = Nat
<1> SUFFICES ASSUME Nat \ P # {} PROVE FALSE
  OBVIOUS
<1>1. \E x \in Nat \ P : \A y \in Nat \ P : <<y, x>> \notin Less
  BY LessIsWellFounded, WFMin
<1>2. PICK x \in Nat \ P : \A y \in Nat \ P : ~(y < x)
  BY <1>1 DEF Less
<1>3. x - 1 \in Nat /\ x - 1 < x /\ (x - 1) + 1 = x
  BY <1>2
<1> QED
  BY <1>2, <1>3

-----------------------------------------------------------------------------
(***************************************************************************)
(* The page of events.  After n turns of the loop it holds the newest of   *)
(* the last n events that pass, at the places at.                          *)
(***************************************************************************)
LEMMA LimitType ==
  ASSUME NEW q \in Queries, IsQuery(q)
  PROVE  LimitOf(q) \in Nat \ {0}
<1>1. q.limit \subseteq Int /\ \A n \in q.limit : 1 <= n
  BY AgentReadersAssumption DEF AgentReadersAssumption, IsQuery
<1>2. CASE q.limit = {}
  BY <1>2, AgentReadersAssumption DEF AgentReadersAssumption, LimitOf
<1>3. CASE q.limit # {}
  <2>1. (CHOOSE n \in q.limit : TRUE) \in q.limit
    BY <1>3
  <2> QED
    BY <1>1, <1>3, <2>1 DEF LimitOf
<1> QED
  BY <1>2, <1>3

Covers(page, at, n, q) ==
  /\ page \in Seq(Event) /\ at \in Seq(Nat) /\ Len(at) = Len(page)
  /\ Len(page) <= LimitOf(q)
  /\ \A i \in 1..Len(page) : at[i] > Len(arrived) - n /\ at[i] <= Len(arrived)
  /\ \A i, j \in 1..Len(page) : i < j => at[i] > at[j]
  /\ \A i \in 1..Len(page) : page[i] = arrived[at[i]] /\ Passes(page[i], q)
  /\ \A k \in 1..Len(arrived) :
       k > Len(arrived) - n /\ Passes(arrived[k], q) =>
         \/ \E i \in 1..Len(page) : at[i] = k
         \/ Len(page) = LimitOf(q) /\ \A i \in 1..Len(page) : at[i] > k

LEMMA NextPageCovers ==
  ASSUME TypeOK, NEW q \in Queries, IsQuery(q), NEW n \in Nat, n < Len(arrived),
         NEW page, NEW at, Covers(page, at, n, q)
  PROVE  \E new : Covers(NextPage(page, Newest(n + 1), q), new, n + 1, q)
<1> DEFINE k0 == Len(arrived) - n
           ev == arrived[k0]
<1>1. /\ arrived \in Seq(Event) /\ Len(arrived) \in Nat /\ k0 \in 1..Len(arrived)
      /\ ev \in Event /\ Newest(n + 1) = ev /\ LimitOf(q) \in Nat
  <2>1. arrived \in Seq(Event)
    BY DEF TypeOK
  <2>2. Len(arrived) \in Nat /\ k0 \in 1..Len(arrived) /\ Len(arrived) + 1 - (n + 1) = k0
    BY <2>1
  <2> QED
    BY <2>1, <2>2, LimitType DEF Newest
<1>2. /\ page \in Seq(Event) /\ at \in Seq(Nat) /\ Len(at) = Len(page) /\ Len(page) \in Nat
      /\ Len(page) <= LimitOf(q)
      /\ \A i \in 1..Len(page) : at[i] \in Nat /\ at[i] > k0 /\ at[i] <= Len(arrived)
      /\ \A i, j \in 1..Len(page) : i < j => at[i] > at[j]
      /\ \A i \in 1..Len(page) : page[i] = arrived[at[i]] /\ Passes(page[i], q)
  BY DEF Covers
<1>3. ASSUME NEW k \in 1..Len(arrived), k > k0, Passes(arrived[k], q)
      PROVE  \/ \E i \in 1..Len(page) : at[i] = k
             \/ Len(page) = LimitOf(q) /\ \A i \in 1..Len(page) : at[i] > k
  BY <1>3 DEF Covers
<1> HIDE DEF k0, ev
<1>4. CASE HasRoom(page, q) /\ Passes(ev, q)
  <2> DEFINE t == Append(page, ev)
             new == Append(at, k0)
  <2>1. /\ t \in Seq(Event) /\ new \in Seq(Nat) /\ Len(t) = Len(page) + 1 /\ Len(new) = Len(page) + 1
        /\ \A i \in 1..Len(page) : t[i] = page[i] /\ new[i] = at[i]
        /\ t[Len(page) + 1] = ev /\ new[Len(page) + 1] = k0
    BY <1>1, <1>2
  <2>2. Len(page) < LimitOf(q)
    BY <1>4 DEF HasRoom
  <2> HIDE DEF t, new
  <2>0. /\ k0 \in Nat /\ k0 <= Len(arrived)
        /\ \A i \in 1..Len(t) : i \in 1..Len(page) \/ i = Len(page) + 1
    BY <1>1, <1>2, <2>1
  <2>3. ASSUME NEW i \in 1..Len(t) PROVE new[i] > k0 - 1 /\ new[i] <= Len(arrived)
    <3>1. CASE i \in 1..Len(page)
      <4>1. new[i] \in Nat /\ new[i] > k0 /\ new[i] <= Len(arrived)
        BY <1>2, <2>1, <3>1
      <4> QED
        BY <2>0, <4>1
    <3>2. CASE i = Len(page) + 1
      BY <2>1, <2>0, <3>2
    <3> QED
      BY <2>0, <3>1, <3>2
  <2>4. ASSUME NEW i \in 1..Len(t), NEW j \in 1..Len(t), i < j PROVE new[i] > new[j]
    <3>1. i \in 1..Len(page) /\ new[i] = at[i]
      BY <1>2, <2>1, <2>4, SMTT(20)
    <3>2. CASE j \in 1..Len(page)
      <4>1. new[j] = at[j]
        BY <2>1, <3>2
      <4> QED
        BY <1>2, <2>4, <3>1, <3>2, <4>1
    <3>3. CASE j = Len(page) + 1
      <4>1. new[j] = k0 /\ at[i] > k0
        BY <1>2, <2>1, <3>1, <3>3
      <4> QED
        BY <3>1, <4>1
    <3> QED
      BY <2>0, <3>2, <3>3
  <2>5. \A i \in 1..Len(t) : t[i] = arrived[new[i]] /\ Passes(t[i], q)
    <3> SUFFICES ASSUME NEW i \in 1..Len(t) PROVE t[i] = arrived[new[i]] /\ Passes(t[i], q)
      OBVIOUS
    <3>1. CASE i \in 1..Len(page)
      BY <1>2, <2>1, <3>1
    <3>2. CASE i = Len(page) + 1
      BY <1>4, <2>1, <3>2 DEF ev
    <3> QED
      BY <1>2, <2>1, <3>1, <3>2
  <2>6. ASSUME NEW k \in 1..Len(arrived), k > k0 - 1, Passes(arrived[k], q)
        PROVE  \E i \in 1..Len(t) : new[i] = k
    <3>1. CASE k = k0
      BY <1>2, <2>1, <3>1
    <3>2. CASE k > k0
      <4>1. \E i \in 1..Len(page) : at[i] = k
        BY <1>1, <1>2, <1>3, <2>2, <2>6, <3>2
      <4> QED
        BY <1>2, <2>1, <4>1, SMTT(20)
    <3> QED
      BY <1>1, <2>6, <3>1, <3>2
  <2>7. Len(arrived) - (n + 1) = k0 - 1
    BY <1>1 DEF k0
  <2>8. Covers(t, new, n + 1, q)
    BY <1>1, <1>2, <2>1, <2>2, <2>3, <2>4, <2>5, <2>6, <2>7, SMTT(20) DEF Covers
  <2>9. NextPage(page, Newest(n + 1), q) = t
    BY <1>1, <1>4 DEF NextPage, t
  <2> QED
    BY <2>8, <2>9
<1>5. CASE ~(HasRoom(page, q) /\ Passes(ev, q))
  <2>1. Len(arrived) - (n + 1) = k0 - 1
    BY <1>1 DEF k0
  <2>2. ASSUME NEW k \in 1..Len(arrived), k > k0 - 1, Passes(arrived[k], q)
        PROVE  \/ \E i \in 1..Len(page) : at[i] = k
               \/ Len(page) = LimitOf(q) /\ \A i \in 1..Len(page) : at[i] > k
    <3>1. CASE k = k0
      <4>1. ~(Len(page) < LimitOf(q))
        BY <1>5, <2>2, <3>1 DEF HasRoom, ev
      <4> QED
        BY <1>1, <1>2, <3>1, <4>1
    <3>2. CASE k > k0
      BY <1>3, <2>2, <3>2
    <3> QED
      BY <1>1, <2>2, <3>1, <3>2
  <2>3. \A i \in 1..Len(page) : at[i] > k0 - 1
    BY <1>1, <1>2
  <2>4. Covers(page, at, n + 1, q)
    BY <1>1, <1>2, <2>1, <2>2, <2>3 DEF Covers
  <2>5. NextPage(page, Newest(n + 1), q) = page
    BY <1>1, <1>5 DEF NextPage
  <2> QED
    BY <2>4, <2>5
<1> QED
  BY <1>4, <1>5

\* What the loop of Events computes is defined: every number of turns gives a page.
Turns(f, n, q) ==
  f = [i \in 0..n |-> IF i = 0 THEN << >> ELSE NextPage(f[i - 1], ring[Slot(i)], q)]

LEMMA TurnsExist ==
  ASSUME NEW q
  PROVE  \A n \in Nat : \E f : Turns(f, n, q)
<1> DEFINE P == {n \in Nat : \E f : Turns(f, n, q)}
<1>1. 0 \in P
  <2> DEFINE f0 == [i \in 0..0 |-> << >>]
  <2>1. f0 = [i \in 0..0 |-> IF i = 0 THEN << >> ELSE NextPage(f0[i - 1], ring[Slot(i)], q)]
    OBVIOUS
  <2>2. Turns(f0, 0, q)
    BY <2>1 DEF Turns
  <2> QED
    BY <2>2
<1>2. ASSUME NEW n \in P PROVE n + 1 \in P
  <2>1. PICK f : Turns(f, n, q)
    BY <1>2
  <2> DEFINE g == [i \in 0..n + 1 |-> IF i <= n THEN f[i] ELSE NextPage(f[n], ring[Slot(n + 1)], q)]
             h == [i \in 0..n + 1 |-> IF i = 0 THEN << >> ELSE NextPage(g[i - 1], ring[Slot(i)], q)]
  <2>2. n \in Nat /\ n + 1 \in Nat
    BY <1>2
  <2>3. f = [i \in 0..n |-> IF i = 0 THEN << >> ELSE NextPage(f[i - 1], ring[Slot(i)], q)]
    BY <2>1 DEF Turns
  <2>4. ASSUME NEW i \in 0..n + 1 PROVE g[i] = h[i]
    <3>1. CASE i = 0
      BY <2>2, <2>3, <3>1
    <3>2. CASE i \in 1..n
      <4>1. i - 1 \in 0..n + 1 /\ i - 1 <= n /\ i \in 0..n /\ i # 0 /\ i <= n
        BY <2>2, <3>2
      <4>2. g[i] = f[i] /\ g[i - 1] = f[i - 1]
        BY <2>2, <4>1
      <4>3. f[i] = NextPage(f[i - 1], ring[Slot(i)], q)
        BY <2>3, <4>1
      <4>4. h[i] = NextPage(g[i - 1], ring[Slot(i)], q)
        BY <2>4, <4>1
      <4> QED
        BY <4>2, <4>3, <4>4
    <3>3. CASE i = n + 1
      <4>1. i - 1 = n /\ n \in 0..n + 1 /\ n <= n /\ i # 0 /\ ~(i <= n)
        BY <2>2, <3>3
      <4>2. g[i - 1] = f[n] /\ g[i] = NextPage(f[n], ring[Slot(i)], q)
        BY <2>2, <3>3, <4>1
      <4>3. h[i] = NextPage(g[i - 1], ring[Slot(i)], q)
        BY <2>4, <4>1
      <4> QED
        BY <4>2, <4>3
    <3> QED
      BY <2>2, <3>1, <3>2, <3>3
  <2>5. g = h
    BY <2>4
  <2>6. Turns(g, n + 1, q)
    BY <2>5 DEF Turns
  <2> QED
    BY <2>2, <2>6
<1> HIDE DEF P
<1>3. P = Nat
  <2>1. P \in SUBSET Nat
    BY DEF P
  <2> QED
    BY <1>1, <1>2, <2>1, SetInduction
<1> QED
  BY <1>3 DEF P

LEMMA EventsCover ==
  ASSUME RingInv, NEW q \in Queries, IsQuery(q)
  PROVE  \E at : Covers(Events(q), at, stored, q)
<1>1. /\ stored \in Nat /\ TypeOK /\ arrived \in Seq(Event) /\ Len(arrived) \in Nat /\ stored <= Len(arrived)
      /\ \A i \in 1..stored : ring[Slot(i)] = Newest(i)
  BY AgentStoreAssumption, SMTT(20) DEF RingInv, TypeOK, RingHolds, AgentStoreAssumption
<1> DEFINE F == CHOOSE f : f = [i \in 0..stored |->
                                  IF i = 0 THEN << >> ELSE NextPage(f[i - 1], ring[Slot(i)], q)]
<1>2. F = [i \in 0..stored |-> IF i = 0 THEN << >> ELSE NextPage(F[i - 1], ring[Slot(i)], q)]
  <2>1. \E f : f = [i \in 0..stored |-> IF i = 0 THEN << >> ELSE NextPage(f[i - 1], ring[Slot(i)], q)]
    BY <1>1, TurnsExist DEF Turns
  <2> QED
    BY <2>1
<1>3. Events(q) = F[stored]
  BY DEF Events
<1> HIDE DEF F
<1> DEFINE P == {n \in Nat : n <= stored => \E at : Covers(F[n], at, n, q)}
<1>4. 0 \in P
  <2>1. F[0] = << >>
    BY <1>1, <1>2
  <2>2. Covers(<< >>, << >>, 0, q)
    <3>1. LimitOf(q) \in Nat
      BY LimitType
    <3> QED
      BY <1>1, <3>1 DEF Covers
  <2> QED
    BY <2>1, <2>2
<1>5. ASSUME NEW n \in P PROVE n + 1 \in P
  <2>1. n \in Nat /\ n + 1 \in Nat
    BY <1>5
  <2>2. SUFFICES ASSUME n + 1 <= stored PROVE \E at : Covers(F[n + 1], at, n + 1, q)
    BY <2>1
  <2>3. n <= stored /\ n < Len(arrived) /\ n + 1 \in 1..stored /\ n + 1 \in 0..stored /\ n + 1 # 0 /\ (n + 1) - 1 = n
    BY <1>1, <2>1, <2>2
  <2>4. PICK at : Covers(F[n], at, n, q)
    BY <1>5, <2>3
  <2>5. F[n + 1] = NextPage(F[n], Newest(n + 1), q)
    BY <1>1, <1>2, <2>3
  <2> QED
    BY <1>1, <2>1, <2>3, <2>4, <2>5, NextPageCovers
<1> HIDE DEF P
<1>6. P = Nat
  <2>1. P \in SUBSET Nat
    BY DEF P
  <2> QED
    BY <1>4, <1>5, <2>1, SetInduction
<1> QED
  BY <1>1, <1>3, <1>6 DEF P

\* GET /v1/events/{id} finds every event that is retained.
LEMMA RetainedIsFound ==
  ASSUME RingInv, NEW k \in Window
  PROVE  /\ arrived[k] \in Event /\ arrived[k].id \in DOMAIN byID
         /\ EventOf(arrived[k].id) = arrived[k]
<1>1. /\ stored \in Nat /\ arrived \in Seq(Event) /\ Len(arrived) \in Nat /\ MaxEvents \in Nat
      /\ stored = (IF Len(arrived) < MaxEvents THEN Len(arrived) ELSE MaxEvents)
      /\ \A i \in 1..stored : ring[Slot(i)] = Newest(i) /\ byID[Newest(i).id] = Slot(i)
      /\ DOMAIN byID = {Newest(i).id : i \in 1..stored}
  BY AgentStoreAssumption, SMTT(20) DEF RingInv, TypeOK, RingHolds, IndexHolds, AgentStoreAssumption
<1>2. k \in 1..Len(arrived) /\ k > Len(arrived) - MaxEvents
  BY <1>1 DEF Window
<1>3. /\ Len(arrived) + 1 - k \in 1..stored
      /\ Len(arrived) + 1 - (Len(arrived) + 1 - k) = k
  BY <1>1, <1>2
<1>4. Newest(Len(arrived) + 1 - k) = arrived[k]
  BY <1>3 DEF Newest
<1>5. /\ arrived[k].id \in DOMAIN byID
      /\ byID[arrived[k].id] = Slot(Len(arrived) + 1 - k)
      /\ ring[Slot(Len(arrived) + 1 - k)] = arrived[k]
  BY <1>1, <1>3, <1>4
<1>6. arrived[k] \in Event
  BY <1>1, <1>2
<1> QED
  BY <1>5, <1>6 DEF EventOf

LEMMA WindowIs ==
  ASSUME RingInv
  PROVE  Window = {k \in 1..Len(arrived) : k > Len(arrived) - stored}
<1>1. /\ arrived \in Seq(Event) /\ Len(arrived) \in Nat /\ MaxEvents \in Nat
      /\ stored = (IF Len(arrived) < MaxEvents THEN Len(arrived) ELSE MaxEvents)
  BY AgentStoreAssumption DEF RingInv, TypeOK, RingHolds, AgentStoreAssumption
<1> QED
  BY <1>1 DEF Window

LEMMA PageHolds ==
  ASSUME RingInv, NEW q \in Queries, IsQuery(q)
  PROVE  PageIsExact(q)
<1> DEFINE page == Events(q)
<1>1. PICK at : Covers(page, at, stored, q)
  BY EventsCover
<1>2. /\ page \in Seq(Event) /\ at \in Seq(Nat) /\ Len(at) = Len(page)
      /\ arrived \in Seq(Event) /\ stored \in Nat
  BY <1>1 DEF Covers, RingInv, TypeOK
<1>3. DOMAIN page = 1..Len(page) /\ DOMAIN at = 1..Len(page) /\ Len(page) \in Nat /\ Len(arrived) \in Nat
  BY <1>2
<1> HIDE DEF page
<1>4. \A i \in DOMAIN page : at[i] \in Window
  <2> SUFFICES ASSUME NEW i \in DOMAIN page PROVE at[i] \in Window
    OBVIOUS
  <2>1. at[i] \in Nat /\ at[i] > Len(arrived) - stored /\ at[i] <= Len(arrived)
    BY <1>1, <1>2, <1>3 DEF Covers
  <2>2. stored <= Len(arrived)
    BY <1>3, AgentStoreAssumption DEF RingInv, RingHolds, AgentStoreAssumption
  <2>3. at[i] \in 1..Len(arrived)
    BY <1>2, <1>3, <2>1, <2>2
  <2> QED
    BY <2>1, <2>3, WindowIs
<1>5. at \in [DOMAIN page -> Window]
  <2>1. at = [i \in DOMAIN page |-> at[i]]
    BY <1>2, <1>3
  <2> QED
    BY <1>4, <2>1
<1>6. ASSUME NEW k \in Window \ Range(at), Passes(arrived[k], q)
      PROVE  Len(page) = LimitOf(q) /\ \A i \in DOMAIN page : at[i] > k
  <2>1. k \in 1..Len(arrived) /\ k > Len(arrived) - stored
    BY <1>6, WindowIs
  <2>2. ~\E i \in 1..Len(page) : at[i] = k
    BY <1>3, <1>6 DEF Range
  <2> QED
    BY <1>1, <1>3, <1>6, <2>1, <2>2 DEF Covers
<1>7. HoldsTheNewest(page, at, q)
  BY <1>1, <1>3, <1>6 DEF Covers, HoldsTheNewest
<1>8. \A i \in DOMAIN page : EventOf(page[i].id) = page[i]
  BY <1>4, <1>7, RetainedIsFound DEF HoldsTheNewest
<1> QED
  BY <1>5, <1>7, <1>8 DEF PageIsExact, page

-----------------------------------------------------------------------------
(***************************************************************************)
(* The list of remediations.  SeenAfter orders them all, so that any set   *)
(* of them can be listed in that order, the last one removed first.        *)
(***************************************************************************)
LEMMA SeenAfterOrders ==
  ASSUME RemInv
  PROVE  /\ \A x, y \in DOMAIN rems : x # y => SeenAfter(x, y) \/ SeenAfter(y, x)
         /\ \A x \in DOMAIN rems : ~SeenAfter(x, x)
         /\ \A x, y, z \in DOMAIN rems : SeenAfter(x, y) /\ SeenAfter(y, z) => SeenAfter(x, z)
         /\ \A x, y \in DOMAIN rems : SeenAfter(x, y) => rems[x].last >= rems[y].last
<1>1. \A x \in DOMAIN rems : x \in Nat /\ rems[x].last \in Int
  BY RemTypes DEF RemInv, TypeOK
<1> QED
  BY <1>1 DEF SeenAfter

IsLast(m, T) == m \in T /\ \A x \in T \ {m} : SeenAfter(x, m)

LEMMA LastExists ==
  ASSUME RemInv, NEW T \in SUBSET DOMAIN rems, T # {}
  PROVE  \E m : IsLast(m, T)
<1> DEFINE P == {n \in Nat : \A U \in SUBSET DOMAIN rems :
                   IsFiniteSet(U) /\ Cardinality(U) = n /\ U # {} => \E m : IsLast(m, U)}
<1>1. 0 \in P
  BY FS_EmptySet
<1>2. ASSUME NEW n \in P PROVE n + 1 \in P
  <2>1. n \in Nat /\ n + 1 \in Nat
    BY <1>2
  <2>2. ASSUME NEW U \in SUBSET DOMAIN rems, IsFiniteSet(U), Cardinality(U) = n + 1, U # {}
        PROVE  \E m : IsLast(m, U)
    <3>1. PICK x \in U : TRUE
      BY <2>2
    <3> DEFINE V == U \ {x}
    <3>2. IsFiniteSet(V) /\ Cardinality(V) = n /\ V \in SUBSET DOMAIN rems
      <4>1. IsFiniteSet(V) /\ Cardinality(V) = Cardinality(U) - 1
        BY <2>2, <3>1, FS_RemoveElement
      <4> QED
        BY <2>1, <2>2, <4>1
    <3>3. CASE V = {}
      BY <3>1, <3>3 DEF IsLast
    <3>4. CASE V # {}
      <4>1. PICK m : IsLast(m, V)
        BY <1>2, <3>2, <3>4
      <4>2. m \in DOMAIN rems /\ x \in DOMAIN rems /\ m # x /\ m \in U
        BY <3>1, <4>1 DEF IsLast
      <4>3. CASE SeenAfter(x, m)
        <5>1. IsLast(m, U)
          BY <4>1, <4>2, <4>3 DEF IsLast
        <5> QED
          BY <5>1
      <4>4. CASE SeenAfter(m, x)
        <5>1. ASSUME NEW y \in U \ {x} PROVE SeenAfter(y, x)
          <6>1. y \in DOMAIN rems /\ (y = m \/ SeenAfter(y, m))
            BY <4>1, <5>1 DEF IsLast
          <6> QED
            BY <4>2, <4>4, <6>1, SeenAfterOrders
        <5> QED
          BY <3>1, <5>1 DEF IsLast
      <4> QED
        BY <4>2, <4>3, <4>4, SeenAfterOrders
    <3> QED
      BY <3>3, <3>4
  <2> QED
    BY <2>1, <2>2
<1> HIDE DEF P
<1>3. P = Nat
  <2>1. P \in SUBSET Nat
    BY DEF P
  <2> QED
    BY <1>1, <1>2, <2>1, SetInduction
<1>4. IsFiniteSet(T) /\ Cardinality(T) \in Nat
  <2>1. IsFiniteSet(DOMAIN rems) /\ T \subseteq DOMAIN rems
    BY DEF RemInv
  <2>2. IsFiniteSet(T)
    BY <2>1, FS_Subset
  <2> QED
    BY <2>2, FS_CardinalityType
<1> QED
  BY <1>3, <1>4 DEF P

Listing(s, T) == s \in [1..Cardinality(T) -> T] /\ Sorted(s) /\ Range(s) = T

LEMMA ListingExists ==
  ASSUME RemInv, NEW T \in SUBSET DOMAIN rems
  PROVE  \E s : Listing(s, T)
<1> DEFINE P == {n \in Nat : \A U \in SUBSET DOMAIN rems :
                   IsFiniteSet(U) /\ Cardinality(U) = n => \E s : Listing(s, U)}
<1>1. 0 \in P
  <2>1. ASSUME NEW U \in SUBSET DOMAIN rems, IsFiniteSet(U), Cardinality(U) = 0
        PROVE  \E s : Listing(s, U)
    <3>1. U = {}
      BY <2>1, FS_EmptySet
    <3> DEFINE s == [i \in 1..0 |-> 0]
    <3>2. s \in [1..Cardinality(U) -> U] /\ DOMAIN s = {}
      BY <2>1
    <3>3. Sorted(s) /\ Range(s) = U
      BY <3>1, <3>2 DEF Sorted, Range
    <3> QED
      BY <3>2, <3>3 DEF Listing
  <2> QED
    BY <2>1
<1>2. ASSUME NEW n \in P PROVE n + 1 \in P
  <2>1. n \in Nat /\ n + 1 \in Nat
    BY <1>2
  <2>2. ASSUME NEW U \in SUBSET DOMAIN rems, IsFiniteSet(U), Cardinality(U) = n + 1
        PROVE  \E s : Listing(s, U)
    <3>1. U # {}
      BY <2>1, <2>2, FS_EmptySet
    <3>2. PICK m : IsLast(m, U)
      BY <3>1, LastExists
    <3> DEFINE V == U \ {m}
    <3>3. m \in U /\ \A x \in V : SeenAfter(x, m)
      BY <3>2 DEF IsLast
    <3>4. IsFiniteSet(V) /\ Cardinality(V) = n /\ V \in SUBSET DOMAIN rems
      BY <2>1, <2>2, <3>3, FS_RemoveElement
    <3>5. PICK s0 : Listing(s0, V)
      BY <1>2, <3>4
    <3>6. s0 \in [1..n -> V] /\ Sorted(s0) /\ Range(s0) = V
      BY <3>4, <3>5 DEF Listing
    <3> HIDE DEF V
    <3> DEFINE s == [i \in 1..n + 1 |-> IF i = n + 1 THEN m ELSE s0[i]]
    <3>7. /\ DOMAIN s = 1..n + 1 /\ s[n + 1] = m
          /\ \A i \in 1..n : i \in 1..n + 1 /\ s[i] = s0[i] /\ s[i] \in V
      BY <2>1, <3>6
    <3>8. \A i \in 1..n + 1 : i \in 1..n \/ i = n + 1
      BY <2>1
    <3> HIDE DEF s
    <3>9. s \in [1..n + 1 -> U]
      <4>1. \A i \in 1..n + 1 : s[i] \in U
        BY <3>3, <3>7, <3>8 DEF V
      <4>2. s = [i \in 1..n + 1 |-> s[i]]
        BY <3>7 DEF s
      <4> QED
        BY <4>1, <4>2
    <3>10. Sorted(s)
      <4> SUFFICES ASSUME NEW i \in 1..n + 1, NEW j \in 1..n + 1, i < j PROVE SeenAfter(s[i], s[j])
        BY <3>7 DEF Sorted
      <4>1. i \in 1..n
        BY <2>1
      <4>2. CASE j = n + 1
        BY <3>3, <3>7, <4>1, <4>2
      <4>3. CASE j \in 1..n
        <5>1. SeenAfter(s0[i], s0[j])
          BY <3>6, <4>1, <4>3 DEF Sorted
        <5> QED
          BY <3>7, <4>1, <4>3, <5>1
      <4> QED
        BY <3>8, <4>2, <4>3
    <3>11. Range(s) = U
      <4>1. \A x \in V : \E i \in 1..n : s[i] = x
        BY <3>6, <3>7 DEF Range
      <4>2. \A x \in U : \E i \in 1..n + 1 : s[i] = x
        <5> SUFFICES ASSUME NEW x \in U PROVE \E i \in 1..n + 1 : s[i] = x
          OBVIOUS
        <5>1. CASE x = m
          BY <2>1, <3>7, <5>1
        <5>2. CASE x \in V
          BY <3>7, <4>1, <5>2
        <5> QED
          BY <5>1, <5>2 DEF V
      <4> QED
        BY <3>7, <3>9, <4>2 DEF Range
    <3> QED
      BY <2>2, <3>9, <3>10, <3>11 DEF Listing
  <2> QED
    BY <2>1, <2>2
<1> HIDE DEF P
<1>3. P = Nat
  <2>1. P \in SUBSET Nat
    BY DEF P
  <2> QED
    BY <1>1, <1>2, <2>1, SetInduction
<1>4. IsFiniteSet(T) /\ Cardinality(T) \in Nat
  <2>1. IsFiniteSet(DOMAIN rems) /\ T \subseteq DOMAIN rems
    BY DEF RemInv
  <2>2. IsFiniteSet(T)
    BY <2>1, FS_Subset
  <2> QED
    BY <2>2, FS_CardinalityType
<1> QED
  BY <1>3, <1>4 DEF P

LEMMA ListHolds ==
  ASSUME RemInv, NEW q \in Queries, IsQuery(q)
  PROVE  ListIsExact(q)
<1> DEFINE W == Wanted(q)
           c == Cardinality(W)
           all == CHOOSE s \in [1..c -> W] : Sorted(s) /\ Range(s) = W
           listed == Remediations(q)
           n == LimitOf(q)
<1>1. W \in SUBSET DOMAIN rems /\ c \in Nat
  <2>1. W \subseteq DOMAIN rems /\ IsFiniteSet(DOMAIN rems)
    BY DEF Wanted, RemInv
  <2>2. IsFiniteSet(W)
    BY <2>1, FS_Subset
  <2> QED
    BY <2>1, <2>2, FS_CardinalityType
<1>2. all \in [1..c -> W] /\ Sorted(all) /\ Range(all) = W
  <2>1. \E s \in [1..c -> W] : Sorted(s) /\ Range(s) = W
    <3>1. PICK s : Listing(s, W)
      BY <1>1, ListingExists
    <3> QED
      BY <3>1 DEF Listing
  <2> QED
    BY <2>1
<1>3. listed = IF Len(all) > n THEN SubSeq(all, 1, n) ELSE all
  BY DEF Remediations
<1>4. n \in Nat \ {0}
  BY LimitType
<1> HIDE DEF W, c, all, listed, n
<1>5. all \in Seq(W) /\ Len(all) = c
  BY <1>1, <1>2
<1>6. /\ Len(listed) = (IF c > n THEN n ELSE c) /\ DOMAIN listed = 1..Len(listed)
      /\ \A i \in 1..Len(listed) : i \in 1..c /\ listed[i] = all[i]
  <2>1. CASE c > n
    BY <1>1, <1>3, <1>4, <1>5, <2>1
  <2>2. CASE ~(c > n)
    BY <1>1, <1>3, <1>4, <1>5, <2>2
  <2> QED
    BY <2>1, <2>2
<1>7. /\ Len(listed) \in Nat /\ Len(listed) <= n /\ Len(listed) <= c
      /\ Len(listed) = n \/ Len(listed) = c
  BY <1>1, <1>4, <1>6
<1>8. \A i \in 1..c : all[i] \in W /\ all[i] \in DOMAIN rems
  BY <1>1, <1>2
<1>9. \A i, j \in 1..c : i < j => SeenAfter(all[i], all[j])
  BY <1>2 DEF Sorted
<1>10. Range(listed) \subseteq W
  BY <1>6, <1>8 DEF Range
<1>11. ASSUME NEW i \in 1..c, NEW j \in 1..c, i < j
       PROVE  all[i] # all[j] /\ rems[all[i]].last >= rems[all[j]].last
  BY <1>8, <1>9, <1>11, SeenAfterOrders
<1>12. ASSUME NEW id \in W \ Range(listed)
       PROVE  Len(listed) = n /\ \A i \in DOMAIN listed : rems[id].last <= rems[listed[i]].last
  <2>1. PICK j \in 1..c : all[j] = id
    BY <1>2, <1>12 DEF Range
  <2>2. j > Len(listed)
    <3>1. j \notin 1..Len(listed)
      BY <1>6, <1>12, <2>1 DEF Range
    <3> QED
      BY <1>1, <1>7, <2>1, <3>1
  <2>3. Len(listed) = n
    BY <1>1, <1>7, <2>1, <2>2
  <2>4. ASSUME NEW i \in 1..Len(listed) PROVE rems[id].last <= rems[listed[i]].last
    <3>1. i \in 1..c /\ i < j /\ listed[i] = all[i]
      BY <1>1, <1>6, <1>7, <2>1, <2>2
    <3>2. rems[all[i]].last >= rems[id].last
      BY <1>11, <2>1, <3>1
    <3>3. rems[all[i]].last \in Int /\ rems[id].last \in Int
      BY <1>8, <2>1, <3>1, RemTypes
    <3> QED
      BY <3>1, <3>2, <3>3
  <2> QED
    BY <1>6, <2>3, <2>4
<1>13. \A i, j \in DOMAIN listed : i < j =>
         listed[i] # listed[j] /\ rems[listed[i]].last >= rems[listed[j]].last
  BY <1>6, <1>11
<1> QED
  BY <1>7, <1>10, <1>12, <1>13 DEF ListIsExact, W, listed, n

-----------------------------------------------------------------------------
(***************************************************************************)
(* The two lists agree.  Ingest gives an event at least the severity of    *)
(* every rule that matches it, so that no query finds a remediation by the *)
(* severity of its rule and not the event by its own.                      *)
(***************************************************************************)
SeverityHolds ==
  /\ \A k \in DOMAIN arrived, r \in Rules :
       Matches(r, arrived[k]) => arrived[k].severity >= RuleSeverity[r]
  /\ cur # NoEvent => \A r \in Rules :
       r < rule /\ Matches(r, cur) => cur.severity >= RuleSeverity[r]

LEMMA StepSeverity ==
  ASSUME TypeOK, SeverityHolds, [Next]_vars
  PROVE  SeverityHolds'
<1>1. /\ arrived \in Seq(Event) /\ rule \in Nat /\ NumRules \in Nat
      /\ \A r \in Rules : r \in Nat /\ r >= 1 /\ r <= NumRules /\ RuleSeverity[r] \in Int
      /\ cur \in Event \cup {NoEvent} /\ \A ev \in Event : ev.severity \in Int
  BY AgentStoreAssumption, SMTT(20) DEF TypeOK, AgentStoreAssumption, Rules, Severities, Event
<1>2. ASSUME NEW w \in Ingesters, Begin(w) PROVE SeverityHolds'
  <2>1. rule' = 1 /\ arrived' = arrived
    BY <1>2 DEF Begin
  <2> QED
    BY <1>1, <2>1 DEF SeverityHolds, Matches
<1>3. ASSUME NEW w \in Ingesters, Classify(w) PROVE SeverityHolds'
  <2>1. cur # NoEvent /\ cur \in Event /\ rule \in Rules /\ rule' = rule + 1 /\ arrived' = arrived
    BY <1>1, <1>3 DEF Classify
  <2>2. /\ cur' # NoEvent /\ cur'.class = cur.class /\ cur'.container = cur.container
        /\ cur'.severity >= cur.severity
        /\ Matches(rule, cur) => cur'.severity >= RuleSeverity[rule]
    <3>1. cur.severity \in Int /\ RuleSeverity[rule] \in Int
      BY <1>1, <2>1
    <3>2. CASE ~Matches(rule, cur)
      <4>1. cur' = cur
        BY <1>3, <3>2 DEF Classify
      <4> QED
        BY <2>1, <3>1, <3>2, <4>1
    <3>3. CASE Matches(rule, cur)
      <4>1. cur' = [cur EXCEPT !.severity = IF RuleSeverity[rule] > @ THEN RuleSeverity[rule] ELSE @]
        BY <1>3, <3>3 DEF Classify
      <4> QED
        BY <2>1, <3>1, <4>1 DEF Event, NoEvent
    <3> QED
      BY <3>2, <3>3
  <2>3. ASSUME NEW r \in Rules, r < rule', Matches(r, cur') PROVE cur'.severity >= RuleSeverity[r]
    <3>1. Matches(r, cur)
      BY <2>2, <2>3 DEF Matches
    <3>2. r < rule \/ r = rule
      BY <1>1, <2>1, <2>3
    <3>3. CASE r = rule
      BY <2>2, <3>1, <3>3
    <3>4. CASE r < rule
      <4>1. cur.severity >= RuleSeverity[r] /\ cur.severity \in Int /\ RuleSeverity[r] \in Int
        BY <1>1, <2>1, <3>1, <3>4 DEF SeverityHolds
      <4>2. cur'.severity \in Int
        <5>1. cur' = cur \/ cur' = [cur EXCEPT !.severity = IF RuleSeverity[rule] > @ THEN RuleSeverity[rule] ELSE @]
          BY <1>3 DEF Classify
        <5> QED
          BY <1>1, <2>1, <5>1 DEF Event
      <4> QED
        BY <2>2, <4>1, <4>2
    <3> QED
      BY <3>2, <3>3, <3>4
  <2> QED
    BY <2>1, <2>3 DEF SeverityHolds, Matches
<1>4. ASSUME NEW w \in Ingesters, Store(w) PROVE SeverityHolds'
  <2>1. /\ cur # NoEvent /\ cur \in Event /\ rule \notin Rules /\ cur' = NoEvent
        /\ arrived' = Append(arrived, cur)
    BY <1>1, <1>4 DEF Store
  <2>2. \A r \in Rules : r < rule
    BY <1>1, <2>1 DEF Rules, TypeOK
  <2>3. ASSUME NEW k \in DOMAIN arrived', NEW r \in Rules, Matches(r, arrived'[k])
        PROVE  arrived'[k].severity >= RuleSeverity[r]
    <3>1. CASE k \in DOMAIN arrived
      <4>1. arrived'[k] = arrived[k]
        BY <1>1, <2>1, <3>1
      <4> QED
        BY <2>3, <3>1, <4>1 DEF SeverityHolds
    <3>2. CASE k \notin DOMAIN arrived
      <4>1. arrived'[k] = cur
        BY <1>1, <2>1, <2>3, <3>2
      <4> QED
        BY <2>1, <2>2, <2>3, <4>1 DEF SeverityHolds
    <3> QED
      BY <3>1, <3>2
  <2> QED
    BY <2>1, <2>3 DEF SeverityHolds, Matches
<1>5. ASSUME UNCHANGED <<arrived, cur, rule>> PROVE SeverityHolds'
  BY <1>5 DEF SeverityHolds, Matches
<1>6. ASSUME NEW w \in Ingesters, Validate(w) \/ Lock(w) \/ Unlock(w) \/ Return(w) PROVE SeverityHolds'
  BY <1>5, <1>6 DEF Validate, Lock, Unlock, Return, loop
<1>7. CASE RefreshPods \/ UNCHANGED vars
  BY <1>5, <1>7 DEF RefreshPods, vars, loop
<1> QED
  BY <1>2, <1>3, <1>4, <1>6, <1>7 DEF Next

LEMMA AgreeHolds ==
  ASSUME SumsInv, RingInv, SeverityHolds, Visible, NEW q \in Queries, IsQuery(q)
  PROVE  ListsAgree(q)
<1> SUFFICES ASSUME q.kind = {}, Len(Events(q)) < LimitOf(q),
                    NEW id \in Range(Remediations(q)), rems[id].event \in DOMAIN byID
             PROVE  EventOf(rems[id].event) \in Range(Events(q))
  BY DEF ListsAgree
<1>1. id \in Wanted(q) /\ id \in DOMAIN rems
  BY ListHolds DEF ListIsExact, Wanted, SumsInv
<1> DEFINE rem == rems[id]
<1>2. PICK at \in [DOMAIN Events(q) -> Window] : HoldsTheNewest(Events(q), at, q)
  BY PageHolds DEF PageIsExact
<1>3. /\ TypeOK /\ arrived \in Seq(Event) /\ Len(arrived) \in Nat /\ stored \in Nat
      /\ stored <= Len(arrived) /\ DOMAIN arrived = 1..Len(arrived)
  <2>1. TypeOK /\ arrived \in Seq(Event) /\ stored \in 0..MaxEvents /\ MaxEvents \in Nat
    BY AgentStoreAssumption DEF RingInv, TypeOK, AgentStoreAssumption
  <2>2. stored = (IF Len(arrived) < MaxEvents THEN Len(arrived) ELSE MaxEvents)
    BY DEF RingInv, RingHolds
  <2> QED
    BY <2>1, <2>2
<1>4. PICK k \in Window : arrived[k].id = rem.event
  <2>1. PICK i \in 1..stored : Newest(i).id = rem.event
    BY DEF RingInv, IndexHolds
  <2>2. /\ Len(arrived) + 1 - i \in 1..Len(arrived)
        /\ Len(arrived) + 1 - i > Len(arrived) - stored
    BY <1>3, <2>1
  <2>3. Len(arrived) + 1 - i \in Window
    BY <2>2, WindowIs
  <2> QED
    BY <2>1, <2>3 DEF Newest
<1>5. arrived[k].container = rem.key[2] /\ Matches(rem.key[1], arrived[k])
  <2>1. cur = NoEvent
    BY DEF SumsInv, BatchInv, LockInv, Visible
  <2>2. PICK h \in Aggregated(rem) : arrived[h].id = rem.event
    BY <1>1, <2>1 DEF SumsInv, Sums, Counted
  <2>3. h \in DOMAIN arrived /\ k \in DOMAIN arrived
    BY <1>3, <2>2, WindowIs DEF Aggregated
  <2>4. h = k
    BY <1>4, <2>2, <2>3 DEF RingInv, IdsAreFresh
  <2> QED
    BY <2>2, <2>4 DEF Aggregated
<1>6. Passes(arrived[k], q)
  <2>1. rem.key[1] \in Rules /\ k \in DOMAIN arrived
    BY <1>1, <1>3, RemTypes, WindowIs DEF SumsInv
  <2>2. /\ arrived[k].severity >= RuleSeverity[rem.key[1]]
        /\ arrived[k].severity \in Int /\ RuleSeverity[rem.key[1]] \in Int
    <3>1. arrived[k] \in Event
      BY <1>3, <2>1
    <3>2. arrived[k].severity \in Int /\ RuleSeverity[rem.key[1]] \in Int
      BY <2>1, <3>1, AgentStoreAssumption DEF AgentStoreAssumption, Severities, Event
    <3> QED
      BY <1>5, <2>1, <3>2 DEF SeverityHolds
  <2>3. q.min_severity \subseteq Int
    BY DEF IsQuery, Severities
  <2>4. SeverityPasses(arrived[k].severity, q)
    BY <1>1, <2>2, <2>3 DEF Wanted, SeverityPasses
  <2> QED
    BY <1>1, <1>5, <2>4 DEF Passes, Wanted
<1>7. k \in Range(at)
  <2> SUFFICES ASSUME k \notin Range(at) PROVE FALSE
    OBVIOUS
  <2>1. Len(Events(q)) = LimitOf(q)
    BY <1>2, <1>6 DEF HoldsTheNewest
  <2> QED
    BY <2>1, LimitType
<1>8. PICK i \in DOMAIN Events(q) : at[i] = k
  BY <1>7 DEF Range
<1>9. Events(q)[i] = arrived[k]
  BY <1>2, <1>8 DEF HoldsTheNewest
<1>10. EventOf(rem.event) = arrived[k]
  BY <1>4, RetainedIsFound
<1> QED
  BY <1>8, <1>9, <1>10 DEF Range

(***************************************************************************)
(* The list endpoints answer exactly what is asked for, and agree with     *)
(* each other, for every query, every limit and every wrap of the ring.    *)
(***************************************************************************)
THEOREM ListsExact == Spec => []ListsAreExact
<1>1. SumsInv /\ RingInv /\ SeverityHolds => ListsAreExact
  BY PageHolds, ListHolds, AgreeHolds DEF ListsAreExact, SumsInv
<1>2. Init => SeverityHolds
  BY DEF Init, SeverityHolds
<1>3. SumsInv /\ SeverityHolds /\ [Next]_vars => SeverityHolds'
  BY StepSeverity DEF SumsInv, RemInv
<1> QED
  BY <1>1, <1>2, <1>3, InitSums, StepSumsInv, InitRingInv, StepRingInv, PTL DEF Spec
=============================================================================
