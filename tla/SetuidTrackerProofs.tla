------------------------- MODULE SetuidTrackerProofs -------------------------
(***************************************************************************)
(* Theorems about SetuidTracker, for every set of tasks and users and      *)
(* every size of the map and of the ring buffer.                           *)
(***************************************************************************)
EXTENDS SetuidTracker, FiniteSetTheorems, SequenceTheorems, TLAPS

\* A call that was seen to begin goes on, by a task that is not root.
SeenGoOn == \A t \in seen : t \in alive /\ inside[t] # Outside /\ uid[t] # Root

FiniteMap == IsFiniteSet(DOMAIN SETUID_CALLS)

\* The invariant of the tracker: with it, each action keeps FreshEntriesAreTrue.
TrackerInv == TypeOK /\ SeenGoOn /\ FiniteMap /\ FreshEntriesAreTrue

\* What an insertion leaves in the map: the new entry, and some of the others
\* as they were.
LEMMA InsertionKeeps ==
  ASSUME TypeOK, FiniteMap, NEW t \in Ids, NEW u \in Users, NEW m \in Insertions(t, u)
  PROVE  /\ DOMAIN m \subseteq DOMAIN SETUID_CALLS \cup {t}
         /\ t \in DOMAIN m
         /\ m[t] = u
         /\ \A x \in DOMAIN m \ {t} : m[x] = SETUID_CALLS[x]
         /\ m \in [DOMAIN m -> Users]
         /\ IsFiniteSet(DOMAIN m)
         /\ Cardinality(DOMAIN m) <= MaxEntries
<1>1. PICK kept \in SUBSET (DOMAIN SETUID_CALLS \ {t}) :
        /\ Cardinality(kept) < MaxEntries
        /\ m = [x \in kept \cup {t} |-> IF x = t THEN u ELSE SETUID_CALLS[x]]
  BY DEF Insertions
<1>2. DOMAIN m = kept \cup {t}
  BY <1>1
<1>3. IsFiniteSet(kept) /\ t \notin kept
  BY <1>1, FS_Subset DEF FiniteMap
<1>4. IsFiniteSet(kept \cup {t}) /\ Cardinality(kept \cup {t}) = Cardinality(kept) + 1
  BY <1>3, FS_AddElement
<1>5. Cardinality(kept) \in Nat
  BY <1>3, FS_CardinalityType
<1>6. Cardinality(DOMAIN m) <= MaxEntries
  BY <1>1, <1>2, <1>4, <1>5, SetuidTrackerAssumption DEF SetuidTrackerAssumption
<1>7. \A x \in DOMAIN m : m[x] \in Users /\ (x # t => m[x] = SETUID_CALLS[x])
  BY <1>1 DEF TypeOK
<1> QED
  BY <1>1, <1>2, <1>4, <1>6, <1>7

\* Root is not one of the other users.
LEMMA RootIsNoUser == Root \notin Users /\ Uids = Users \cup {Root}
  BY SetuidTrackerAssumption DEF SetuidTrackerAssumption, Root, Uids

\* Nothing is known of any task when the probe starts.
LEMMA InitTrackerInv == Init => TrackerInv
<1> SUFFICES ASSUME Init PROVE TrackerInv
  OBVIOUS
<1>1. IsFiniteSet({}) /\ Cardinality({}) = 0
  BY FS_EmptySet
<1>2. SETUID_CALLS = Empty /\ DOMAIN SETUID_CALLS = {}
  BY DEF Init, Empty
<1>3. TypeOK
  <2>1. EVENTS \in Seq([task : Ids, old : Users]) /\ Len(EVENTS) = 0
    BY DEF Init
  <2>2. SETUID_CALLS \in [DOMAIN SETUID_CALLS -> Users]
    BY <1>2 DEF Empty
  <2> QED
    BY <1>1, <1>2, <2>1, <2>2, SetuidTrackerAssumption
       DEF Init, TypeOK, SetuidTrackerAssumption, Tracepoints, Family
<1> QED
  BY <1>1, <1>2, <1>3 DEF Init, TrackerInv, SeenGoOn, FiniteMap, FreshEntriesAreTrue, Fresh

\* A step by which a task enters a call keeps the invariant.
LEMMA EnterTrackerInv ==
  ASSUME TrackerInv, NEW t \in Ids, NEW call \in Calls, Enter(t, call)
  PROVE  TrackerInv'
<1> USE DEF TrackerInv
<1>1. /\ t \in alive /\ inside[t] = Outside
      /\ inside' = [inside EXCEPT ![t] = call]
      /\ calls < MaxCalls /\ calls' = calls + 1
      /\ UNCHANGED <<attached, alive, uid, EVENTS, abandoned, wrong>>
  BY DEF Enter
<1>2. call # Outside
  BY DEF Calls, Outside
<1>3. t \notin seen /\ t \notin Fresh
  BY <1>1 DEF SeenGoOn, Fresh
<1>4. seen' \subseteq seen \cup {t} /\ seen \subseteq seen'
  BY DEF Enter
<1>5. t \in seen' => uid[t] # Root
  BY <1>3 DEF Enter
<1>6. SeenGoOn'
  BY <1>1, <1>2, <1>4, <1>5 DEF SeenGoOn, TypeOK
<1>7. CASE EnterAttached(call) /\ Remembers(t)
  <2>1. uid[t] \in Users /\ seen' = seen \cup {t}
    BY <1>7, RootIsNoUser DEF Enter, Remembers, TypeOK
  <2>2. CASE \E m \in Inserted(t) :
               SETUID_CALLS' = m /\ missed' = missed \cup (seen \ DOMAIN m)
    <3>1. PICK m \in Inserted(t) :
            SETUID_CALLS' = m /\ missed' = missed \cup (seen \ DOMAIN m)
      BY <2>2
    <3>2. /\ DOMAIN m \subseteq DOMAIN SETUID_CALLS \cup {t}
          /\ t \in DOMAIN m
          /\ m[t] = uid[t]
          /\ \A x \in DOMAIN m \ {t} : m[x] = SETUID_CALLS[x]
          /\ m \in [DOMAIN m -> Users]
          /\ IsFiniteSet(DOMAIN m)
          /\ Cardinality(DOMAIN m) <= MaxEntries
      BY <2>1, <3>1, InsertionKeeps DEF Inserted
    <3>3. TypeOK'
      BY <1>1, <2>1, <3>1, <3>2, SetuidTrackerAssumption DEF TypeOK, SetuidTrackerAssumption
    <3>4. FreshEntriesAreTrue'
      BY <1>1, <1>2, <1>6, <2>1, <3>1, <3>2 DEF FreshEntriesAreTrue, Fresh, SeenGoOn, TypeOK
    <3> QED
      BY <1>6, <3>1, <3>2, <3>3, <3>4 DEF FiniteMap
  <2>3. CASE missed' = missed \cup {t} /\ UNCHANGED SETUID_CALLS
    <3>1. TypeOK'
      BY <1>1, <2>1, <2>3, SetuidTrackerAssumption DEF TypeOK, SetuidTrackerAssumption
    <3>2. FreshEntriesAreTrue'
      BY <1>1, <1>2, <1>6, <2>1, <2>3 DEF FreshEntriesAreTrue, Fresh, SeenGoOn, TypeOK
    <3> QED
      BY <1>6, <2>3, <3>1, <3>2 DEF FiniteMap
  <2> QED
    BY <1>7, <2>2, <2>3 DEF Enter
<1>8. CASE ~(EnterAttached(call) /\ Remembers(t))
  <2>1. UNCHANGED <<SETUID_CALLS, missed>> /\ seen' = seen
    BY <1>8 DEF Enter, Remembers
  <2>2. TypeOK'
    BY <1>1, <2>1, SetuidTrackerAssumption DEF TypeOK, SetuidTrackerAssumption
  <2>3. FreshEntriesAreTrue'
    BY <1>1, <1>2, <2>1 DEF FreshEntriesAreTrue, Fresh, TypeOK
  <2> QED
    BY <1>6, <2>1, <2>2, <2>3 DEF FiniteMap
<1> QED
  BY <1>7, <1>8

\* So does one by which a call returns.
LEMMA ReturnTrackerInv ==
  ASSUME TrackerInv, NEW t \in Ids, NEW ok \in BOOLEAN, NEW new \in Uids, Return(t, ok, new)
  PROVE  TrackerInv'
<1> USE DEF TrackerInv
<1>1. /\ uid' = [uid EXCEPT ![t] = new]
      /\ inside' = [inside EXCEPT ![t] = Outside]
      /\ seen' = seen \ {t} /\ missed' = missed \ {t}
      /\ UNCHANGED <<attached, alive, calls>>
  BY DEF Return
<1>2. SeenGoOn'
  BY <1>1 DEF SeenGoOn, TypeOK
<1>3. CASE ExitAttached(inside[t]) /\ t \in DOMAIN SETUID_CALLS
  <2> DEFINE reports == Escalates(ok, new)
  <2>1. /\ SETUID_CALLS' = Restrict(SETUID_CALLS, DOMAIN SETUID_CALLS \ {t})
        /\ UNCHANGED abandoned
        /\ \/ /\ Len(EVENTS) < RingRoom
              /\ EVENTS' = Append(EVENTS, [task |-> t, old |-> SETUID_CALLS[t]])
              /\ wrong' \in {wrong, wrong + 1}
           \/ UNCHANGED <<EVENTS, wrong>>
    BY <1>3 DEF Return, Removed
  <2>2. /\ DOMAIN SETUID_CALLS' = DOMAIN SETUID_CALLS \ {t}
        /\ \A x \in DOMAIN SETUID_CALLS' : SETUID_CALLS'[x] = SETUID_CALLS[x]
        /\ SETUID_CALLS' \in [DOMAIN SETUID_CALLS' -> Users]
    BY <2>1 DEF Restrict, TypeOK
  <2>3. IsFiniteSet(DOMAIN SETUID_CALLS') /\ Cardinality(DOMAIN SETUID_CALLS') <= MaxEntries
    <3>1. /\ IsFiniteSet(DOMAIN SETUID_CALLS \ {t})
          /\ Cardinality(DOMAIN SETUID_CALLS \ {t}) <= Cardinality(DOMAIN SETUID_CALLS)
      BY FS_Subset DEF FiniteMap
    <3>2. /\ Cardinality(DOMAIN SETUID_CALLS \ {t}) \in Nat
          /\ Cardinality(DOMAIN SETUID_CALLS) \in Nat
      BY <3>1, FS_CardinalityType DEF FiniteMap
    <3> QED
      BY <2>2, <3>1, <3>2, SetuidTrackerAssumption DEF TypeOK, SetuidTrackerAssumption
  <2>4. /\ EVENTS' \in Seq([task : Ids, old : Users])
        /\ Len(EVENTS') <= RingRoom
        /\ wrong' \in Nat
    <3>1. [task |-> t, old |-> SETUID_CALLS[t]] \in [task : Ids, old : Users]
      BY <1>3 DEF TypeOK
    <3>2. EVENTS \in Seq([task : Ids, old : Users]) /\ wrong \in Nat /\ Len(EVENTS) <= RingRoom
      BY DEF TypeOK
    <3>3. CASE UNCHANGED <<EVENTS, wrong>>
      BY <3>2, <3>3
    <3>4. ASSUME Len(EVENTS) < RingRoom,
                 EVENTS' = Append(EVENTS, [task |-> t, old |-> SETUID_CALLS[t]]),
                 wrong' \in {wrong, wrong + 1}
          PROVE  /\ EVENTS' \in Seq([task : Ids, old : Users])
                 /\ Len(EVENTS') <= RingRoom
                 /\ wrong' \in Nat
      <4>1. EVENTS' \in Seq([task : Ids, old : Users]) /\ Len(EVENTS') = Len(EVENTS) + 1
        BY <3>1, <3>2, <3>4, AppendProperties
      <4>2. RingRoom \in Nat /\ Len(EVENTS) \in Nat
        BY <3>2, SetuidTrackerAssumption DEF SetuidTrackerAssumption
      <4> QED
        BY <3>2, <3>4, <4>1, <4>2
    <3> QED
      BY <2>1, <3>3, <3>4
  <2>5. TypeOK'
    BY <1>1, <2>1, <2>2, <2>3, <2>4 DEF TypeOK
  <2>6. FreshEntriesAreTrue'
    BY <1>1, <2>2 DEF FreshEntriesAreTrue, Fresh, TypeOK
  <2> QED
    BY <1>2, <2>3, <2>5, <2>6 DEF FiniteMap
<1>4. CASE ~(ExitAttached(inside[t]) /\ t \in DOMAIN SETUID_CALLS)
  <2>1. /\ UNCHANGED <<SETUID_CALLS, EVENTS, wrong>>
        /\ abandoned' \in {abandoned, abandoned + 1}
    BY <1>4 DEF Return
  <2>2. TypeOK'
    BY <1>1, <2>1 DEF TypeOK
  <2>3. FreshEntriesAreTrue'
    BY <1>1, <2>1 DEF FreshEntriesAreTrue, Fresh, TypeOK
  <2> QED
    BY <1>2, <2>1, <2>2, <2>3 DEF FiniteMap
<1> QED
  BY <1>3, <1>4

\* Every step keeps the invariant.
LEMMA StepTrackerInv == TrackerInv /\ [Next]_vars => TrackerInv'
<1> SUFFICES ASSUME TrackerInv, [Next]_vars PROVE TrackerInv'
  OBVIOUS
<1> USE DEF TrackerInv
<1>1. CASE AttachNext
  BY <1>1, SetuidTrackerAssumption
     DEF AttachNext, hostVars, TypeOK, SeenGoOn, FiniteMap, FreshEntriesAreTrue, Fresh,
         Tracepoints, Family
<1>2. CASE Detach
  <2>1. /\ attached' = 0 /\ SETUID_CALLS' = Empty /\ EVENTS' = << >>
        /\ seen' = {} /\ missed' = {}
        /\ UNCHANGED <<alive, uid, inside, calls, abandoned, wrong>>
    BY <1>2 DEF Detach, hostVars
  <2>2. /\ DOMAIN SETUID_CALLS' = {}
        /\ SETUID_CALLS' \in [DOMAIN SETUID_CALLS' -> Users]
        /\ IsFiniteSet(DOMAIN SETUID_CALLS')
        /\ Cardinality(DOMAIN SETUID_CALLS') <= MaxEntries
    BY <2>1, FS_EmptySet, SetuidTrackerAssumption DEF Empty, SetuidTrackerAssumption
  <2>3. EVENTS' \in Seq([task : Ids, old : Users]) /\ Len(EVENTS') <= RingRoom
    BY <2>1, SetuidTrackerAssumption DEF SetuidTrackerAssumption
  <2>4. attached' \in 0..Tracepoints
    BY <2>1 DEF Tracepoints, Family
  <2> QED
    BY <2>1, <2>2, <2>3, <2>4 DEF TypeOK, SeenGoOn, FiniteMap, FreshEntriesAreTrue, Fresh
<1>3. CASE Read
  <2>1. /\ EVENTS # << >> /\ EVENTS' = Tail(EVENTS)
        /\ UNCHANGED <<attached, alive, uid, inside, calls, SETUID_CALLS, seen, missed,
                       abandoned, wrong>>
    BY <1>3 DEF Read, hostVars
  <2>2. EVENTS' \in Seq([task : Ids, old : Users]) /\ Len(EVENTS') <= RingRoom
    BY <2>1, SetuidTrackerAssumption DEF TypeOK, SetuidTrackerAssumption
  <2> QED
    BY <2>1, <2>2 DEF TypeOK, SeenGoOn, FiniteMap, FreshEntriesAreTrue, Fresh
<1>4. ASSUME NEW t \in Ids, NEW call \in Calls, Enter(t, call) PROVE TrackerInv'
  BY <1>4, EnterTrackerInv
<1>5. ASSUME NEW t \in Ids, NEW ok \in BOOLEAN, NEW new \in Uids, Return(t, ok, new)
      PROVE  TrackerInv'
  BY <1>5, ReturnTrackerInv
<1>6. ASSUME NEW t \in Ids, Kill(t) PROVE TrackerInv'
  BY <1>6 DEF Kill, TypeOK, SeenGoOn, FiniteMap, FreshEntriesAreTrue, Fresh
<1>7. ASSUME NEW t \in Ids, Spawn(t) PROVE TrackerInv'
  BY <1>7 DEF Spawn, TypeOK, SeenGoOn, FiniteMap, FreshEntriesAreTrue, Fresh
<1>8. CASE UNCHANGED vars
  BY <1>8 DEF vars, TypeOK, SeenGoOn, FiniteMap, FreshEntriesAreTrue, Fresh
<1> QED
  BY <1>1, <1>2, <1>3, <1>4, <1>5, <1>6, <1>7, <1>8 DEF Next

\* Every variable keeps its type, the map and the ring buffer their sizes.
THEOREM TrackerTypes == Spec => []TypeOK
<1>1. TrackerInv => TypeOK
  BY DEF TrackerInv
<1> QED
  BY <1>1, InitTrackerInv, StepTrackerInv, PTL DEF Spec

\* The entry that a call in progress will find at its exit is its own, whatever
\* tasks are killed, identifiers used again and entries evicted.
THEOREM EntriesAreTrue == Spec => []FreshEntriesAreTrue
<1>1. TrackerInv => FreshEntriesAreTrue
  BY DEF TrackerInv
<1> QED
  BY <1>1, InitTrackerInv, StepTrackerInv, PTL DEF Spec

-----------------------------------------------------------------------------
\* The entries that are not of a call in progress are counted by abandoned.
StaleInv == TrackerInv /\ StaleEntriesMisleadOnce

\* No entry is stale at first.
LEMMA InitStale == Init => StaleEntriesMisleadOnce
<1> SUFFICES ASSUME Init PROVE StaleEntriesMisleadOnce
  OBVIOUS
<1>1. Stale = {} /\ wrong = 0 /\ abandoned = 0
  BY DEF Init, Stale, Empty
<1> QED
  BY <1>1, FS_EmptySet DEF StaleEntriesMisleadOnce

\* The stale entries are finitely many.
LEMMA StaleIsFinite ==
  ASSUME FiniteMap PROVE IsFiniteSet(Stale) /\ Cardinality(Stale) \in Nat
<1>1. IsFiniteSet(Stale)
  BY FS_Subset DEF FiniteMap, Stale
<1> QED
  BY <1>1, FS_CardinalityType

\* A step with no stale entry more, and no wrong report more, keeps the count.
LEMMA FewerStale ==
  ASSUME TypeOK, FiniteMap, StaleEntriesMisleadOnce,
         Stale' \subseteq Stale, wrong' = wrong, abandoned' \in {abandoned, abandoned + 1}
  PROVE  StaleEntriesMisleadOnce'
<1>1. /\ IsFiniteSet(Stale')
      /\ Cardinality(Stale') <= Cardinality(Stale)
  BY StaleIsFinite, FS_Subset
<1>2. Cardinality(Stale) \in Nat /\ Cardinality(Stale') \in Nat
  BY <1>1, StaleIsFinite, FS_CardinalityType
<1> QED
  BY <1>1, <1>2 DEF StaleEntriesMisleadOnce, TypeOK

\* Neither has a step that makes one entry stale and counts it.
LEMMA OneMoreStale ==
  ASSUME TypeOK, FiniteMap, StaleEntriesMisleadOnce, NEW t,
         Stale' \subseteq Stale \cup {t}, wrong' = wrong, abandoned' = abandoned + 1
  PROVE  StaleEntriesMisleadOnce'
<1>1. IsFiniteSet(Stale \cup {t}) /\ Cardinality(Stale \cup {t}) <= Cardinality(Stale) + 1
  BY StaleIsFinite, FS_AddElement
<1>2. IsFiniteSet(Stale') /\ Cardinality(Stale') <= Cardinality(Stale \cup {t})
  BY <1>1, FS_Subset
<1>3. /\ Cardinality(Stale) \in Nat /\ Cardinality(Stale') \in Nat
      /\ Cardinality(Stale \cup {t}) \in Nat
  BY <1>1, <1>2, StaleIsFinite, FS_CardinalityType
<1> QED
  BY <1>1, <1>2, <1>3 DEF StaleEntriesMisleadOnce, TypeOK

\* The return of a call removes its entry.  If that is of the call itself, what
\* is reported is right; if not, one stale entry is gone.
LEMMA ReturnStale ==
  ASSUME StaleInv, NEW t \in Ids, NEW ok \in BOOLEAN, NEW new \in Uids, Return(t, ok, new)
  PROVE  StaleEntriesMisleadOnce'
<1> USE DEF StaleInv, TrackerInv
<1>1. seen' = seen \ {t} /\ missed' = missed \ {t}
  BY DEF Return
<1>2. Fresh' = Fresh \ {t}
  BY <1>1 DEF Fresh
<1>3. CASE ExitAttached(inside[t]) /\ t \in DOMAIN SETUID_CALLS
  <2>1. /\ SETUID_CALLS' = Restrict(SETUID_CALLS, DOMAIN SETUID_CALLS \ {t})
        /\ UNCHANGED abandoned
    BY <1>3 DEF Return, Removed
  <2>2. Stale' = Stale \ {t}
    BY <1>2, <2>1 DEF Stale, Restrict
  <2>3. CASE t \in Fresh
    <3>1. SETUID_CALLS[t] = uid[t] /\ uid[t] # Root
      BY <2>3 DEF FreshEntriesAreTrue
    <3>2. wrong' = wrong
      BY <1>3, <3>1 DEF Return, Escalates, BecameRoot
    <3> QED
      BY <2>1, <2>2, <3>2, FewerStale
  <2>4. CASE t \notin Fresh
    <3>1. t \in Stale
      BY <1>3, <2>4 DEF Stale
    <3>2. Cardinality(Stale') = Cardinality(Stale) - 1
      BY <2>2, <3>1, StaleIsFinite, FS_RemoveElement
    <3>3. wrong' \in {wrong, wrong + 1}
      BY <1>3 DEF Return
    <3> QED
      BY <2>1, <3>2, <3>3, StaleIsFinite DEF StaleEntriesMisleadOnce, TypeOK
  <2> QED
    BY <2>3, <2>4
<1>4. CASE ~(ExitAttached(inside[t]) /\ t \in DOMAIN SETUID_CALLS)
  <2>1. /\ UNCHANGED <<SETUID_CALLS, wrong>>
        /\ abandoned' = IF t \in Fresh THEN abandoned + 1 ELSE abandoned
    BY <1>4 DEF Return
  <2>2. CASE t \in Fresh
    <3>1. Stale' \subseteq Stale \cup {t}
      BY <1>2, <2>1 DEF Stale
    <3> QED
      BY <2>1, <2>2, <3>1, OneMoreStale
  <2>3. CASE t \notin Fresh
    <3>1. Stale' \subseteq Stale
      BY <1>2, <2>1, <2>3 DEF Stale
    <3> QED
      BY <2>1, <2>3, <3>1, FewerStale
  <2> QED
    BY <2>2, <2>3
<1> QED
  BY <1>3, <1>4

\* Every step keeps the count.
LEMMA StepStale == StaleInv /\ [Next]_vars => StaleEntriesMisleadOnce'
<1> SUFFICES ASSUME StaleInv, [Next]_vars PROVE StaleEntriesMisleadOnce'
  OBVIOUS
<1> USE DEF StaleInv, TrackerInv
<1>1. ASSUME AttachNext \/ Detach \/ Read \/ UNCHANGED vars PROVE StaleEntriesMisleadOnce'
  <2>1. Stale' \subseteq Stale
    BY <1>1 DEF AttachNext, Detach, Read, vars, Stale, Fresh, Empty
  <2>2. wrong' = wrong /\ abandoned' = abandoned
    BY <1>1 DEF AttachNext, Detach, Read, vars
  <2> QED
    BY <2>1, <2>2, FewerStale
<1>2. ASSUME NEW t \in Ids, NEW call \in Calls, Enter(t, call) PROVE StaleEntriesMisleadOnce'
  <2>1. inside[t] = Outside /\ wrong' = wrong /\ abandoned' = abandoned
    BY <1>2 DEF Enter
  <2>2. t \notin seen /\ t \notin missed
    BY <2>1 DEF SeenGoOn, TypeOK
  <2>3. CASE EnterAttached(call) /\ Remembers(t)
    <3>1. uid[t] \in Users /\ seen' = seen \cup {t}
      BY <1>2, <2>3, RootIsNoUser DEF Enter, Remembers, TypeOK
    <3>2. ASSUME NEW m \in Inserted(t),
                 SETUID_CALLS' = m, missed' = missed \cup (seen \ DOMAIN m)
          PROVE  Stale' \subseteq Stale
      <4>1. DOMAIN m \subseteq DOMAIN SETUID_CALLS \cup {t}
        BY <3>1, InsertionKeeps DEF Inserted
      <4> QED
        BY <2>2, <3>1, <3>2, <4>1 DEF Stale, Fresh
    <3>3. ASSUME missed' = missed \cup {t}, UNCHANGED SETUID_CALLS
          PROVE  Stale' \subseteq Stale
      BY <2>2, <3>1, <3>3 DEF Stale, Fresh
    <3> QED
      BY <1>2, <2>1, <2>3, <3>2, <3>3, FewerStale DEF Enter
  <2>4. CASE ~(EnterAttached(call) /\ Remembers(t))
    <3>1. UNCHANGED <<SETUID_CALLS, seen, missed>>
      BY <1>2, <2>4 DEF Enter, Remembers
    <3>2. Stale' \subseteq Stale
      BY <3>1 DEF Stale, Fresh
    <3> QED
      BY <2>1, <3>2, FewerStale
  <2> QED
    BY <2>3, <2>4
<1>3. ASSUME NEW t \in Ids, NEW ok \in BOOLEAN, NEW new \in Uids, Return(t, ok, new)
      PROVE  StaleEntriesMisleadOnce'
  BY <1>3, ReturnStale
<1>4. ASSUME NEW t \in Ids, Kill(t) PROVE StaleEntriesMisleadOnce'
  <2>1. /\ Fresh' = Fresh \ {t}
        /\ UNCHANGED <<SETUID_CALLS, wrong>>
        /\ abandoned' = IF t \in Fresh THEN abandoned + 1 ELSE abandoned
    BY <1>4 DEF Kill, Fresh
  <2>2. CASE t \in Fresh
    <3>1. Stale' \subseteq Stale \cup {t}
      BY <2>1 DEF Stale
    <3> QED
      BY <2>1, <2>2, <3>1, OneMoreStale
  <2>3. CASE t \notin Fresh
    <3>1. Stale' \subseteq Stale
      BY <2>1, <2>3 DEF Stale
    <3> QED
      BY <2>1, <2>3, <3>1, FewerStale
  <2> QED
    BY <2>2, <2>3
<1>5. ASSUME NEW t \in Ids, Spawn(t) PROVE StaleEntriesMisleadOnce'
  <2>1. UNCHANGED <<SETUID_CALLS, seen, missed, wrong, abandoned>>
    BY <1>5 DEF Spawn
  <2>2. Stale' \subseteq Stale
    BY <2>1 DEF Stale, Fresh
  <2> QED
    BY <2>1, <2>2, FewerStale
<1> QED
  BY <1>1, <1>2, <1>3, <1>4, <1>5 DEF Next

\* A stale entry misleads the probe once at most.
THEOREM StaleMisleadsOnce == Spec => []StaleEntriesMisleadOnce
<1>1. Init => StaleInv
  BY InitTrackerInv, InitStale DEF StaleInv
<1>2. StaleInv /\ [Next]_vars => StaleInv'
  BY StepTrackerInv, StepStale DEF StaleInv
<1>3. StaleInv => StaleEntriesMisleadOnce
  BY DEF StaleInv
<1> QED
  BY <1>1, <1>2, <1>3, PTL DEF Spec

-----------------------------------------------------------------------------
\* A task is outside its call after a step and was inside before it: the call
\* returned, or the task was killed.
LEMMA LeavingACall ==
  ASSUME TypeOK, [Next]_vars, NEW t \in Ids, inside[t] # Outside, inside'[t] = Outside
  PROVE  \/ \E ok \in BOOLEAN, new \in Uids : Return(t, ok, new)
         \/ Kill(t)
<1>1. ASSUME AttachNext \/ Detach \/ Read \/ UNCHANGED vars PROVE FALSE
  BY <1>1 DEF AttachNext, Detach, Read, hostVars, vars
<1>2. ASSUME NEW x \in Ids, NEW call \in Calls, Enter(x, call) PROVE FALSE
  BY <1>2 DEF Enter, TypeOK
<1>3. ASSUME NEW x \in Ids, NEW ok \in BOOLEAN, NEW new \in Uids, Return(x, ok, new)
      PROVE  x = t
  BY <1>3 DEF Return, TypeOK
<1>4. ASSUME NEW x \in Ids, Kill(x) PROVE x = t
  BY <1>4 DEF Kill, TypeOK
<1>5. ASSUME NEW x \in Ids, Spawn(x) PROVE FALSE
  BY <1>5 DEF Spawn
<1> QED
  BY <1>1, <1>2, <1>3, <1>4, <1>5 DEF Next

\* A report that is not of a stale entry is right.
THEOREM ReportsCorrect == Spec => ReportsAreRight
<1> DEFINE Right ==
      \A t \in Ids : Reported(t) /\ t \notin Stale =>
        BecameRoot(t, uid'[t]) /\ EVENTS'[Len(EVENTS')].old = uid[t]
<1>1. TrackerInv /\ [Next]_vars => Right
  <2> SUFFICES ASSUME TrackerInv, [Next]_vars, NEW t \in Ids, Reported(t), t \notin Stale
               PROVE  BecameRoot(t, uid'[t]) /\ EVENTS'[Len(EVENTS')].old = uid[t]
    OBVIOUS
  <2> USE DEF TrackerInv
  <2>1. /\ inside[t] # Outside /\ inside'[t] = Outside
        /\ Len(EVENTS') = Len(EVENTS) + 1
        /\ EVENTS \in Seq([task : Ids, old : Users])
    BY DEF Reported, TypeOK
  <2>2. CASE Kill(t)
    BY <2>1, <2>2 DEF Kill
  <2>3. ASSUME NEW ok \in BOOLEAN, NEW new \in Uids, Return(t, ok, new)
        PROVE  BecameRoot(t, uid'[t]) /\ EVENTS'[Len(EVENTS')].old = uid[t]
    <3>1. /\ t \in DOMAIN SETUID_CALLS
          /\ Escalates(ok, new)
          /\ EVENTS' = Append(EVENTS, [task |-> t, old |-> SETUID_CALLS[t]])
          /\ uid'[t] = new
      BY <2>1, <2>3 DEF Return, TypeOK
    <3>2. t \in Fresh
      BY <3>1 DEF Stale
    <3>3. SETUID_CALLS[t] = uid[t] /\ uid[t] # Root
      BY <3>2 DEF FreshEntriesAreTrue
    <3>4. EVENTS'[Len(EVENTS')] = [task |-> t, old |-> SETUID_CALLS[t]]
      BY <2>1, <3>1
    <3> QED
      BY <3>1, <3>3, <3>4 DEF Escalates, BecameRoot
  <2> QED
    BY <2>1, <2>2, <2>3, LeavingACall
<1> QED
  BY <1>1, InitTrackerInv, StepTrackerInv, PTL DEF Spec, ReportsAreRight

\* An escalation that was seen from its entry to its exit is reported, unless
\* the ring buffer is full or the map lost the entry.
THEOREM EscalationsReported == Spec => EscalationsAreReported
<1> DEFINE Seen ==
      \A t \in alive \cap alive' :
        /\ inside[t] # Outside /\ inside'[t] = Outside
        /\ BecameRoot(t, uid'[t])
        /\ t \in Fresh
        /\ ExitAttached(inside[t])
        => Reported(t) \/ Len(EVENTS) = RingRoom
<1>1. TrackerInv /\ [Next]_vars => Seen
  <2> SUFFICES ASSUME TrackerInv, [Next]_vars, NEW t \in alive \cap alive',
                      inside[t] # Outside, inside'[t] = Outside,
                      BecameRoot(t, uid'[t]), t \in Fresh, ExitAttached(inside[t]),
                      Len(EVENTS) # RingRoom
               PROVE  Reported(t)
    OBVIOUS
  <2> USE DEF TrackerInv
  <2>1. t \in Ids
    BY DEF TypeOK
  <2>2. ~Kill(t)
    BY DEF Kill
  <2>3. PICK ok \in BOOLEAN, new \in Uids : Return(t, ok, new)
    BY <2>1, <2>2, LeavingACall
  <2>4. t \in DOMAIN SETUID_CALLS
    BY DEF FreshEntriesAreTrue
  <2>5. uid'[t] = new
    BY <2>1, <2>3 DEF Return, TypeOK
  <2>6. Escalates(ok, new)
    BY <2>3, <2>5 DEF Return, Escalates, BecameRoot
  <2>7. /\ EVENTS \in Seq([task : Ids, old : Users])
        /\ Len(EVENTS) < RingRoom
    BY SetuidTrackerAssumption DEF TypeOK, SetuidTrackerAssumption
  <2>8. EVENTS' = Append(EVENTS, [task |-> t, old |-> SETUID_CALLS[t]])
    BY <2>3, <2>4, <2>6, <2>7 DEF Return
  <2>9. /\ Len(EVENTS') = Len(EVENTS) + 1
        /\ EVENTS'[Len(EVENTS')] = [task |-> t, old |-> SETUID_CALLS[t]]
    BY <2>7, <2>8
  <2> QED
    BY <2>9 DEF Reported
<1> QED
  BY <1>1, InitTrackerInv, StepTrackerInv, PTL DEF Spec, EscalationsAreReported
=============================================================================
