------------------------ MODULE DecoyResponderProofs ------------------------
(***************************************************************************)
(* Theorems about DecoyResponder, for every policy, set of containers and  *)
(* number of goroutines, of events and of restarts.                        *)
(***************************************************************************)
EXTENDS DecoyResponder, FiniteSetTheorems, TLAPS

Busy(t) == task[t] # "none"

\* What a goroutine at work knows of its event.  Its number is its own.
TasksKnow ==
  /\ \A t \in Tasks : Busy(t) => target[t] \in Containers /\ number[t] \in 1..triggers
  /\ \A t, u \in Tasks : Busy(t) /\ Busy(u) /\ number[t] = number[u] => t = u
  /\ ~Up => \A t \in Tasks : ~Busy(t)

TypeInv == TypeOK /\ TasksKnow

\* The first state has the types.
LEMMA InitTypeInv == Init => TypeInv
  BY DecoyResponderAssumption
  DEF DecoyResponderAssumption, Init, TypeInv, TypeOK, TasksKnow, Busy, Up, Never, Reserved, Deploying

\* Where a step takes a goroutine: to another place of Deploy, or out of Respond.
Moves(t) == Busy(t) /\ ((\E place \in Deploying : Goto(t, place)) \/ Finish(t))

\* Every step of a goroutine is one of its own: the agent's phase, the clock and
\* the other goroutines stay where they are.
LEMMA StepMoves ==
  ASSUME NEW t \in Tasks, Step(t)
  PROVE  Moves(t) /\ UNCHANGED <<backend, phase, restarts, now, triggers, toRemove, owed>>
<1> USE DEF Moves, Busy, Deploying
<1>1. CASE Admit(t)
  BY <1>1 DEF Admit
<1>2. CASE Confirm(t)
  BY <1>2 DEF Confirm
<1>3. CASE Release(t)
  BY <1>3 DEF Release
<1>4. CASE Prepare(t)
  BY <1>4 DEF Prepare, Failed
<1>5. CASE Create(t)
  BY <1>5 DEF Create
<1>6. CASE CreateAnswerLost(t)
  BY <1>6 DEF CreateAnswerLost, Failed
<1>7. CASE CreateFails(t)
  BY <1>7 DEF CreateFails, Failed
<1>8. CASE NoSuchImage(t)
  BY <1>8 DEF NoSuchImage
<1>9. CASE Pull(t)
  BY <1>9 DEF Pull, Failed
<1>10. CASE Start(t)
  BY <1>10 DEF Start, StartFailed
<1>11. CASE CleanUp(t)
  BY <1>11 DEF CleanUp, Failed
<1> QED
  BY <1>1, <1>2, <1>3, <1>4, <1>5, <1>6, <1>7, <1>8, <1>9, <1>10, <1>11 DEF Step

\* A goroutine that moves leaves the others alone, and they know what they knew.
LEMMA MovingKnows ==
  ASSUME TypeInv, NEW t \in Tasks, Moves(t), UNCHANGED <<phase, triggers>>
  PROVE  /\ TasksKnow'
         /\ task' \in [Tasks -> {"none", "admit"} \cup Deploying]
         /\ target' \in [Tasks -> Containers \cup {NoContainer}]
         /\ number' \in [Tasks -> 0..MaxTriggers]
<1>1. /\ task \in [Tasks -> {"none", "admit"} \cup Deploying]
      /\ target \in [Tasks -> Containers \cup {NoContainer}]
      /\ number \in [Tasks -> 0..MaxTriggers] /\ MaxTriggers \in Nat
      /\ TasksKnow /\ Busy(t)
  BY DecoyResponderAssumption DEF DecoyResponderAssumption, TypeInv, TypeOK, Moves
<1>2. CASE \E place \in Deploying : Goto(t, place)
  <2>1. PICK place \in Deploying :
          task' = [task EXCEPT ![t] = place] /\ target' = target /\ number' = number
    BY <1>2 DEF Goto
  <2> QED
    BY <1>1, <2>1 DEF TasksKnow, Busy, Up
<1>3. CASE Finish(t)
  <2>1. /\ task' = [task EXCEPT ![t] = "none"]
        /\ target' = [target EXCEPT ![t] = NoContainer]
        /\ number' = [number EXCEPT ![t] = 0]
    BY <1>3 DEF Finish
  <2>2. TasksKnow'
    BY <1>1, <2>1 DEF TasksKnow, Busy, Up
  <2> QED
    BY <1>1, <2>1, <2>2
<1> QED
  BY <1>2, <1>3 DEF Moves

\* The decoy that a goroutine makes is one.
LEMMA NewDecoyType ==
  ASSUME TypeInv, NEW t \in Tasks, Busy(t)
  PROVE  NewDecoy(t) \in Decoy
  BY DecoyResponderAssumption DEF DecoyResponderAssumption, TypeInv, TypeOK, TasksKnow, NewDecoy, Decoy

\* What is deployed are decoys.
LEMMA DeployedType == ASSUME TypeInv PROVE Deployed \subseteq Decoy
  BY DecoyResponderAssumption
  DEF DecoyResponderAssumption, TypeInv, TypeOK, Deployed, AsDecoy, Decoy, Reserved

\* A step of a goroutine keeps the types.
LEMMA StepTypes ==
  ASSUME TypeInv, NEW t \in Tasks, Step(t)
  PROVE  TypeInv'
<1>1. Moves(t) /\ UNCHANGED <<backend, phase, restarts, now, triggers, toRemove, owed>>
  BY StepMoves
<1>2. /\ TasksKnow'
      /\ task' \in [Tasks -> {"none", "admit"} \cup Deploying]
      /\ target' \in [Tasks -> Containers \cup {NoContainer}]
      /\ number' \in [Tasks -> 0..MaxTriggers]
  BY <1>1, MovingKnows
<1>3. target[t] \in Containers /\ number[t] \in 1..MaxTriggers
  BY <1>1, DecoyResponderAssumption
  DEF DecoyResponderAssumption, Moves, TypeInv, TypeOK, TasksKnow
<1>4. /\ DOMAIN byContainer' \subseteq Containers
      /\ \A c \in DOMAIN byContainer' : byContainer'[c] \in 0..MaxTriggers
      /\ lastDeploy' \in {Never} \cup 0..MaxTime
  <2> USE <1>3, DecoyResponderAssumption
      DEF DecoyResponderAssumption, TypeInv, TypeOK, policy, Put, Reserved
  <2>1. CASE Admit(t)
    BY <2>1 DEF Admit
  <2>2. CASE Confirm(t)
    BY <2>2 DEF Confirm
  <2>3. CASE Release(t)
    BY <2>3 DEF Release, Restrict
  <2>4. CASE UNCHANGED policy
    BY <2>4
  <2> QED
    BY <2>1, <2>2, <2>3, <2>4
    DEF Step, Prepare, Create, CreateAnswerLost, CreateFails, NoSuchImage, Pull, Start, CleanUp
<1>5. decoys' \subseteq Decoy /\ strays' \subseteq Decoy /\ made' \in Nat
  <2>1. NewDecoy(t) \in Decoy
    BY <1>1, NewDecoyType DEF Moves
  <2>2. decoys \subseteq Decoy /\ strays \subseteq Decoy /\ made \in Nat
    BY DEF TypeInv, TypeOK
  <2>3. CASE Create(t)
    <3>1. decoys' = decoys \cup {NewDecoy(t)} /\ strays' = strays /\ made' = made + 1
      BY <2>3 DEF Create
    <3> QED
      BY <2>1, <2>2, <3>1
  <2>4. CASE CreateAnswerLost(t)
    <3>1. /\ decoys' = decoys \cup {NewDecoy(t)} /\ strays' = strays \cup {NewDecoy(t)}
          /\ made' = made + 1
      BY <2>4 DEF CreateAnswerLost
    <3> QED
      BY <2>1, <2>2, <3>1
  <2>5. CASE CleanUp(t)
    BY <2>1, <2>2, <2>5 DEF CleanUp
  <2>6. CASE UNCHANGED <<decoys, strays, made>>
    BY <2>2, <2>6
  <2> QED
    BY <2>3, <2>4, <2>5, <2>6
    DEF Step, Admit, Confirm, Release, Prepare, CreateFails, NoSuchImage, Pull, Start
<1> QED
  BY <1>1, <1>2, <1>4, <1>5 DEF TypeInv, TypeOK

\* Every step keeps the types.
LEMMA StepTypeInv == TypeInv /\ [Next]_vars => TypeInv'
<1> SUFFICES ASSUME TypeInv, [Next]_vars PROVE TypeInv'
  OBVIOUS
<1> USE DecoyResponderAssumption DEF DecoyResponderAssumption
<1>1. ASSUME NEW t \in Tasks, Trigger(t) PROVE TypeInv'
  <2>1. /\ triggers \in 0..MaxTriggers - 1 /\ triggers' = triggers + 1 /\ MaxTriggers \in Nat
        /\ Up /\ ~Busy(t) /\ TasksKnow
        /\ UNCHANGED <<backend, phase, restarts, now, policy, toRemove, decoys, strays, made, owed>>
    BY <1>1 DEF Trigger, TypeInv, TypeOK, Busy
  <2>2. PICK c \in Containers : /\ task' = [task EXCEPT ![t] = "admit"]
                                /\ target' = [target EXCEPT ![t] = c]
                                /\ number' = [number EXCEPT ![t] = triggers + 1]
    BY <1>1 DEF Trigger
  <2>3. /\ task' \in [Tasks -> {"none", "admit"} \cup Deploying]
        /\ target' \in [Tasks -> Containers \cup {NoContainer}]
        /\ number' \in [Tasks -> 0..MaxTriggers]
    BY <2>1, <2>2 DEF TypeInv, TypeOK
  <2>4. TasksKnow'
    <3>1. \A u \in Tasks : u # t => /\ task'[u] = task[u] /\ target'[u] = target[u]
                                    /\ number'[u] = number[u]
      BY <2>2 DEF TypeInv, TypeOK
    <3>2. task'[t] = "admit" /\ target'[t] = c /\ number'[t] = triggers + 1
      BY <2>2 DEF TypeInv, TypeOK
    <3> QED
      BY <2>1, <3>1, <3>2 DEF TasksKnow, Busy, Up
  <2> QED
    BY <2>1, <2>3, <2>4 DEF TypeInv, TypeOK, policy
<1>2. ASSUME NEW t \in Tasks, Step(t) PROVE TypeInv'
  BY <1>2, StepTypes
<1>3. CASE Close
  <2>1. toRemove' \subseteq Decoy /\ owed' \subseteq Decoy
    BY <1>3, DeployedType DEF Close, TypeInv, TypeOK
  <2> QED
    BY <1>3, <2>1 DEF Close, TypeInv, TypeOK, TasksKnow, Busy, Up, policy, tasks
<1>4. CASE CloseOne
  <2>1. toRemove' \subseteq Decoy /\ decoys' \subseteq Decoy /\ strays' \subseteq Decoy
    BY <1>4 DEF CloseOne, AfterFailedRemoval, TypeInv, TypeOK
  <2> QED
    BY <1>4, <2>1 DEF CloseOne, TypeInv, TypeOK, TasksKnow, Busy, Up, policy, tasks
<1>5. CASE Exit \/ Crash
  BY <1>5 DEF Exit, Crash, Gone, TypeInv, TypeOK, TasksKnow, Busy, Up, Never
<1>6. CASE Restart
  BY <1>6 DEF Restart, TypeInv, TypeOK, TasksKnow, Busy, Up, policy, tasks
<1>7. CASE Expire
  BY <1>7 DEF Expire, TypeInv, TypeOK, TasksKnow, Busy, Up, policy, tasks
<1>8. CASE Tick
  BY <1>8 DEF Tick, TypeInv, TypeOK, TasksKnow, Busy, Up, policy, tasks
<1>9. CASE UNCHANGED vars
  BY <1>9 DEF vars, TypeInv, TypeOK, TasksKnow, Busy, Up, policy, tasks
<1> QED
  BY <1>1, <1>2, <1>3, <1>4, <1>5, <1>6, <1>7, <1>8, <1>9 DEF Next

\* The variables of the responder keep their types, and a number of an event is
\* used by one goroutine only.
THEOREM DecoyTypes == Spec => []TypeOK
<1>1. Spec => []TypeInv
  BY InitTypeInv, StepTypeInv, PTL DEF Spec
<1> QED
  BY <1>1, PTL DEF TypeInv

-----------------------------------------------------------------------------
(***************************************************************************)
(* The places of the policy: byContainer holds each goroutine's            *)
(* reservation, and never more than MaxDecoys entries.                     *)
(***************************************************************************)
PlacesBounded == IsFiniteSet(DOMAIN byContainer) /\ Cardinality(DOMAIN byContainer) <= MaxDecoys

\* A confirmed decoy has the number of an event that is over.
NumbersUsedOnce ==
  \A c \in DOMAIN byContainer : byContainer[c] # Reserved =>
    byContainer[c] <= triggers /\ \A t \in Tasks : Busy(t) => number[t] # byContainer[c]

ReservationInv == TypeInv /\ ReservationIsOwned /\ PlacesBounded /\ NumbersUsedOnce

LEMMA InitReservationInv == Init => ReservationInv
<1> SUFFICES ASSUME Init PROVE ReservationInv
  OBVIOUS
<1>1. TypeInv
  BY InitTypeInv
<1>2. DOMAIN byContainer = {} /\ \A t \in Tasks : task[t] = "none"
  BY DEF Init
<1>3. PlacesBounded
  BY <1>2, FS_EmptySet, DecoyResponderAssumption DEF PlacesBounded, DecoyResponderAssumption
<1> QED
  BY <1>1, <1>2, <1>3 DEF ReservationInv, ReservationIsOwned, NumbersUsedOnce, Deploying

\* Between its reservation and confirm or release, a goroutine goes from one
\* place of Deploy to another and leaves the policy alone.
LEMMA DeployMoves ==
  ASSUME NEW t \in Tasks, Step(t)
  PROVE  \/ Admit(t) \/ Confirm(t) \/ Release(t)
         \/ /\ task[t] \in Deploying \ {"confirm", "release"} /\ UNCHANGED policy
            /\ \E place \in Deploying : Goto(t, place)
<1> USE DEF Deploying
<1>1. CASE Prepare(t)
  BY <1>1 DEF Prepare, Failed
<1>2. CASE Create(t)
  BY <1>2 DEF Create
<1>3. CASE CreateAnswerLost(t)
  BY <1>3 DEF CreateAnswerLost, Failed
<1>4. CASE CreateFails(t)
  BY <1>4 DEF CreateFails, Failed
<1>5. CASE NoSuchImage(t)
  BY <1>5 DEF NoSuchImage
<1>6. CASE Pull(t)
  BY <1>6 DEF Pull, Failed
<1>7. CASE Start(t)
  BY <1>7 DEF Start, StartFailed
<1>8. CASE CleanUp(t)
  BY <1>8 DEF CleanUp, Failed
<1> QED
  BY <1>1, <1>2, <1>3, <1>4, <1>5, <1>6, <1>7, <1>8 DEF Step

\* A trigger that admit lets pass reserves a place that was free.
LEMMA AdmitReserves ==
  ASSUME ReservationInv, NEW t \in Tasks, Admit(t), ~(Tracked(target[t]) \/ AtCap \/ TooSoon)
  PROVE  /\ target[t] \in Containers \ DOMAIN byContainer
         /\ DOMAIN byContainer' = DOMAIN byContainer \cup {target[t]}
         /\ \A c \in DOMAIN byContainer : byContainer'[c] = byContainer[c]
         /\ byContainer'[target[t]] = Reserved
         /\ task' = [task EXCEPT ![t] = "prepare"] /\ UNCHANGED <<target, number, triggers>>
         /\ PlacesBounded'
<1>1. /\ target[t] \in Containers \ DOMAIN byContainer
      /\ byContainer' = Put(byContainer, target[t], Reserved)
      /\ task' = [task EXCEPT ![t] = "prepare"] /\ UNCHANGED <<target, number, triggers>>
  BY DEF Admit, Goto, Tracked, ReservationInv, TypeInv, TasksKnow, Busy
<1>2. /\ DOMAIN byContainer' = DOMAIN byContainer \cup {target[t]}
      /\ \A c \in DOMAIN byContainer : byContainer'[c] = byContainer[c]
      /\ byContainer'[target[t]] = Reserved
  BY <1>1 DEF Put
<1>3. PlacesBounded'
  <2>1. /\ IsFiniteSet(DOMAIN byContainer) /\ MaxDecoys \in Nat
        /\ Cardinality(DOMAIN byContainer) \in Nat
        /\ Cardinality(DOMAIN byContainer) < MaxDecoys
    BY FS_CardinalityType, DecoyResponderAssumption
    DEF ReservationInv, PlacesBounded, AtCap, DecoyResponderAssumption
  <2>2. /\ IsFiniteSet(DOMAIN byContainer \cup {target[t]})
        /\ Cardinality(DOMAIN byContainer \cup {target[t]}) = Cardinality(DOMAIN byContainer) + 1
    BY <1>1, <2>1, FS_AddElement
  <2> QED
    BY <1>2, <2>1, <2>2 DEF PlacesBounded
<1> QED
  BY <1>1, <1>2, <1>3

\* Confirm fills the place that was reserved.
LEMMA ConfirmFills ==
  ASSUME ReservationInv, NEW t \in Tasks, Confirm(t)
  PROVE  /\ target[t] \in DOMAIN byContainer /\ byContainer[target[t]] = Reserved
         /\ number[t] \in 1..triggers
         /\ byContainer' = [byContainer EXCEPT ![target[t]] = number[t]]
         /\ DOMAIN byContainer' = DOMAIN byContainer
         /\ byContainer'[target[t]] = number[t]
         /\ \A c \in DOMAIN byContainer : c # target[t] => byContainer'[c] = byContainer[c]
         /\ Finish(t) /\ UNCHANGED triggers
<1>1. target[t] \in DOMAIN byContainer /\ byContainer[target[t]] = Reserved
  BY DEF Confirm, ReservationInv, ReservationIsOwned, Deploying
<1>2. /\ byContainer' = Put(byContainer, target[t], number[t]) /\ number[t] \in 1..triggers
      /\ Finish(t) /\ UNCHANGED triggers
  BY DEF Confirm, ReservationInv, TypeInv, TasksKnow, Busy
<1> QED
  BY <1>1, <1>2 DEF Put

\* Release frees it.
LEMMA ReleaseFrees ==
  ASSUME ReservationInv, NEW t \in Tasks, Release(t)
  PROVE  /\ target[t] \in DOMAIN byContainer /\ byContainer[target[t]] = Reserved
         /\ DOMAIN byContainer' = DOMAIN byContainer \ {target[t]}
         /\ \A c \in DOMAIN byContainer' : byContainer'[c] = byContainer[c]
         /\ Finish(t) /\ UNCHANGED triggers
<1>1. target[t] \in DOMAIN byContainer /\ byContainer[target[t]] = Reserved
  BY DEF Release, ReservationInv, ReservationIsOwned, Deploying
<1>2. /\ byContainer' = Restrict(byContainer, DOMAIN byContainer \ {target[t]})
      /\ Finish(t) /\ UNCHANGED triggers
  BY DEF Release
<1> QED
  BY <1>1, <1>2 DEF Restrict

\* A step of a goroutine keeps the reservations with their goroutines.
LEMMA StepReservation ==
  ASSUME ReservationInv, TypeInv', NEW t \in Tasks, Step(t)
  PROVE  ReservationInv'
<1>1. /\ task \in [Tasks -> {"none", "admit"} \cup Deploying]
      /\ target \in [Tasks -> Containers \cup {NoContainer}]
      /\ number \in [Tasks -> 0..MaxTriggers]
      /\ ReservationIsOwned /\ PlacesBounded /\ NumbersUsedOnce
      /\ TasksKnow /\ TasksKnow'
      /\ "none" \notin Deploying /\ "admit" \notin Deploying
  BY DEF ReservationInv, TypeInv, TypeOK, Deploying
<1>2. /\ Moves(t) /\ triggers' = triggers
      /\ \A u \in Tasks : u # t => /\ task'[u] = task[u] /\ target'[u] = target[u]
                                   /\ number'[u] = number[u]
  BY <1>1, StepMoves DEF Moves, Goto, Finish
<1>3. CASE Admit(t)
  <2>1. CASE Tracked(target[t]) \/ AtCap \/ TooSoon
    <3>1. Finish(t) /\ byContainer' = byContainer /\ task[t] = "admit"
      BY <1>3, <2>1 DEF Admit, policy
    <3>2. task'[t] = "none"
      BY <1>1, <3>1 DEF Finish
    <3>3. ReservationIsOwned'
      BY <1>1, <1>2, <3>1, <3>2 DEF ReservationIsOwned
    <3>4. PlacesBounded' /\ NumbersUsedOnce'
      BY <1>1, <1>2, <3>1, <3>2 DEF PlacesBounded, NumbersUsedOnce, Busy
    <3> QED
      BY <3>3, <3>4 DEF ReservationInv
  <2>2. CASE ~(Tracked(target[t]) \/ AtCap \/ TooSoon)
    <3>1. /\ target[t] \in Containers \ DOMAIN byContainer
          /\ DOMAIN byContainer' = DOMAIN byContainer \cup {target[t]}
          /\ \A c \in DOMAIN byContainer : byContainer'[c] = byContainer[c]
          /\ byContainer'[target[t]] = Reserved
          /\ task' = [task EXCEPT ![t] = "prepare"] /\ target' = target /\ number' = number
          /\ PlacesBounded' /\ task[t] = "admit"
      BY <1>3, <2>2, AdmitReserves DEF Admit
    <3>2. task'[t] = "prepare" /\ "prepare" \in Deploying
      BY <1>1, <3>1 DEF Deploying
    <3>3. ReservationIsOwned'
      BY <1>1, <1>2, <3>1, <3>2 DEF ReservationIsOwned
    <3>4. NumbersUsedOnce'
      BY <1>1, <1>2, <3>1, <3>2 DEF NumbersUsedOnce, Busy
    <3> QED
      BY <3>1, <3>3, <3>4 DEF ReservationInv
  <2> QED
    BY <2>1, <2>2
<1>4. CASE Confirm(t)
  <2>1. /\ target[t] \in DOMAIN byContainer /\ byContainer[target[t]] = Reserved
        /\ number[t] \in 1..triggers /\ triggers \in Nat
        /\ DOMAIN byContainer' = DOMAIN byContainer
        /\ byContainer'[target[t]] = number[t]
        /\ \A c \in DOMAIN byContainer : c # target[t] => byContainer'[c] = byContainer[c]
        /\ Finish(t) /\ task[t] = "confirm"
    BY <1>4, ConfirmFills DEF ReservationInv, Confirm, TypeInv, TypeOK
  <2>2. task'[t] = "none" /\ number[t] # Reserved /\ "confirm" \in Deploying
    <3>1. task'[t] = "none" /\ "confirm" \in Deploying
      BY <1>1, <2>1 DEF Finish, Deploying
    <3>2. number[t] # Reserved
      BY <2>1 DEF Reserved
    <3> QED
      BY <3>1, <3>2
  <2>3. ReservationIsOwned'
    BY <1>1, <1>2, <2>1, <2>2 DEF ReservationIsOwned
  <2>4. NumbersUsedOnce'
    BY <1>1, <1>2, <2>1, <2>2 DEF NumbersUsedOnce, Busy, TasksKnow
  <2>5. PlacesBounded'
    BY <1>1, <2>1 DEF PlacesBounded
  <2> QED
    BY <2>3, <2>4, <2>5 DEF ReservationInv
<1>5. CASE Release(t)
  <2>1. /\ target[t] \in DOMAIN byContainer /\ byContainer[target[t]] = Reserved
        /\ DOMAIN byContainer' = DOMAIN byContainer \ {target[t]}
        /\ \A c \in DOMAIN byContainer' : byContainer'[c] = byContainer[c]
        /\ Finish(t) /\ task[t] = "release"
    BY <1>5, ReleaseFrees DEF ReservationInv, Release
  <2>2. task'[t] = "none" /\ "release" \in Deploying
    BY <1>1, <2>1 DEF Finish, Deploying
  <2>3. ReservationIsOwned'
    BY <1>1, <1>2, <2>1, <2>2 DEF ReservationIsOwned
  <2>4. NumbersUsedOnce'
    BY <1>1, <1>2, <2>1, <2>2 DEF NumbersUsedOnce, Busy
  <2>5. PlacesBounded'
    <3>1. /\ IsFiniteSet(DOMAIN byContainer \ {target[t]}) /\ MaxDecoys \in Nat
          /\ Cardinality(DOMAIN byContainer \ {target[t]}) = Cardinality(DOMAIN byContainer) - 1
          /\ Cardinality(DOMAIN byContainer) \in Nat
      BY <1>1, <2>1, FS_RemoveElement, FS_CardinalityType, DecoyResponderAssumption
      DEF PlacesBounded, DecoyResponderAssumption
    <3> QED
      BY <1>1, <2>1, <3>1 DEF PlacesBounded
  <2> QED
    BY <2>3, <2>4, <2>5 DEF ReservationInv
<1>6. CASE /\ task[t] \in Deploying \ {"confirm", "release"} /\ UNCHANGED policy
           /\ \E place \in Deploying : Goto(t, place)
  <2>1. byContainer' = byContainer
    BY <1>6 DEF policy
  <2>2. task'[t] \in Deploying /\ target' = target /\ number' = number
    BY <1>1, <1>6 DEF Goto
  <2>3. ReservationIsOwned'
    BY <1>1, <1>2, <1>6, <2>1, <2>2 DEF ReservationIsOwned
  <2>4. NumbersUsedOnce' /\ PlacesBounded'
    BY <1>1, <1>2, <1>6, <2>1, <2>2 DEF NumbersUsedOnce, PlacesBounded, Busy
  <2> QED
    BY <2>3, <2>4 DEF ReservationInv
<1> QED
  BY <1>3, <1>4, <1>5, <1>6, DeployMoves

\* Every step does.
LEMMA StepReservationInv == ReservationInv /\ [Next]_vars => ReservationInv'
<1> SUFFICES ASSUME ReservationInv, [Next]_vars PROVE ReservationInv'
  OBVIOUS
<1>1. TypeInv /\ TypeInv'
  BY StepTypeInv DEF ReservationInv
<1>2. ASSUME NEW t \in Tasks, Trigger(t) PROVE ReservationInv'
  <2>1. /\ task \in [Tasks -> {"none", "admit"} \cup Deploying]
        /\ number \in [Tasks -> 0..MaxTriggers] /\ target \in [Tasks -> Containers \cup {NoContainer}]
        /\ triggers \in Nat /\ triggers' = triggers + 1
        /\ byContainer' = byContainer /\ task[t] = "none"
        /\ task'[t] = "admit" /\ number'[t] = triggers + 1
        /\ \A u \in Tasks : u # t => /\ task'[u] = task[u] /\ number'[u] = number[u]
                                     /\ target'[u] = target[u]
    BY <1>1, <1>2 DEF Trigger, policy, TypeInv, TypeOK
  <2>2. ReservationIsOwned'
    <3>1. "none" \notin Deploying /\ "admit" \notin Deploying
      BY DEF Deploying
    <3>2. \A u \in Tasks : task'[u] \in Deploying =>
            u # t /\ task[u] \in Deploying /\ target'[u] = target[u]
      BY <2>1, <3>1
    <3>3. \A u \in Tasks : task[u] \in Deploying => u # t
      BY <2>1, <3>1
    <3> QED
      BY <2>1, <3>2, <3>3 DEF ReservationInv, ReservationIsOwned
  <2>3. \A c \in DOMAIN byContainer : byContainer[c] \in Nat
    BY <1>1 DEF TypeInv, TypeOK
  <2>4. NumbersUsedOnce'
    BY <2>1, <2>3 DEF ReservationInv, NumbersUsedOnce, Busy
  <2>5. PlacesBounded'
    BY <2>1 DEF ReservationInv, PlacesBounded
  <2> QED
    BY <1>1, <2>2, <2>4, <2>5 DEF ReservationInv
<1>3. ASSUME NEW t \in Tasks, Step(t) PROVE ReservationInv'
  BY <1>1, <1>3, StepReservation
<1>4. CASE Exit \/ Crash
  <2>1. DOMAIN byContainer' = {} /\ \A t \in Tasks : task'[t] = "none"
    BY <1>4 DEF Exit, Crash, Gone
  <2>2. PlacesBounded'
    BY <2>1, FS_EmptySet, DecoyResponderAssumption DEF PlacesBounded, DecoyResponderAssumption
  <2> QED
    BY <1>1, <2>1, <2>2 DEF ReservationInv, ReservationIsOwned, NumbersUsedOnce, Deploying
<1>5. CASE UNCHANGED <<policy, tasks, triggers>>
  BY <1>1, <1>5 DEF policy, tasks, ReservationInv, ReservationIsOwned, PlacesBounded,
                    NumbersUsedOnce, Busy
<1>6. CASE Close \/ CloseOne \/ Restart \/ Expire \/ Tick \/ UNCHANGED vars
  BY <1>5, <1>6 DEF Close, CloseOne, Restart, Expire, Tick, vars
<1> QED
  BY <1>2, <1>3, <1>4, <1>6 DEF Next

\* A reserved place belongs to exactly one goroutine that is deploying: no two
\* deploy for one container, and none is reserved for ever by an error path.
THEOREM ReservationsAreOwned == Spec => []ReservationIsOwned
<1>1. Spec => []ReservationInv
  BY InitReservationInv, StepReservationInv, PTL DEF Spec
<1> QED
  BY <1>1, PTL DEF ReservationInv

-----------------------------------------------------------------------------
(***************************************************************************)
(* The decoys.  A decoy is with the goroutine that made it until confirm   *)
(* takes it over into byContainer.                                         *)
(***************************************************************************)
Holds(t, d) == task[t] \in {"start", "clean up", "confirm"} /\ d = NewDecoy(t)

\* DecoysAreAccountedFor says of a decoy that it is one of these.
AccountedFor(d) == d \in Deployed \/ \E t \in Tasks : Holds(t, d)

LEMMA AccountedForMeaning ==
  DecoysAreAccountedFor <=> (Up => \A d \in Kept : AccountedFor(d))
  BY DEF DecoysAreAccountedFor, AccountedFor, Holds, NewDecoy

\* A decoy in byContainer stays there in a step of a goroutine, and so do decoys
\* that the goroutines of the others hold.
LEMMA StepKeepsOthers ==
  ASSUME ReservationInv, NEW t \in Tasks, Step(t), NEW d, AccountedFor(d)
  PROVE  AccountedFor(d)' \/ Holds(t, d)
<1>1. /\ Moves(t)
      /\ \A u \in Tasks : u # t => /\ task'[u] = task[u] /\ target'[u] = target[u]
                                   /\ number'[u] = number[u]
  BY StepMoves DEF Moves, Goto, Finish, ReservationInv, TypeInv, TypeOK
<1>2. CASE d \in Deployed
  <2>1. PICK c \in DOMAIN byContainer : byContainer[c] # Reserved /\ d = AsDecoy(c)
    BY <1>2 DEF Deployed
  <2>2. c \in DOMAIN byContainer' /\ byContainer'[c] = byContainer[c]
    <3>1. CASE Admit(t)
      BY <2>1, <3>1, AdmitReserves DEF Admit, policy
    <3>2. CASE Confirm(t)
      BY <2>1, <3>2, ConfirmFills
    <3>3. CASE Release(t)
      BY <2>1, <3>3, ReleaseFrees
    <3>4. CASE UNCHANGED policy
      BY <2>1, <3>4 DEF policy
    <3> QED
      BY <3>1, <3>2, <3>3, <3>4, DeployMoves
  <2>3. d \in Deployed'
    BY <2>1, <2>2 DEF Deployed, AsDecoy
  <2> QED
    BY <2>3 DEF AccountedFor
<1>3. ASSUME NEW u \in Tasks, Holds(u, d), u # t PROVE AccountedFor(d)'
  BY <1>1, <1>3 DEF AccountedFor, Holds, NewDecoy
<1> QED
  BY <1>2, <1>3 DEF AccountedFor

\* What a goroutine holds is confirmed, kept in hand, or gone when its step ends.
LEMMA StepKeepsOwn ==
  ASSUME ReservationInv, NEW t \in Tasks, Step(t), NEW d, Holds(t, d), d \in Kept'
  PROVE  AccountedFor(d)'
<1>1. task[t] \in {"start", "clean up", "confirm"} /\ d = NewDecoy(t)
  BY DEF Holds
<1>2. CASE Confirm(t)
  <2>1. /\ target[t] \in DOMAIN byContainer' /\ byContainer'[target[t]] = number[t]
        /\ number[t] \in 1..triggers /\ triggers \in Nat
    BY <1>2, ConfirmFills DEF ReservationInv, TypeInv, TypeOK
  <2>2. byContainer'[target[t]] # Reserved
    BY <2>1 DEF Reserved
  <2>3. d = [id |-> byContainer'[target[t]], container |-> target[t]]
    BY <1>1, <2>1 DEF NewDecoy
  <2>4. d \in Deployed'
    BY <2>1, <2>2, <2>3 DEF Deployed, AsDecoy
  <2> QED
    BY <2>4 DEF AccountedFor
<1>3. CASE Start(t)
  <2>1. task' = [task EXCEPT ![t] = "confirm"] \/ task' = [task EXCEPT ![t] = "clean up"]
    BY <1>3 DEF Start, StartFailed, Goto
  <2>2. target' = target /\ number' = number
    BY <1>3 DEF Start, StartFailed, Goto
  <2>3. Holds(t, d)'
    BY <1>1, <2>1, <2>2 DEF Holds, NewDecoy, ReservationInv, TypeInv, TypeOK
  <2> QED
    BY <2>3 DEF AccountedFor
<1>4. CASE CleanUp(t)
  BY <1>1, <1>4 DEF CleanUp, Kept
<1> QED
  BY <1>1, <1>2, <1>3, <1>4
  DEF Step, Admit, Release, Prepare, Create, CreateAnswerLost, CreateFails, NoSuchImage, Pull

\* A goroutine that makes a decoy holds it, unless it does not learn of it.
LEMMA StepMakes ==
  ASSUME ReservationInv, NEW t \in Tasks, Step(t), NEW d \in Kept' \ Kept
  PROVE  /\ d = NewDecoy(t) /\ task[t] \in {"create", "create again"}
         /\ AccountedFor(d)'
<1>1. CASE Create(t)
  <2>1. /\ decoys' = decoys \cup {NewDecoy(t)} /\ strays' = strays
        /\ target' = target /\ number' = number
        /\ \/ task' = [task EXCEPT ![t] = "start"]
           \/ task' = [task EXCEPT ![t] = "confirm"]
    BY <1>1 DEF Create, Goto
  <2>2. Holds(t, NewDecoy(t))'
    BY <2>1 DEF Holds, NewDecoy, ReservationInv, TypeInv, TypeOK
  <2>3. d = NewDecoy(t) /\ NewDecoy(t)' = NewDecoy(t)
    BY <2>1 DEF Kept, NewDecoy
  <2> QED
    BY <1>1, <2>2, <2>3 DEF AccountedFor, Create, Holds
<1>2. CASE CreateAnswerLost(t)
  BY <1>2 DEF CreateAnswerLost, Kept
<1>3. CASE CleanUp(t)
  BY <1>3 DEF CleanUp, Kept
<1>4. CASE UNCHANGED <<decoys, strays>>
  BY <1>4 DEF Kept
<1> QED
  BY <1>1, <1>2, <1>3, <1>4
  DEF Step, Admit, Confirm, Release, Prepare, CreateFails, NoSuchImage, Pull, Start

\* Steps that are not of a goroutine add no decoy to those that count.
LEMMA OthersAddNone ==
  ASSUME Close \/ CloseOne \/ Expire \/ Tick \/ Restart \/ (\E t \in Tasks : Trigger(t))
         \/ UNCHANGED vars \/ Exit \/ Crash
  PROVE  Kept' \subseteq Kept
  BY DEF Close, CloseOne, Expire, Tick, Restart, Trigger, vars, Kept, Exit, Crash, Gone

\* No step loses track of a decoy.
LEMMA StepAccounted ==
  ReservationInv /\ DecoysAreAccountedFor /\ [Next]_vars => DecoysAreAccountedFor'
<1> SUFFICES ASSUME ReservationInv, DecoysAreAccountedFor, [Next]_vars, Up', NEW d \in Kept'
             PROVE  AccountedFor(d)'
  BY AccountedForMeaning DEF DecoysAreAccountedFor, AccountedFor, Holds, NewDecoy
<1>1. Up => \A e \in Kept : AccountedFor(e)
  BY AccountedForMeaning
<1>2. ASSUME NEW t \in Tasks, Step(t) PROVE AccountedFor(d)'
  <2>1. phase' = phase
    BY <1>2, StepMoves
  <2>2. CASE d \in Kept
    BY <1>1, <1>2, <2>1, <2>2, StepKeepsOthers, StepKeepsOwn DEF Up
  <2>3. CASE d \notin Kept
    BY <1>2, <2>3, StepMakes
  <2> QED
    BY <2>2, <2>3
<1>3. ASSUME NEW t \in Tasks, Trigger(t) PROVE AccountedFor(d)'
  <2>1. /\ task[t] = "none" /\ Up /\ byContainer' = byContainer
        /\ \A u \in Tasks : u # t => /\ task'[u] = task[u] /\ target'[u] = target[u]
                                     /\ number'[u] = number[u]
    BY <1>3 DEF Trigger, policy, ReservationInv, TypeInv, TypeOK
  <2>2. AccountedFor(d)
    BY <1>1, <1>3, <2>1, OthersAddNone
  <2> QED
    BY <2>1, <2>2 DEF AccountedFor, Holds, NewDecoy, Deployed, AsDecoy
<1>4. CASE Close \/ CloseOne \/ Expire \/ Tick \/ UNCHANGED vars
  <2>1. Up /\ UNCHANGED <<policy, tasks>>
    BY <1>4 DEF Close, CloseOne, Expire, Tick, vars, Up
  <2>2. AccountedFor(d)
    BY <1>1, <1>4, <2>1, OthersAddNone
  <2> QED
    BY <2>1, <2>2 DEF AccountedFor, Holds, NewDecoy, Deployed, AsDecoy, policy, tasks
<1>5. CASE Exit \/ Crash
  BY <1>5 DEF Exit, Crash, Up
<1>6. CASE Restart
  BY <1>6 DEF Restart, Kept
<1> QED
  BY <1>2, <1>3, <1>4, <1>5, <1>6 DEF Next

AccountInv == ReservationInv /\ DecoysAreAccountedFor

LEMMA AccountAlways == Spec => []AccountInv
<1>1. Init => AccountInv
  <2>1. Init => DecoysAreAccountedFor
    BY DEF Init, DecoysAreAccountedFor, Kept
  <2> QED
    BY <2>1, InitReservationInv DEF AccountInv
<1>2. AccountInv /\ [Next]_vars => AccountInv'
  BY StepReservationInv, StepAccounted DEF AccountInv
<1> QED
  BY <1>1, <1>2, PTL DEF Spec

\* While the agent runs, a decoy it has not lost track of is confirmed, so that
\* Close finds it, or in the hands of a goroutine that will confirm it or clean up.
THEOREM DecoysAccountedFor == Spec => []DecoysAreAccountedFor
  BY AccountAlways, PTL DEF AccountInv

\* The decoys that count are of different containers, each of which has a place.
LEMMA OneDecoyPerPlace ==
  ASSUME AccountInv, Up
  PROVE  /\ \A d \in Kept : d.container \in DOMAIN byContainer
         /\ \A d, e \in Kept : d.container = e.container => d = e
<1>1. \A d \in Kept : AccountedFor(d)
  BY AccountedForMeaning DEF AccountInv
<1>2. ReservationIsOwned /\ {"start", "clean up", "confirm"} \subseteq Deploying
  BY DEF AccountInv, ReservationInv, Deploying
<1>3. \A d \in Deployed : d.container \in DOMAIN byContainer /\ d = AsDecoy(d.container)
                          /\ byContainer[d.container] # Reserved
  BY DEF Deployed, AsDecoy
<1>4. ASSUME NEW d, NEW t \in Tasks, Holds(t, d)
      PROVE  /\ d.container = target[t] /\ d.container \in DOMAIN byContainer
             /\ byContainer[d.container] = Reserved
  BY <1>2, <1>4 DEF Holds, NewDecoy, ReservationIsOwned
<1>5. \A d \in Kept : d.container \in DOMAIN byContainer
  BY <1>1, <1>3, <1>4 DEF AccountedFor
<1>6. ASSUME NEW d \in Kept, NEW e \in Kept, d.container = e.container PROVE d = e
  <2>1. CASE d \in Deployed
    <3>1. e \in Deployed
      BY <1>1, <1>3, <1>4, <1>6, <2>1 DEF AccountedFor
    <3> QED
      BY <1>3, <1>6, <2>1, <3>1
  <2>2. CASE d \notin Deployed
    <3>1. PICK t \in Tasks : Holds(t, d)
      BY <1>1, <2>2 DEF AccountedFor
    <3>2. PICK u \in Tasks : Holds(u, e)
      BY <1>1, <1>3, <1>4, <1>6, <3>1 DEF AccountedFor
    <3>3. target[t] = target[u]
      BY <1>4, <1>6, <3>1, <3>2
    <3>4. task[t] \in Deploying /\ task[u] \in Deploying
      BY <1>2, <3>1, <3>2 DEF Holds
    <3>5. t = u
      BY <1>2, <3>3, <3>4 DEF ReservationIsOwned
    <3> QED
      BY <3>1, <3>2, <3>5 DEF Holds
  <2> QED
    BY <2>1, <2>2
<1> QED
  BY <1>5, <1>6

\* There are never more than MaxDecoys decoys that the agent keeps track of, and
\* no two of one container.
THEOREM PolicyKept == Spec => []WithinPolicy
<1>1. ASSUME AccountInv, Up PROVE WithinPolicy
  <2> DEFINE place == [d \in Kept |-> d.container]
  <2>1. /\ \A d \in Kept : d.container \in DOMAIN byContainer
        /\ \A d, e \in Kept : d.container = e.container => d = e
    BY <1>1, OneDecoyPerPlace
  <2>2. place \in Injection(Kept, DOMAIN byContainer)
    BY <2>1 DEF Injection, IsInjective
  <2>3. /\ IsFiniteSet(DOMAIN byContainer) /\ Cardinality(DOMAIN byContainer) <= MaxDecoys
        /\ MaxDecoys \in Nat
    BY <1>1, DecoyResponderAssumption
    DEF AccountInv, ReservationInv, PlacesBounded, DecoyResponderAssumption
  <2>4. IsFiniteSet(Kept) /\ Cardinality(Kept) <= Cardinality(DOMAIN byContainer)
    BY <2>2, <2>3, FS_Injection
  <2>5. Cardinality(Kept) \in Nat /\ Cardinality(DOMAIN byContainer) \in Nat
    BY <2>3, <2>4, FS_CardinalityType
  <2> HIDE DEF place
  <2>6. Cardinality(Kept) <= MaxDecoys
    BY <2>3, <2>4, <2>5
  <2> QED
    BY <2>1, <2>6 DEF WithinPolicy
<1>2. AccountInv => WithinPolicy
  BY <1>1 DEF WithinPolicy
<1> QED
  BY <1>2, AccountAlways, PTL

-----------------------------------------------------------------------------
(***************************************************************************)
(* The rate limit.  A trigger that was admitted makes one decoy at most, so*)
(* the admitted ones that may still make theirs count as made.             *)
(***************************************************************************)
Pending == {t \in Tasks : task[t] \in {"prepare", "create", "create again", "pull"}}

RateInv ==
  /\ TypeInv
  /\ IsFiniteSet(Pending)
  /\ lastDeploy = Never => made = 0 /\ Pending = {}
  /\ lastDeploy # Never =>
       lastDeploy <= now /\ made + Cardinality(Pending) <= 1 + lastDeploy \div MinInterval

\* An interval later, \div counts one more.
LEMMA IntervalLater ==
  ASSUME NEW m \in Nat \ {0}, NEW a \in Nat, NEW b \in Nat, b - a >= m
  PROVE  a \div m + 1 <= b \div m
  OBVIOUS

\* \div is monotonic.
LEMMA DivMonotonic ==
  ASSUME NEW m \in Nat \ {0}, NEW a \in Nat, NEW b \in Nat, a <= b
  PROVE  a \div m <= b \div m /\ a \div m \in Nat
  OBVIOUS

\* The count does not grow when admitted triggers fail, or make their decoys.
LEMMA RateKept ==
  ASSUME RateInv, TypeInv', lastDeploy' = lastDeploy, now' >= now,
         \/ Pending' \subseteq Pending /\ made' = made
         \/ \E t \in Pending : Pending' = Pending \ {t} /\ made' = made + 1
  PROVE  RateInv'
<1>1. /\ IsFiniteSet(Pending) /\ Cardinality(Pending) \in Nat /\ made \in Nat
      /\ now \in Nat /\ now' \in Nat
      /\ lastDeploy # Never =>
           /\ lastDeploy \in Nat /\ lastDeploy \div MinInterval \in Nat /\ lastDeploy <= now'
           /\ made + Cardinality(Pending) <= 1 + lastDeploy \div MinInterval
  <2>1. /\ made \in Nat /\ now \in Nat /\ now' \in Nat /\ MinInterval \in Nat \ {0}
        /\ lastDeploy # Never => lastDeploy \in Nat
    BY DecoyResponderAssumption DEF RateInv, TypeInv, TypeOK, DecoyResponderAssumption
  <2>2. lastDeploy # Never => lastDeploy \div MinInterval \in Nat
    BY <2>1, DivMonotonic
  <2>3. lastDeploy # Never => lastDeploy <= now'
    BY <2>1 DEF RateInv
  <2> QED
    BY <2>1, <2>2, <2>3, FS_CardinalityType DEF RateInv
<1>2. CASE Pending' \subseteq Pending /\ made' = made
  <2>1. /\ IsFiniteSet(Pending') /\ Cardinality(Pending') <= Cardinality(Pending)
        /\ Cardinality(Pending') \in Nat
    BY <1>1, <1>2, FS_Subset, FS_CardinalityType
  <2>2. lastDeploy = Never => made' = 0 /\ Pending' = {}
    BY <1>2 DEF RateInv
  <2>3. lastDeploy # Never =>
          lastDeploy <= now' /\ made' + Cardinality(Pending') <= 1 + lastDeploy \div MinInterval
    BY <1>1, <1>2, <2>1
  <2> QED
    BY <2>1, <2>2, <2>3 DEF RateInv
<1>3. ASSUME NEW t \in Pending, Pending' = Pending \ {t}, made' = made + 1
      PROVE  RateInv'
  <2>1. IsFiniteSet(Pending') /\ Cardinality(Pending') = Cardinality(Pending) - 1
    BY <1>1, <1>3, FS_RemoveElement
  <2>2. lastDeploy # Never /\ Cardinality(Pending') \in Nat
    BY <1>3, <2>1, FS_CardinalityType DEF RateInv
  <2>3. lastDeploy <= now' /\ made' + Cardinality(Pending') <= 1 + lastDeploy \div MinInterval
    BY <1>1, <1>3, <2>1, <2>2
  <2> QED
    BY <2>1, <2>2, <2>3 DEF RateInv
<1> QED
  BY <1>2, <1>3

\* The rate limit holds when a trigger is admitted.
LEMMA AdmitRate ==
  ASSUME RateInv, TypeInv', NEW t \in Tasks, Admit(t)
  PROVE  RateInv'
<1> USE DecoyResponderAssumption DEF DecoyResponderAssumption
<1>1. /\ task[t] = "admit" /\ task \in [Tasks -> {"none", "admit"} \cup Deploying]
      /\ made' = made /\ now' = now /\ made \in Nat /\ now \in Nat
      /\ lastDeploy \in {Never} \cup Nat
  BY DEF Admit, RateInv, TypeInv, TypeOK
<1>2. CASE Tracked(target[t]) \/ AtCap \/ TooSoon
  <2>1. Pending' \subseteq Pending /\ lastDeploy' = lastDeploy
    BY <1>1, <1>2 DEF Admit, Finish, policy, Pending
  <2> QED
    BY <1>1, <2>1, RateKept
<1>3. CASE ~(Tracked(target[t]) \/ AtCap \/ TooSoon)
  <2>1. lastDeploy' = now /\ Pending' = Pending \cup {t} /\ t \notin Pending
    BY <1>1, <1>3 DEF Admit, Goto, Pending
  <2>2. /\ IsFiniteSet(Pending) /\ Cardinality(Pending) \in Nat /\ IsFiniteSet(Pending')
        /\ Cardinality(Pending') = Cardinality(Pending) + 1
    BY <2>1, FS_AddElement, FS_CardinalityType DEF RateInv
  <2>3. now \div MinInterval \in Nat
    BY <1>1, DivMonotonic
  <2>4. CASE lastDeploy = Never
    <3>1. made = 0 /\ Cardinality(Pending) = 0
      BY <2>4, FS_EmptySet DEF RateInv
    <3> QED
      BY <1>1, <2>1, <2>2, <2>3, <3>1 DEF RateInv, Never
  <2>5. CASE lastDeploy # Never
    <3>1. /\ lastDeploy \in Nat /\ now - lastDeploy >= MinInterval
          /\ made + Cardinality(Pending) <= 1 + lastDeploy \div MinInterval
      BY <1>1, <1>3, <2>5 DEF RateInv, TooSoon
    <3>2. /\ lastDeploy \div MinInterval + 1 <= now \div MinInterval
          /\ lastDeploy \div MinInterval \in Nat
      BY <1>1, <3>1, IntervalLater, DivMonotonic
    <3>3. made + (Cardinality(Pending) + 1) <= 1 + now \div MinInterval
      BY <1>1, <2>2, <2>3, <3>1, <3>2
    <3> QED
      BY <1>1, <2>1, <2>2, <3>3 DEF RateInv, Never
  <2> QED
    BY <2>4, <2>5
<1> QED
  BY <1>2, <1>3

\* Every step keeps the rate.
LEMMA StepRateInv == RateInv /\ [Next]_vars => RateInv'
<1> SUFFICES ASSUME RateInv, [Next]_vars PROVE RateInv'
  OBVIOUS
<1>1. TypeInv /\ TypeInv'
  BY StepTypeInv DEF RateInv
<1>2. /\ task \in [Tasks -> {"none", "admit"} \cup Deploying] /\ now \in Nat
      /\ made \in Nat /\ DecoyResponderAssumption
  BY <1>1, DecoyResponderAssumption DEF TypeInv, TypeOK
<1>3. ASSUME NEW t \in Tasks, Step(t) PROVE RateInv'
  <2>1. now' = now /\ (Admit(t) \/ UNCHANGED lastDeploy)
    BY <1>3, StepMoves DEF Step, Admit, Confirm, Release, Prepare, Create, CreateAnswerLost,
                           CreateFails, NoSuchImage, Pull, Start, CleanUp, policy
  <2>2. CASE Admit(t)
    BY <1>1, <2>2, AdmitRate
  <2>3. CASE ~Admit(t) /\ (Create(t) \/ CreateAnswerLost(t))
    <3>1. /\ task[t] \in {"create", "create again"} /\ made' = made + 1
          /\ \E place \in {"start", "confirm", "release"} : task' = [task EXCEPT ![t] = place]
      BY <2>3 DEF Create, CreateAnswerLost, Goto, Failed
    <3>2. t \in Pending /\ Pending' = Pending \ {t}
      BY <1>2, <3>1 DEF Pending
    <3> QED
      <4>1. \E u \in Pending : Pending' = Pending \ {u} /\ made' = made + 1
        BY <3>1, <3>2
      <4> QED
        BY <1>1, <1>2, <2>1, <2>3, <4>1, RateKept
  <2>4. CASE ~Admit(t) /\ ~Create(t) /\ ~CreateAnswerLost(t)
    <3>1. made' = made /\ Pending' \subseteq Pending
      <4>1. CASE Confirm(t)
        BY <1>2, <4>1 DEF Confirm, Finish, Pending
      <4>2. CASE Release(t)
        BY <1>2, <4>2 DEF Release, Finish, Pending
      <4>3. CASE Prepare(t) \/ CreateFails(t) \/ NoSuchImage(t) \/ Pull(t)
        BY <1>2, <4>3 DEF Prepare, CreateFails, NoSuchImage, Pull, Goto, Failed, Pending
      <4>4. CASE Start(t) \/ CleanUp(t)
        BY <1>2, <4>4 DEF Start, CleanUp, Goto, StartFailed, Failed, Pending
      <4> QED
        BY <1>3, <2>4, <4>1, <4>2, <4>3, <4>4 DEF Step
    <3> QED
      BY <1>1, <1>2, <2>1, <2>4, <3>1, RateKept
  <2> QED
    BY <2>2, <2>3, <2>4
<1>4. ASSUME NEW t \in Tasks, Trigger(t) PROVE RateInv'
  <2>1. /\ made' = made /\ now' = now /\ lastDeploy' = lastDeploy
        /\ task' = [task EXCEPT ![t] = "admit"] /\ task[t] = "none"
    BY <1>4 DEF Trigger, policy
  <2>2. Pending' \subseteq Pending
    BY <1>2, <2>1 DEF Pending
  <2> QED
    BY <1>1, <1>2, <2>1, <2>2, RateKept
<1>5. CASE Exit \/ Crash
  <2>1. Pending' = {} /\ made' = 0 /\ lastDeploy' = Never
    BY <1>5 DEF Exit, Crash, Gone, Pending
  <2> QED
    BY <1>1, <2>1, FS_EmptySet DEF RateInv
<1>6. CASE Close \/ CloseOne \/ Restart \/ Expire \/ Tick \/ UNCHANGED vars
  <2>1. /\ Pending' \subseteq Pending /\ made' = made /\ lastDeploy' = lastDeploy
        /\ now' \in {now, now + 1}
    BY <1>6 DEF Close, CloseOne, Restart, Expire, Tick, vars, policy, tasks, Pending
  <2> QED
    BY <1>1, <1>2, <2>1, RateKept
<1> QED
  BY <1>3, <1>4, <1>5, <1>6 DEF Next

\* In each life of the agent, no more decoys are made than one per MinInterval,
\* however the deployments overlap, fail and are tried again.
THEOREM StormLimited == Spec => []StormIsLimited
<1>1. Init => RateInv
  <2>1. Init => Pending = {} /\ lastDeploy = Never /\ made = 0
    BY DEF Init, Pending
  <2> QED
    BY <2>1, InitTypeInv, FS_EmptySet DEF RateInv
<1>2. RateInv => StormIsLimited
  <2> SUFFICES ASSUME RateInv PROVE StormIsLimited
    OBVIOUS
  <2>1. /\ made \in Nat /\ now \in Nat /\ MinInterval \in Nat \ {0}
        /\ Cardinality(Pending) \in Nat /\ (lastDeploy # Never => lastDeploy \in Nat)
    BY FS_CardinalityType, DecoyResponderAssumption
    DEF RateInv, TypeInv, TypeOK, DecoyResponderAssumption
  <2>2. now \div MinInterval \in Nat
    BY <2>1, DivMonotonic
  <2>3. CASE lastDeploy # Never
    <3>1. /\ lastDeploy \div MinInterval <= now \div MinInterval
          /\ lastDeploy \div MinInterval \in Nat
      BY <2>1, <2>3, DivMonotonic DEF RateInv
    <3> QED
      BY <2>1, <2>2, <2>3, <3>1 DEF RateInv, StormIsLimited
  <2> QED
    BY <2>1, <2>2, <2>3 DEF RateInv, StormIsLimited
<1> QED
  BY <1>1, <1>2, StepRateInv, PTL DEF Spec

-----------------------------------------------------------------------------
(***************************************************************************)
(* Close.  What it owes is in what it has yet to remove, until it is gone  *)
(* or its removal failed; and no goroutine makes it again.                 *)
(***************************************************************************)
CloseInv ==
  /\ ReservationInv
  /\ \A d \in owed : d.id <= triggers /\ \A t \in Tasks : Busy(t) => number[t] # d.id
  /\ phase = "closing" => owed \cap Kept \subseteq toRemove

\* What is confirmed has numbers that no goroutine uses.
LEMMA DeployedNumbers ==
  ASSUME ReservationInv, NEW d \in Deployed
  PROVE  d.id <= triggers /\ \A t \in Tasks : Busy(t) => number[t] # d.id
  BY DEF Deployed, AsDecoy, ReservationInv, NumbersUsedOnce

\* A step of a goroutine does not bring back what Close owes.
LEMMA StepKeepsClose ==
  ASSUME CloseInv, ReservationInv', NEW t \in Tasks, Step(t)
  PROVE  CloseInv'
<1>1. /\ Moves(t) /\ UNCHANGED <<phase, triggers, toRemove, owed>>
  BY StepMoves
<1>2. \A d \in owed' : d.id <= triggers' /\ \A u \in Tasks : Busy(u)' => number'[u] # d.id
  <2>1. \A u \in Tasks : Busy(u)' => Busy(u) /\ number'[u] = number[u]
    BY <1>1 DEF Moves, Goto, Finish, Busy, Deploying, CloseInv, ReservationInv, TypeInv, TypeOK
  <2> QED
    BY <1>1, <2>1 DEF CloseInv
<1>3. ASSUME NEW d \in owed, d \in Kept' PROVE d \in Kept
  <2>1. d.id # NewDecoy(t).id
    BY <1>1 DEF CloseInv, Moves, NewDecoy
  <2> QED
    BY <1>3, <2>1, StepMakes DEF CloseInv
<1> QED
  BY <1>1, <1>2, <1>3 DEF CloseInv

LEMMA StepCloseInv == CloseInv /\ [Next]_vars => CloseInv'
<1> SUFFICES ASSUME CloseInv, [Next]_vars PROVE CloseInv'
  OBVIOUS
<1>1. ReservationInv /\ ReservationInv' /\ TypeInv
  BY StepReservationInv DEF CloseInv, ReservationInv
<1>2. ASSUME NEW t \in Tasks, Step(t) PROVE CloseInv'
  BY <1>1, <1>2, StepKeepsClose
<1>3. ASSUME NEW t \in Tasks, Trigger(t) PROVE CloseInv'
  <2>1. /\ triggers \in Nat /\ triggers' = triggers + 1 /\ number'[t] = triggers + 1
        /\ \A u \in Tasks : u # t => task'[u] = task[u] /\ number'[u] = number[u]
        /\ owed' = owed /\ phase' = phase /\ toRemove' = toRemove /\ Kept' = Kept
        /\ \A d \in owed : d.id \in Nat
    BY <1>1, <1>3, DecoyResponderAssumption
    DEF Trigger, TypeInv, TypeOK, Kept, Decoy, DecoyResponderAssumption
  <2> QED
    BY <1>1, <2>1 DEF CloseInv, Busy
<1>4. CASE Close
  <2>1. /\ owed' \subseteq Deployed /\ toRemove' = Deployed /\ UNCHANGED <<tasks, triggers>>
    <3>1. \A d \in decoys : d.id # Reserved
      BY <1>1, DecoyResponderAssumption
      DEF TypeInv, TypeOK, Decoy, Reserved, DecoyResponderAssumption
    <3>2. ASSUME NEW d \in decoys, Tracked(d.container), AsDecoy(d.container) = d
          PROVE  d \in Deployed
      BY <3>1, <3>2 DEF Deployed, Tracked, AsDecoy
    <3> QED
      BY <1>4, <3>2 DEF Close
  <2> QED
    BY <1>1, <2>1, DeployedNumbers DEF CloseInv, tasks, Busy
<1>5. CASE CloseOne
  <2>1. PICK d \in toRemove :
          \/ decoys' = decoys \ {d} /\ strays' = strays \ {d} /\ toRemove' = toRemove \ {d}
          \/ strays' = strays \cup (decoys \cap {d}) /\ toRemove' = toRemove \ {d} /\ decoys' = decoys
    BY <1>5 DEF CloseOne, AfterFailedRemoval
  <2>2. Kept' \subseteq Kept \ {d}
    BY <2>1 DEF Kept
  <2>3. owed' = owed /\ phase' = phase /\ UNCHANGED <<tasks, triggers>>
    BY <1>5 DEF CloseOne
  <2> QED
    BY <1>1, <2>1, <2>2, <2>3 DEF CloseInv, tasks, Busy
<1>6. CASE Exit \/ Crash
  BY <1>1, <1>6 DEF Exit, Crash, Gone, CloseInv
<1>7. CASE Restart \/ Expire \/ Tick \/ UNCHANGED vars
  <2>1. /\ owed' = owed /\ toRemove' = toRemove /\ UNCHANGED <<tasks, triggers>>
        /\ phase' = "closing" => phase = "closing"
        /\ Kept' \subseteq Kept
    BY <1>7, OthersAddNone DEF Restart, Expire, Tick, vars, Kept
  <2> QED
    BY <1>1, <2>1 DEF CloseInv, tasks, Busy
<1> QED
  BY <1>2, <1>3, <1>4, <1>5, <1>6, <1>7 DEF Next

\* When the agent stops in good order, every decoy that was confirmed when Close
\* began is gone, but for those whose removal failed.
THEOREM CloseRemoves == Spec => CloseRemovesConfirmed
<1>1. Init => CloseInv
  <2>1. Init => owed = {} /\ phase = "serving"
    BY DEF Init
  <2> QED
    BY <2>1, InitReservationInv DEF CloseInv
<1>2. ASSUME CloseInv, [Next]_vars, phase = "closing", phase' = "stopped"
      PROVE  owed \cap Kept' = {}
  <2>1. CASE Exit
    BY <1>2, <2>1 DEF Exit, Gone, CloseInv, Kept
  <2>2. CASE \E t \in Tasks : Step(t)
    BY <1>2, <2>2, StepMoves
  <2> QED
    BY <1>2, <2>1, <2>2 DEF Next, Trigger, Close, CloseOne, Crash, Restart, Expire, Tick, vars
<1>3. CloseInv /\ [Next]_vars => [phase = "closing" /\ phase' = "stopped" => owed \cap Kept' = {}]_vars
  BY <1>2
<1> QED
  BY <1>1, <1>3, StepCloseInv, PTL DEF Spec, CloseRemovesConfirmed
=============================================================================
