--------------------------- MODULE DecoyResponder ---------------------------
(***************************************************************************)
(* The decoy responder, internal/decoy, and the backend it deploys to: the *)
(* Docker daemon (docker.go) or the Kubernetes API (k8s.go).  The agent    *)
(* starts one goroutine per severe event (agent.go:182-184) and does not   *)
(* wait for it.  Every call to the backend may be done, may fail with no   *)
(* effect, or may be done while its answer is lost.  The agent may stop,   *)
(* which closes the responder (main.go:86), or crash, and start again.     *)
(***************************************************************************)
EXTENDS Integers, FiniteSets, Functions

CONSTANTS
  MaxDecoys,    \* Config.MaxDecoys
  MinInterval,  \* Config.MinInterval, in ticks of the clock
  Containers,   \* IDs of offending containers
  NoContainer,  \* of a goroutine that does not run
  Tasks,        \* goroutines that run Respond
  MaxTriggers,  \* bound of the model on severe events
  MaxTime,      \* bound of the model on the clock
  MaxRestarts   \* bound of the model on starts after the first

ASSUME DecoyResponderAssumption ==
  /\ MaxDecoys \in Nat \ {0}
  /\ MinInterval \in Nat \ {0}
  /\ NoContainer \notin Containers
  /\ MaxTriggers \in Nat /\ MaxTime \in Nat /\ MaxRestarts \in Nat

Never == -1      \* the zero time of lastDeploy
Reserved == 0    \* the empty Decoy that admit puts in byContainer

VARIABLES
  backend,      \* "docker" or "k8s": buildResponder chooses once
  phase,        \* of the agent's process
  restarts,
  now,          \* the clock, since the agent started
  byContainer,  \* container -> its decoy, or Reserved
  lastDeploy,   \* when admit last let a trigger pass
  task,         \* goroutine -> where it is
  target,       \* goroutine -> the container it answers for
  number,       \* goroutine -> the number of its event, which is also its decoy's ID
  triggers,     \* severe events so far
  toRemove,     \* the decoys Close has yet to remove
  decoys,       \* the decoys the backend has
  strays,       \* history: decoys that no answer, or a failed removal, lost track of
  made,         \* history: how many decoys were made in this life of the agent
  owed          \* history: the decoys that were confirmed when Close began

policy == <<byContainer, lastDeploy>>
tasks  == <<task, target, number>>
vars   == <<backend, phase, restarts, now, policy, tasks, triggers, toRemove,
            decoys, strays, made, owed>>

Decoy == [id : 1..MaxTriggers, container : Containers]

Up == phase \in {"serving", "closing"}

Init ==
  /\ backend \in {"docker", "k8s"}
  /\ phase = "serving"
  /\ restarts = 0
  /\ now = 0
  /\ byContainer = [c \in {} |-> Reserved]
  /\ lastDeploy = Never
  /\ task = [t \in Tasks |-> "none"]
  /\ target = [t \in Tasks |-> NoContainer]
  /\ triggers = 0
  /\ number = [t \in Tasks |-> 0]
  /\ toRemove = {}
  /\ decoys = {}
  /\ strays = {}
  /\ made = 0
  /\ owed = {}

Goto(t, place) == task' = [task EXCEPT ![t] = place] /\ UNCHANGED <<target, number>>

\* Respond returns.
Finish(t) ==
  /\ task' = [task EXCEPT ![t] = "none"]
  /\ target' = [target EXCEPT ![t] = NoContainer]
  /\ number' = [number EXCEPT ![t] = 0]

-----------------------------------------------------------------------------
\* Ingest stored a severe event of a container: go responder.Respond(ev).
Trigger(t) ==
  /\ Up
  /\ task[t] = "none"
  /\ triggers < MaxTriggers
  /\ triggers' = triggers + 1
  /\ number' = [number EXCEPT ![t] = triggers + 1]
  /\ \E c \in Containers : target' = [target EXCEPT ![t] = c]
  /\ task' = [task EXCEPT ![t] = "admit"]
  /\ UNCHANGED <<backend, phase, restarts, now, policy, toRemove, decoys, strays, made, owed>>

\* Mutations of the three conditions, for the properties below.
TrackedOnceConfirmed(c) == c \in DOMAIN byContainer /\ byContainer[c] # Reserved
BeyondCap == Cardinality(DOMAIN byContainer) > MaxDecoys
NoRateLimit == FALSE

\* The three conditions of admit.
Tracked(c) == c \in DOMAIN byContainer
AtCap == Cardinality(DOMAIN byContainer) >= MaxDecoys
TooSoon == lastDeploy # Never /\ now - lastDeploy < MinInterval

Put(f, x, y) == [z \in DOMAIN f \cup {x} |-> IF z = x THEN y ELSE f[z]]

\* admit: under the mutex, the policy is applied and a slot reserved.
Admit(t) ==
  /\ task[t] = "admit"
  /\ IF Tracked(target[t]) \/ AtCap \/ TooSoon
       THEN Finish(t) /\ UNCHANGED policy
       ELSE /\ byContainer' = Put(byContainer, target[t], Reserved)
            /\ lastDeploy' = now
            /\ Goto(t, "prepare")
  /\ UNCHANGED <<backend, phase, restarts, now, triggers,
                 toRemove, decoys, strays, made, owed>>

\* confirm: the decoy takes the place reserved for it.
Confirm(t) ==
  /\ task[t] = "confirm"
  /\ byContainer' = Put(byContainer, target[t], number[t])
  /\ Finish(t)
  /\ UNCHANGED <<backend, phase, restarts, now, lastDeploy, triggers, toRemove, decoys, strays, made, owed>>

\* release: Deploy failed, and the place is free again.
Release(t) ==
  /\ task[t] = "release"
  /\ byContainer' = Restrict(byContainer, DOMAIN byContainer \ {target[t]})
  /\ Finish(t)
  /\ UNCHANGED <<backend, phase, restarts, now, lastDeploy, triggers, toRemove, decoys, strays, made, owed>>

-----------------------------------------------------------------------------
\* Mutations: an error path that forgets the reservation, or the container.
ReturnAtOnce == "none"
LeaveItThere == "release"

\* Where an error of Deploy leads, and an error of its start.
Failed == "release"
StartFailed == "clean up"

\* Deploy, call by call.  Before it creates anything, the Docker deployer
\* inspects the offending container for a network, and the Kubernetes deployer
\* needs its namespace; either may be missing.
Prepare(t) ==
  /\ task[t] = "prepare"
  /\ Goto(t, "create") \/ Goto(t, Failed)
  /\ UNCHANGED <<backend, phase, restarts, now, policy, triggers, toRemove, decoys, strays, made, owed>>

NewDecoy(t) == [id |-> number[t], container |-> target[t]]

\* Docker refuses a second container of one name, and decoyName gives one name
\* per offending container; Kubernetes generates the names.
NameTaken(c) == backend = "docker" /\ \E d \in decoys : d.container = c

\* The backend makes the decoy.  A pod starts by itself; a container is started
\* next.
Create(t) ==
  /\ task[t] \in {"create", "create again"}
  /\ ~NameTaken(target[t])
  /\ decoys' = decoys \cup {NewDecoy(t)}
  /\ made' = made + 1 /\ owed' = owed
  /\ Goto(t, IF backend = "docker" THEN "start" ELSE "confirm")
  /\ UNCHANGED <<backend, phase, restarts, now, policy, triggers,
                 toRemove, strays>>

\* The backend makes the decoy, but the responder does not get its ID: Deploy
\* fails with nothing to clean up.
CreateAnswerLost(t) ==
  /\ task[t] \in {"create", "create again"}
  /\ ~NameTaken(target[t])
  /\ decoys' = decoys \cup {NewDecoy(t)}
  /\ strays' = strays \cup {NewDecoy(t)}
  /\ made' = made + 1 /\ owed' = owed
  /\ Goto(t, Failed)
  /\ UNCHANGED <<backend, phase, restarts, now, policy, triggers, toRemove>>

\* The backend refuses, or cannot be reached.
CreateFails(t) ==
  /\ task[t] \in {"create", "create again"}
  /\ Goto(t, Failed)
  /\ UNCHANGED <<backend, phase, restarts, now, policy, triggers, toRemove, decoys, strays, made, owed>>

\* The daemon does not have the image: it is pulled, and the create retried, once.
NoSuchImage(t) ==
  /\ backend = "docker"
  /\ task[t] = "create"
  /\ Goto(t, "pull")
  /\ UNCHANGED <<backend, phase, restarts, now, policy, triggers, toRemove, decoys, strays, made, owed>>

Pull(t) ==
  /\ task[t] = "pull"
  /\ Goto(t, "create again") \/ Goto(t, Failed)
  /\ UNCHANGED <<backend, phase, restarts, now, policy, triggers, toRemove, decoys, strays, made, owed>>

\* The start of a created container succeeds, or fails (also when it did start
\* and only the answer is lost), and then the container is removed.
Start(t) ==
  /\ task[t] = "start"
  /\ \/ NewDecoy(t) \in decoys /\ Goto(t, "confirm")
     \/ Goto(t, StartFailed)
  /\ UNCHANGED <<backend, phase, restarts, now, policy, triggers, toRemove, decoys, strays, made, owed>>

\* Deploy ignores how its removal ends.  It runs under the context whose time
\* may be what made the start fail.
CleanUp(t) ==
  /\ task[t] = "clean up"
  /\ \/ decoys' = decoys \ {NewDecoy(t)} /\ UNCHANGED strays
     \/ strays' = strays \cup (decoys \cap {NewDecoy(t)}) /\ UNCHANGED decoys
  /\ Goto(t, Failed)
  /\ UNCHANGED <<backend, phase, restarts, now, policy, triggers, toRemove, made, owed>>

-----------------------------------------------------------------------------
AsDecoy(c) == [id |-> byContainer[c], container |-> c]

\* Deployed: the decoys in byContainer that are confirmed.
Deployed == {AsDecoy(c) : c \in {x \in DOMAIN byContainer : byContainer[x] # Reserved}}

\* A signal, or a failed listener: the server stops and Close looks at what is
\* deployed.  Goroutines go on until the process ends.
Close ==
  /\ phase = "serving"
  /\ phase' = "closing"
  /\ toRemove' = Deployed
  /\ owed' = {d \in decoys : Tracked(d.container) /\ AsDecoy(d.container) = d}
  /\ UNCHANGED <<backend, restarts, now, policy, tasks, triggers, decoys, strays, made>>

\* Mutation: Close gives up at the first error.
NothingMore(d) == {}

\* What Close has yet to do when the removal of d fails: it goes on.
AfterFailedRemoval(d) == toRemove \ {d}

\* Close removes one of them, in the order in which the map is iterated.
CloseOne ==
  /\ phase = "closing"
  /\ \E d \in toRemove :
       \/ /\ decoys' = decoys \ {d}
          /\ strays' = strays \ {d}
          /\ toRemove' = toRemove \ {d}
       \/ /\ strays' = strays \cup (decoys \cap {d})
          /\ toRemove' = AfterFailedRemoval(d)
          /\ UNCHANGED decoys
  /\ UNCHANGED <<backend, restarts, now, policy, tasks, triggers, made, owed, phase>>

\* The process ends with everything it had in memory; now counts from its next start.
Gone ==
  /\ task' = [t \in Tasks |-> "none"]
  /\ target' = [t \in Tasks |-> NoContainer]
  /\ number' = [t \in Tasks |-> 0]
  /\ byContainer' = [c \in {} |-> Reserved]
  /\ lastDeploy' = Never
  /\ toRemove' = {}
  /\ made' = 0
  /\ owed' = {}
  /\ now' = 0
  /\ UNCHANGED <<backend, restarts, triggers, decoys>>

\* run returns after Close.
Exit ==
  /\ phase = "closing"
  /\ toRemove = {}
  /\ phase' = "stopped"
  /\ Gone
  /\ UNCHANGED strays

\* The process is killed: no Close.
Crash ==
  /\ Up
  /\ phase' = "crashed"
  /\ Gone
  /\ strays' = strays \cup decoys

\* It starts again, and knows nothing of the decoys of before: those left by an
\* Exit are strays from now on.
Restart ==
  /\ ~Up
  /\ restarts < MaxRestarts
  /\ restarts' = restarts + 1
  /\ phase' = "serving"
  /\ strays' = strays \cup decoys
  /\ UNCHANGED <<backend, now, policy, tasks, triggers, toRemove, decoys, made, owed>>

\* A decoy ends by itself: a pod at its activeDeadlineSeconds, a container that
\* somebody removes.
Expire ==
  /\ \E d \in decoys : decoys' = decoys \ {d} /\ strays' = strays \ {d}
  /\ UNCHANGED <<backend, phase, restarts, now, policy, tasks, triggers, toRemove,
                 made, owed>>

Tick ==
  /\ Up
  /\ now < MaxTime
  /\ now' = now + 1
  /\ UNCHANGED <<backend, phase, restarts, policy, tasks, triggers, toRemove,
                 decoys, strays, made, owed>>

Step(t) ==
  \/ Admit(t) \/ Confirm(t) \/ Release(t) \/ Prepare(t) \/ Create(t)
  \/ CreateAnswerLost(t) \/ CreateFails(t) \/ NoSuchImage(t) \/ Pull(t)
  \/ Start(t) \/ CleanUp(t)

Next ==
  \/ \E t \in Tasks : Trigger(t) \/ Step(t)
  \/ Close \/ CloseOne \/ Exit \/ Crash \/ Restart \/ Expire \/ Tick

Spec == Init /\ [][Next]_vars

\* A goroutine is scheduled again, and every call it waits for ends: the client
\* and the context have timeouts.
FairSpec == Spec /\ \A t \in Tasks : WF_vars(Step(t))

-----------------------------------------------------------------------------
Deploying == {"prepare", "create", "create again", "pull", "start", "clean up", "confirm", "release"}

\* Every variable is in its type; Close only ever removes decoys that exist as
\* such, never a reservation.
TypeOK ==
  /\ backend \in {"docker", "k8s"}
  /\ phase \in {"serving", "closing", "stopped", "crashed"}
  /\ restarts \in 0..MaxRestarts
  /\ now \in 0..MaxTime
  /\ DOMAIN byContainer \subseteq Containers
  /\ \A c \in DOMAIN byContainer : byContainer[c] \in 0..MaxTriggers
  /\ lastDeploy \in {Never} \cup 0..MaxTime
  /\ task \in [Tasks -> {"none", "admit"} \cup Deploying]
  /\ target \in [Tasks -> Containers \cup {NoContainer}]
  /\ number \in [Tasks -> 0..MaxTriggers]
  /\ triggers \in 0..MaxTriggers
  /\ toRemove \subseteq Decoy
  /\ decoys \subseteq Decoy
  /\ strays \subseteq Decoy
  /\ made \in Nat
  /\ owed \subseteq Decoy

\* A reserved place belongs to exactly one goroutine that is deploying for that
\* container: no two deploy for one container (decoy.go:177-178), and no error
\* path leaves a reservation behind that would bar the container for good.
ReservationIsOwned ==
  /\ \A t \in Tasks : task[t] \in Deploying =>
       target[t] \in DOMAIN byContainer /\ byContainer[target[t]] = Reserved
  /\ \A t, u \in Tasks :
       task[t] \in Deploying /\ task[u] \in Deploying /\ target[t] = target[u] => t = u
  /\ \A c \in DOMAIN byContainer : byContainer[c] = Reserved =>
       \E t \in Tasks : task[t] \in Deploying /\ target[t] = c

\* The decoys whose removal is still up to this process.
Kept == decoys \ strays

\* As long as the agent runs, every decoy it has not lost track of by an answer
\* that never came or a removal that failed is one that it has confirmed, so
\* that Close will find it, or one that a goroutine is about to confirm or to
\* clean up.
DecoysAreAccountedFor ==
  Up => \A d \in Kept :
    \/ d \in Deployed
    \/ \E t \in Tasks : /\ task[t] \in {"start", "clean up", "confirm"}
                        /\ d = [id |-> number[t], container |-> target[t]]

\* Config.MaxDecoys "caps how many decoys run at once" (decoy.go:43), one per
\* offending container (decoy.go:183): of the decoys it keeps track of.
WithinPolicy ==
  Up => /\ Cardinality(Kept) <= MaxDecoys
        /\ \A d, e \in Kept : d.container = e.container => d = e

\* A storm of events makes no more decoys than one per MinInterval since the
\* agent started, however its deployments overlap, fail and are tried again.
StormIsLimited ==
  made <= 1 + now \div MinInterval

\* When run returns in good order, every decoy that was confirmed while the agent
\* served is gone, but for those whose removal the backend failed: also when the
\* removal of another one failed, and while deployments go on beside Close.
CloseRemovesConfirmed ==
  [][phase = "closing" /\ phase' = "stopped" => owed \cap Kept' = {}]_vars

\* No container stays reserved: every deployment ends in a decoy or frees it.
ReservationResolves ==
  \A c \in Containers :
    LET Held == c \in DOMAIN byContainer /\ byContainer[c] = Reserved
    IN  Held ~> ~Held

-----------------------------------------------------------------------------
\* README.md:186 says of --decoy that "the decoys are removed when the agent
\* stops".  Here of a stop in good order, with no removal failed and no answer
\* lost: it is still not so when a deployment was under way.
NoDecoyIsLeft == phase = "stopped" => Kept = {}
=============================================================================
