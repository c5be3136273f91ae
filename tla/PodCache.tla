------------------------------- MODULE PodCache -------------------------------
(***************************************************************************)
(* The pod cache that names the pod of a container in audit events:        *)
(* internal/k8s/k8s.go (ListPodsOnNode, indexByContainer, PodCache) and    *)
(* startEnricher of cmd/aegis-agent/main.go.  The cluster is external:     *)
(* containers start, are reported, end and vanish with their pods while a  *)
(* list is under way, and the API server may fail to answer.               *)
(*                                                                         *)
(* byID is the set of the containers it resolves: an ID is of one          *)
(* container of one pod, so what it resolves a container to is that pod.   *)
(***************************************************************************)
EXTENDS Integers, FiniteSets

CONSTANTS
  Pods,        \* pods, as numbers in the order in which the API server lists them
  Containers,
  PodOf,       \* container -> its pod
  OnNode,      \* the pods of the agent's node
  Limit        \* pods that a list holds: limit=500

ASSUME PodCacheAssumption ==
  /\ Pods \subseteq Nat
  /\ PodOf \in [Containers -> Pods]
  /\ OnNode \subseteq Pods
  /\ Limit \in Nat

VARIABLES
  nodeName,  \* whether the agent was given the name of its node
  state,     \* container -> its state in the cluster
  refresher, \* where the goroutine that refreshes the cache is
  priming,   \* it is in the first Refresh, before the agent serves
  answer,    \* the containers in the list that it got
  byID,      \* the containers that the cache resolves
  steady     \* history: containers listed ever since they were resolved

cluster == <<nodeName, state>>
vars == <<cluster, refresher, priming, answer, byID, steady>>

States == {"none", "waiting", "running", "exited", "deleted"}

Init ==
  /\ nodeName \in BOOLEAN
  /\ state = [c \in Containers |-> "none"]
  /\ refresher = "listing"
  /\ priming = TRUE
  /\ answer = {}
  /\ byID = {}
  /\ steady = {}

-----------------------------------------------------------------------------
\* What the fieldSelector, if any, lets through.
Selected == {p \in Pods : nodeName => p \in OnNode}

Exists(p, s) == \E c \in Containers : PodOf[c] = p /\ s[c] \in {"waiting", "running", "exited"}

Matching(s) == {p \in Selected : Exists(p, s)}

\* The pods of the answer: the first Limit ones.  The rest would need the continue
\* token, which ListPodsOnNode does not read.
Page(s) == {p \in Matching(s) : Cardinality({q \in Matching(s) : q < p}) < Limit}

\* indexByContainer: a container that waits has no ID in its status yet; one that
\* ended keeps it until its pod is deleted or it is started again, with a new ID.
Index(s) == {c \in Containers : PodOf[c] \in Page(s) /\ s[c] \in {"running", "exited"}}

\* A step of the cluster.
Becomes(c, from, to) ==
  /\ state[c] \in from
  /\ state' = [state EXCEPT ![c] = to]
  /\ steady' = steady \cap Index(state')
  /\ UNCHANGED <<nodeName, refresher, priming, answer, byID>>

Schedule(c) == Becomes(c, {"none"}, "waiting")
Start(c) == Becomes(c, {"waiting"}, "running")
End(c) == Becomes(c, {"running"}, "exited")
Delete(c) == Becomes(c, {"waiting", "running", "exited"}, "deleted")

-----------------------------------------------------------------------------
\* The API server answers with the pods there are.
Answer ==
  /\ refresher = "listing"
  /\ answer' = Index(state)
  /\ refresher' = "listed"
  /\ UNCHANGED <<cluster, priming, byID, steady>>

\* Where the goroutine is after a Refresh: startEnricher goes on to Run, which
\* refreshes at once; Run waits for the ticker.
AfterRefresh == IF priming THEN "listing" ELSE "waiting"

\* Mutations: Run gives up at a failure; and a failed list empties the cache.
GiveUp == "given up"
NoPods == {}

\* Where it is after a failed one, and what the cache then holds.
AfterFailure == AfterRefresh
Kept == byID

\* Refresh replaces the map, under the lock.
Replace ==
  /\ refresher = "listed"
  /\ byID' = answer
  /\ steady' = (steady \cup answer) \cap Index(state)
  /\ refresher' = AfterRefresh
  /\ priming' = FALSE
  /\ answer' = {}
  /\ UNCHANGED cluster

\* The request fails: no connection, 10 s without an answer, another status
\* than 200, a body cut short.  A warning is logged.
Fail ==
  /\ refresher = "listing"
  /\ refresher' = AfterFailure
  /\ priming' = FALSE
  /\ byID' = Kept
  /\ UNCHANGED <<cluster, answer, steady>>

\* The ticker of Run.
Tick ==
  /\ refresher = "waiting"
  /\ refresher' = "listing"
  /\ UNCHANGED <<cluster, priming, answer, byID, steady>>

\* The agent stops: Run returns where it waits, or after the request that the
\* context cancels.  Before Run, main is in startEnricher and goes on.
Stop ==
  /\ ~priming
  /\ refresher \in {"waiting", "listing"}
  /\ refresher' = "stopped"
  /\ UNCHANGED <<cluster, priming, answer, byID, steady>>

Next ==
  \/ \E c \in Containers : Schedule(c) \/ Start(c) \/ End(c) \/ Delete(c)
  \/ Answer \/ Replace \/ Fail \/ Tick \/ Stop

Spec == Init /\ [][Next]_vars

\* The goroutine is scheduled, the ticker ticks, a request ends, and not every
\* request fails.
FairSpec == Spec /\ WF_vars(Replace) /\ WF_vars(Tick) /\ WF_vars(Answer \/ Fail) /\ SF_vars(Answer)

-----------------------------------------------------------------------------
\* Every variable is in its type.
TypeOK ==
  /\ nodeName \in BOOLEAN
  /\ state \in [Containers -> States]
  /\ refresher \in {"listing", "listed", "waiting", "stopped"}
  /\ priming \in BOOLEAN
  /\ answer \subseteq Containers
  /\ byID \subseteq Containers
  /\ steady \subseteq Containers

\* Run "keeps serving the last good snapshot" (k8s.go:217): a container that was
\* resolved once is resolved as long as it stays listed, through failed
\* refreshes, and through those whose answer is older than the cluster is.
ResolvedStaysResolved == steady \subseteq byID

\* A container that stays where it can be resolved, running in a pod of the node
\* (or of any, when no node is named) among no more pods than one list holds, is
\* resolved in the end, and one whose pod is gone is forgotten.
CacheFollowsTheCluster ==
  []<>(refresher # "stopped") =>
    \A c \in Containers :
      /\ <>[](/\ state[c] = "running"
              /\ PodOf[c] \in Selected
              /\ Cardinality(Matching(state)) <= Limit) => <>[](c \in byID)
      /\ <>[](state[c] = "deleted") => <>[](c \notin byID)
=============================================================================
