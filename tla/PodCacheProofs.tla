--------------------------- MODULE PodCacheProofs ---------------------------
(***************************************************************************)
(* Theorems about PodCache, for every cluster and every size of a page.    *)
(***************************************************************************)
EXTENDS PodCache, TLAPS

\* A list that was answered may be older than the cluster is; but a container that
\* was listed ever since was listed when the API server answered.
AnswerHasTheSteady == refresher = "listed" => steady \subseteq answer

CacheInv ==
  /\ TypeOK
  /\ steady \subseteq Index(state)
  /\ AnswerHasTheSteady
  /\ ResolvedStaysResolved

LEMMA IndexType == \A s : Index(s) \subseteq Containers
  BY DEF Index

LEMMA InitCacheInv == Init => CacheInv
  BY DEF Init, CacheInv, TypeOK, AnswerHasTheSteady, ResolvedStaysResolved, States

\* A step of the cluster only takes containers away from what was listed ever since.
LEMMA ClusterKeeps ==
  ASSUME CacheInv, NEW c \in Containers, Schedule(c) \/ Start(c) \/ End(c) \/ Delete(c)
  PROVE  CacheInv'
<1>1. /\ \E s \in States : state' = [state EXCEPT ![c] = s]
      /\ steady' = steady \cap Index(state')
      /\ UNCHANGED <<nodeName, refresher, priming, answer, byID>>
  BY DEF Schedule, Start, End, Delete, Becomes, States
<1>2. TypeOK'
  BY <1>1 DEF CacheInv, TypeOK
<1>3. steady' \subseteq steady /\ steady' \subseteq Index(state)'
  BY <1>1 DEF Index, Page, Matching, Selected, Exists
<1> QED
  BY <1>1, <1>2, <1>3 DEF CacheInv, AnswerHasTheSteady, ResolvedStaysResolved

\* A step of the refresher that leaves the cluster alone keeps what it lists.
LEMMA IndexStays == UNCHANGED cluster => Index(state)' = Index(state)
  BY DEF cluster, Index, Page, Matching, Selected, Exists

LEMMA StepCacheInv == CacheInv /\ [Next]_vars => CacheInv'
<1> SUFFICES ASSUME CacheInv, [Next]_vars PROVE CacheInv'
  OBVIOUS
<1> USE DEF CacheInv, AnswerHasTheSteady, ResolvedStaysResolved
<1>1. ASSUME NEW c \in Containers, Schedule(c) \/ Start(c) \/ End(c) \/ Delete(c)
      PROVE  CacheInv'
  BY <1>1, ClusterKeeps
<1>2. CASE Answer
  BY <1>2, IndexStays, IndexType DEF Answer, TypeOK, cluster
<1>3. CASE Replace
  BY <1>3, IndexStays DEF Replace, TypeOK, cluster, AfterRefresh
<1>4. CASE Fail
  BY <1>4, IndexStays DEF Fail, TypeOK, cluster, AfterFailure, AfterRefresh, Kept
<1>5. CASE Tick \/ Stop
  BY <1>5, IndexStays DEF Tick, Stop, TypeOK, cluster
<1>6. CASE UNCHANGED vars
  BY <1>6, IndexStays DEF vars, TypeOK, cluster
<1> QED
  BY <1>1, <1>2, <1>3, <1>4, <1>5, <1>6 DEF Next

LEMMA CacheAlways == Spec => []CacheInv
  BY InitCacheInv, StepCacheInv, PTL DEF Spec

\* A container that was resolved once is resolved as long as it stays listed,
\* through refreshes that fail and refreshes whose answer is out of date.
THEOREM StaysResolved == Spec => []ResolvedStaysResolved
  BY CacheAlways, PTL DEF CacheInv

\* The variables of the cache and of the cluster keep their types.
THEOREM CacheTypes == Spec => []TypeOK
  BY CacheAlways, PTL DEF CacheInv
=============================================================================
