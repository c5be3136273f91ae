-------------------------- MODULE MCDecoyResponder --------------------------
\* Model values for DecoyResponder.
EXTENDS DecoyResponder, TLC, SequencesExt

\* Goroutines are alike, and so are containers: for the run of an invariant only.
Symmetry == Permutations(Tasks) \cup Permutations(Containers)

\* Instead of that symmetry where liveness is checked: containers are alike, so the
\* n-th event may be taken to be of one of the first n.  Only Trigger is constrained,
\* which no fairness speaks of.
FirstOnesFirst ==
  \A t \in Tasks : number'[t] # 0 =>
    \E i \in 1..number'[t] : i <= Cardinality(Containers) /\ SetToSeq(Containers)[i] = target'[t]
=============================================================================
