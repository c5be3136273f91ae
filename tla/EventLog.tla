------------------------------ MODULE EventLog ------------------------------
(***************************************************************************)
(* What the event store of internal/agent promises to the callers of       *)
(* POST /v1/events and GET /v1/events, without a ring, an index, a lock or *)
(* goroutines: a log of the last MaxEvents events, to which a batch is     *)
(* appended all at once (api/openapi.yaml:57, "the batch is atomic", and   *)
(* 105, "a bounded window").                                               *)
(***************************************************************************)
EXTENDS Integers, Sequences

CONSTANTS
  MaxEvents,  \* events the log retains
  MaxBatch,   \* events one request may hold
  Event       \* what is stored for one event; an event carries a unique id

\* Both bounds are positive numbers, as the modules that instantiate this one
\* assume.
VARIABLE log  \* the retained events, oldest first

\* The last n elements of s, or all of them when s is shorter.
LastN(s, n) == IF Len(s) <= n THEN s ELSE SubSeq(s, Len(s) - n + 1, Len(s))

Init == log = <<>>

\* The batch b of one request becomes visible, in request order.
AppendBatch(b) == log' = LastN(log \o b, MaxEvents)

\* Some request's batch.  Only what the log retains of it shows, so a batch
\* that is longer than the log is named by its last MaxEvents events.
Next ==
  \E n \in 1..MaxBatch :
    LET kept  == IF n < MaxEvents THEN n ELSE MaxEvents
        batch == LastN(log', kept)
    IN  /\ Len(log') >= kept
        /\ \A i \in DOMAIN batch :
             /\ batch[i] \in Event
             /\ \A j \in DOMAIN log : log[j].id # batch[i].id
             /\ \A j \in DOMAIN batch : j # i => batch[j].id # batch[i].id
        /\ AppendBatch(batch)

Spec == Init /\ [][Next]_log
=============================================================================
