---------------------------- MODULE ProbePipeline ----------------------------
(***************************************************************************)
(* The way of an audit event through the probe: a hook of the kernel       *)
(* (crates/aegis-probe-ebpf/src/main.rs) reserves a record in the ring     *)
(* buffer, fills it and submits it; the reader converts it with what /proc *)
(* then says of its process and queues it; the forwarder sends the queue   *)
(* in batches to the agent (crates/aegis-probe/src/main.rs, event.rs).     *)
(* The kernel's ring buffer, tokio's readiness and the network are         *)
(* external: a request may be lost, refused, or answered too late, and one *)
(* that the probe gave up may still reach the agent.                       *)
(***************************************************************************)
EXTENDS Integers, Sequences, FiniteSets, SequencesExt

CONSTANTS
  Cpus,            \* CPUs that run hooks
  Pids,            \* process IDs of the host
  Containers,      \* containers of the host
  Host,            \* where a process outside containers runs
  Gone,            \* where a process that ended runs
  ContainersOnly,  \* ~opt.all_processes
  RingRoom,        \* records that EVENTS holds
  QueueLen,        \* QUEUE_LEN
  BatchSize,       \* opt.batch_size
  MaxEvents        \* bound of the model on system calls that hooks report

Places == Containers \cup {Host}

ASSUME ProbePipelineAssumption ==
  /\ Host \notin Containers
  /\ Gone \notin Places
  /\ ContainersOnly \in BOOLEAN
  /\ RingRoom \in Nat \ {0}
  /\ QueueLen \in Nat \ {0}
  /\ BatchSize \in Nat \ {0}
  /\ MaxEvents \in Nat

VARIABLES
  proc,       \* process ID -> where its process runs, or Gone
  ring,       \* EVENTS, in the order of the reservations
  cpu,        \* CPU -> the record its hook is filling, or 0
  nextId,     \* the number of the next report
  ready,      \* tokio takes the ring buffer for readable
  notified,   \* a notification came since the reader found it so
  reader,     \* where read_events is
  queue,      \* the channel between reader and forwarder
  forwarder,  \* where forward is
  batch,      \* its batch
  reply,      \* what the agent replied to the batch that is being sent
  net,        \* requests on their way to the agent
  stored,     \* what the agent stored, in order
  phase,      \* of the probe's main
  fate        \* history: report -> how the probe is done with it

kernel == <<proc, ring, cpu, nextId>>
sending == <<forwarder, batch, reply>>
vars == <<kernel, ready, notified, reader, queue, sending, net, stored, phase, fate>>

Ids == 1..MaxEvents

\* A record of EVENTS.  seen is history: where processes with its ID have run since
\* the call, the one that made it or one that got the ID after it.
Record == [id : Ids, pid : Pids, seen : SUBSET Places, usable : BOOLEAN, busy : BOOLEAN]

\* An audit event: which report it is and the container it names, or Host.
AuditEvent == [id : Ids, container : Places]

IdsOf(s) == {s[i].id : i \in DOMAIN s}

Init ==
  /\ proc \in [Pids -> Places]
  /\ ring = << >>
  /\ cpu = [c \in Cpus |-> 0]
  /\ nextId = 1
  /\ ready = FALSE
  /\ notified = FALSE
  /\ reader = "waiting"
  /\ queue = << >>
  /\ forwarder = "idle"
  /\ batch = << >>
  /\ reply = "none"
  /\ net = {}
  /\ stored = << >>
  /\ phase = "running"
  /\ fate = [i \in Ids |-> "none"]

\* The fate of the reports ids, unless something was decided about them before.
Decide(ids, what) == fate' = [i \in Ids |-> IF i \in ids THEN what ELSE fate[i]]

Running == phase # "ended"

-----------------------------------------------------------------------------
\* A hook reserves a record; when there is no room, the report is lost.  Whether
\* its data is usable is for Converter.convert to find out: not of the probe
\* itself, with a path that could be read, of a known call and family.
Reserve(c, p, usable) ==
  /\ phase = "running"
  /\ cpu[c] = 0
  /\ proc[p] # Gone
  /\ nextId \in Ids
  /\ nextId' = nextId + 1
  /\ IF Len(ring) < RingRoom
       THEN /\ ring' = Append(ring, [id |-> nextId, pid |-> p, seen |-> {proc[p]},
                                     usable |-> usable, busy |-> TRUE])
            /\ cpu' = [cpu EXCEPT ![c] = nextId]
            /\ UNCHANGED fate
       ELSE /\ Decide({nextId}, "no room in the ring")
            /\ UNCHANGED <<ring, cpu>>
  /\ UNCHANGED <<proc, ready, notified, reader, queue, sending, net, stored, phase>>

\* The hook submits the record.  The kernel notifies the reader when this is the
\* record it would read next.
Submit(c) ==
  /\ Running
  /\ cpu[c] # 0
  /\ cpu' = [cpu EXCEPT ![c] = 0]
  /\ ring' = [i \in DOMAIN ring |->
                IF ring[i].id = cpu[c] THEN [ring[i] EXCEPT !.busy = FALSE] ELSE ring[i]]
  /\ IF ring[1].id = cpu[c]
       THEN ready' = TRUE /\ notified' = TRUE
       ELSE UNCHANGED <<ready, notified>>
  /\ UNCHANGED <<proc, nextId, reader, queue, sending, net, stored, phase, fate>>

\* A process ends; its ID is free.
End(p) ==
  /\ Running
  /\ proc[p] # Gone
  /\ \A c \in Cpus : \A i \in DOMAIN ring : ring[i].id = cpu[c] => ring[i].pid # p
  /\ proc' = [proc EXCEPT ![p] = Gone]
  /\ UNCHANGED <<ring, cpu, nextId, ready, notified, reader, queue, sending, net, stored,
                 phase, fate>>

\* From now on a process with the ID p runs at place.
RunsAt(p, place) ==
  /\ proc' = [proc EXCEPT ![p] = place]
  /\ ring' = [i \in DOMAIN ring |->
                IF ring[i].pid = p THEN [ring[i] EXCEPT !.seen = @ \cup {place}] ELSE ring[i]]

\* A new process gets a free ID.
Start(p) ==
  /\ Running
  /\ proc[p] = Gone
  /\ \E place \in Places : RunsAt(p, place)
  /\ UNCHANGED <<cpu, nextId, ready, notified, reader, queue, sending, net, stored,
                 phase, fate>>

\* A process is moved to another cgroup, as a runtime does with the first process
\* of a container.
Move(p) ==
  /\ Running
  /\ proc[p] # Gone
  /\ \E place \in Places \ {proc[p]} : RunsAt(p, place)
  /\ UNCHANGED <<cpu, nextId, ready, notified, reader, queue, sending, net, stored,
                 phase, fate>>

-----------------------------------------------------------------------------
\* ring.readable_mut().await returns, with a guard.
Wake ==
  /\ Running
  /\ reader = "waiting"
  /\ ready
  /\ reader' = "draining"
  /\ notified' = FALSE
  /\ UNCHANGED <<kernel, ready, queue, sending, net, stored, phase, fate>>

\* What /proc/<pid>/cgroup says, if there is such a file: where the process that has
\* the ID now runs.
InCgroupFile(p) == {proc[p]} \ {Gone}

\* Mutation: the container found for an earlier event is taken for the next one.
Cached(r) == IF stored # << >> THEN {Last(stored).container} ELSE {Host} \cup InCgroupFile(r.pid)

\* What Converter.convert may find: that, or no container when there is no such file
\* or it cannot be read.
PlacesRead(r) == {Host} \cup InCgroupFile(r.pid)

\* Converter.convert returns an event, when /proc said place.
Keeps(r, place) == r.usable /\ (ContainersOnly => place \in Containers)

\* What becomes of an event that the queue has no room for: it is counted as
\* dropped, or, in a mutation, not even that.
Uncounted(id) == UNCHANGED fate
Dropped(id) == Decide({id}, "no room in the queue")

\* Whether try_send succeeds.
QueueHasRoom == Len(queue) < QueueLen

\* The next record was submitted.
Readable == ring # << >> /\ ~ring[1].busy

\* read_events takes the next record that was submitted, converts it and offers
\* it to the queue; a full one drops it.
Drain ==
  /\ Running
  /\ reader = "draining"
  /\ Readable
  /\ ring' = Tail(ring)
  /\ \E place \in PlacesRead(ring[1]) :
       IF ~Keeps(ring[1], place)
         THEN Decide({ring[1].id}, "not converted") /\ UNCHANGED queue
         ELSE IF QueueHasRoom
           THEN queue' = Append(queue, [id |-> ring[1].id, container |-> place])
                /\ UNCHANGED fate
           ELSE Dropped(ring[1].id) /\ UNCHANGED queue
  /\ UNCHANGED <<proc, cpu, nextId, ready, notified, reader, sending, net, stored, phase>>

\* ring.next() has nothing to return.
Drained ==
  /\ Running
  /\ reader = "draining"
  /\ ~Readable
  /\ reader' = "clearing"
  /\ UNCHANGED <<kernel, ready, notified, queue, sending, net, stored, phase, fate>>

\* The readiness that clear_ready leaves, and one that forgets what came since.
Forgotten == FALSE
LeftReady == notified

\* guard.clear_ready(), which keeps a readiness that is newer than the guard.
ClearReady ==
  /\ Running
  /\ reader = "clearing"
  /\ ready' = LeftReady
  /\ reader' = "waiting"
  /\ UNCHANGED <<kernel, notified, queue, sending, net, stored, phase, fate>>

-----------------------------------------------------------------------------
MinOf(a, b) == IF a < b THEN a ELSE b

\* recv_many: up to limit events that are in the queue.
Receive(limit) ==
  LET n == MinOf(limit, Len(queue))
  IN  /\ batch' = batch \o SubSeq(queue, 1, n)
      /\ queue' = SubSeq(queue, n + 1, Len(queue))

Closed == reader = "stopped"

\* The events a batch may still take.
Room == BatchSize - Len(batch)

\* The first events of a batch.
ReceiveFirst ==
  /\ Running
  /\ forwarder = "idle"
  /\ queue # << >>
  /\ Receive(BatchSize)
  /\ forwarder' = "filling"
  /\ UNCHANGED <<kernel, ready, notified, reader, reply, net, stored, phase, fate>>

\* More of them, until the flush interval is over.
ReceiveMore ==
  /\ Running
  /\ forwarder = "filling"
  /\ Len(batch) < BatchSize
  /\ queue # << >>
  /\ Receive(Room)
  /\ UNCHANGED <<kernel, ready, notified, reader, forwarder, reply, net, stored, phase, fate>>

\* Mutation: no flush interval.
OnlyWhenFull == Len(batch) >= BatchSize

\* When the loop that fills a batch ends.  While the queue has events the wait
\* ends with them, also after the deadline.
Due == Len(batch) >= BatchSize \/ queue = << >>

\* The batch is full, or the interval is over, or the queue is closed: it is sent.
Send ==
  /\ Running
  /\ forwarder = "filling"
  /\ Due
  /\ net' = net \cup {batch}
  /\ forwarder' = "sending"
  /\ UNCHANGED <<kernel, ready, notified, reader, queue, batch, reply, stored, phase, fate>>

\* Mutation: a request without an answer is made again.
SentAgain == net' = net \cup {batch} /\ UNCHANGED <<forwarder, batch, reply, fate>>

\* Whatever the outcome, send returns and the batch is cleared.
Over(what) ==
  /\ Decide(IdsOf(batch), what)
  /\ batch' = << >>
  /\ reply' = "none"
  /\ forwarder' = "idle"

\* What send does of a request without an answer.
Unanswered == Over("failed") /\ UNCHANGED net

\* Mutation: a reply is a success whatever its status.
AnyReply == "sent"
Outcome == reply

\* The reply of the agent.
Replied ==
  /\ Running
  /\ forwarder = "sending"
  /\ reply # "none"
  /\ Over(Outcome)
  /\ UNCHANGED <<kernel, ready, notified, reader, queue, net, stored, phase>>

\* No reply: the connection failed, or 10 s have passed.
GiveUp ==
  /\ Running
  /\ forwarder = "sending"
  /\ Unanswered
  /\ UNCHANGED <<kernel, ready, notified, reader, queue, stored, phase>>

\* Mutation: the forwarder ends as soon as the reader has.
AtOnce == TRUE
NothingQueued == queue = << >>

\* recv_many returns 0: the queue is closed and empty.
Finish ==
  /\ Running
  /\ forwarder = "idle"
  /\ Closed
  /\ NothingQueued
  /\ forwarder' = "done"
  /\ UNCHANGED <<kernel, ready, notified, reader, queue, batch, reply, net, stored, phase, fate>>

-----------------------------------------------------------------------------
\* The reply reaches the probe if it still waits for that one.
Answer(b, what) ==
  reply' = IF forwarder = "sending" /\ batch = b /\ Running THEN what ELSE reply

\* The agent stores a batch, all of it, or refuses it as a whole.
Accept(b) ==
  /\ b \in net
  /\ net' = net \ {b}
  /\ stored' = stored \o b
  /\ Answer(b, "sent")
  /\ UNCHANGED <<kernel, ready, notified, reader, queue, forwarder, batch, phase, fate>>

Refuse(b) ==
  /\ b \in net
  /\ net' = net \ {b}
  /\ Answer(b, "refused")
  /\ UNCHANGED <<kernel, ready, notified, reader, queue, forwarder, batch, stored, phase, fate>>

\* A request that does not arrive.
Lose(b) ==
  /\ b \in net
  /\ net' = net \ {b}
  /\ UNCHANGED <<kernel, ready, notified, reader, queue, sending, stored, phase, fate>>

-----------------------------------------------------------------------------
\* A signal: the programs are detached, and the reader is to stop.
Terminate ==
  /\ phase = "running"
  /\ phase' = "stopping"
  /\ UNCHANGED <<kernel, ready, notified, reader, queue, sending, net, stored, fate>>

\* reader.abort() takes effect where the reader awaits.
Abort ==
  /\ phase = "stopping"
  /\ reader = "waiting"
  /\ reader' = "stopped"
  /\ UNCHANGED <<kernel, ready, notified, queue, sending, net, stored, phase, fate>>

\* main returns when the forwarder is done.
EndInOrder ==
  /\ phase = "stopping"
  /\ forwarder = "done"
  /\ phase' = "ended"
  /\ UNCHANGED <<kernel, ready, notified, reader, queue, sending, net, stored, fate>>

\* Or at once: 5 s have passed, or the reader failed.
EndAnyway ==
  /\ phase = "stopping" \/ (phase = "running" /\ reader = "waiting")
  /\ phase' = "ended"
  /\ UNCHANGED <<kernel, ready, notified, reader, queue, sending, net, stored, fate>>

Reading == Wake \/ Drain \/ Drained \/ ClearReady
Forwarding == ReceiveFirst \/ ReceiveMore \/ Send \/ Replied \/ GiveUp \/ Finish

Next ==
  \/ \E c \in Cpus : Submit(c) \/ \E p \in Pids, usable \in BOOLEAN : Reserve(c, p, usable)
  \/ \E p \in Pids : End(p) \/ Start(p) \/ Move(p)
  \/ Wake \/ Drain \/ Drained \/ ClearReady
  \/ ReceiveFirst \/ ReceiveMore \/ Send \/ Replied \/ GiveUp \/ Finish
  \/ \E b \in net : Accept(b) \/ Refuse(b) \/ Lose(b)
  \/ Terminate \/ Abort \/ EndInOrder \/ EndAnyway

Spec == Init /\ [][Next]_vars

\* A hook runs to its end, tokio schedules both tasks, and a request and the
\* wait for a batch have their timeouts.
FairSpec ==
  Spec /\ (\A c \in Cpus : WF_vars(Submit(c))) /\ WF_vars(Reading) /\ WF_vars(Forwarding)

-----------------------------------------------------------------------------
\* Every variable is in its type; the ring, the queue and the batch stay within
\* their sizes.
TypeOK ==
  /\ proc \in [Pids -> Places \cup {Gone}]
  /\ ring \in Seq(Record) /\ Len(ring) <= RingRoom
  /\ cpu \in [Cpus -> Ids \cup {0}]
  /\ nextId \in 1..MaxEvents + 1
  /\ ready \in BOOLEAN
  /\ notified \in BOOLEAN
  /\ reader \in {"waiting", "draining", "clearing", "stopped"}
  /\ queue \in Seq(AuditEvent) /\ Len(queue) <= QueueLen
  /\ forwarder \in {"idle", "filling", "sending", "done"}
  /\ batch \in Seq(AuditEvent) /\ Len(batch) <= BatchSize
  /\ reply \in {"none", "sent", "refused"}
  /\ \A b \in net : b \in Seq(AuditEvent) /\ Len(b) \in 1..BatchSize
  /\ stored \in Seq(AuditEvent)
  /\ phase \in {"running", "stopping", "ended"}
  /\ fate \in [Ids -> {"none", "no room in the ring", "not converted", "no room in the queue",
                       "sent", "refused", "failed"}]

\* The reports in each place of the probe.
Held == [ring |-> IdsOf(ring), queue |-> IdsOf(queue), batch |-> IdsOf(batch)]

\* What a hook reported is in one place of the probe, or it left it for one reason:
\* no room in the ring buffer or not converted, which no counter of the probe tells
\* of, or dropped, sent, refused or failed, which it counts or logs.  No task loses
\* or doubles a report between two of its steps.
NothingVanishes ==
  \A id \in 1..nextId - 1 :
    LET places == {p \in DOMAIN Held : id \in Held[p]}
    IN  Cardinality(places) = IF fate[id] = "none" THEN 1 ELSE 0

\* The agent stores an event once at most, as failed batches are dropped and
\* not sent again (main.rs:260-261), and in the order of the ring buffer, but
\* for events of a batch that the probe gave up and that arrived late.
StoredOnceInOrder ==
  \A i, j \in DOMAIN stored : i < j =>
    /\ stored[i].id # stored[j].id
    /\ stored[i].id < stored[j].id \/ fate[stored[j].id] = "failed"

\* What the probe takes for sent is stored, and what it takes for refused, or
\* drops before it sends, never is.
FateIsTrue ==
  \A id \in Ids :
    /\ fate[id] = "sent" => id \in IdsOf(stored)
    /\ fate[id] \notin {"none", "sent", "failed"} =>
         id \notin IdsOf(stored) /\ \A b \in net : id \notin IdsOf(b)

\* When the probe stops in order, "the forwarder sends the events left in"
\* the queue (main.rs:149-150): only what is still in the ring buffer is lost
\* without a trace.
StopSendsTheQueue ==
  phase = "ended" /\ forwarder = "done" =>
    \A id \in 1..nextId - 1 : fate[id] = "none" => id \in IdsOf(ring)

\* /proc is read after the call, when the process may have ended or moved, or its ID
\* be another's (event.rs:175-178).  What an event then names is a container in which
\* a process with that ID has run since the call, or none: of a process that neither
\* ended nor moved it never names another container than that of the call, and
\* without --all-processes nothing is queued of one that runs on the host.
NamedWhereItRan ==
  [][\A r \in {ring[i] : i \in DOMAIN ring} :
       r.id \notin IdsOf(ring') =>
         \/ UNCHANGED queue
         \/ \E place \in r.seen \cup {Host} :
              /\ queue' = Append(queue, [id |-> r.id, container |-> place])
              /\ ContainersOnly => place \in Containers]_vars

\* A submitted record does not stay in the ring buffer of a running probe: no
\* notification is lost between the last look at the ring buffer and the wait.
SubmittedIsRead ==
  \A id \in Ids :
    (\E i \in DOMAIN ring : ring[i].id = id /\ ~ring[i].busy)
      ~> (id \notin IdsOf(ring) \/ phase # "running")

\* A queued event does not stay in the probe: a batch that does not fill up is
\* sent all the same, and no request holds the forwarder for ever.
QueuedIsSent ==
  \A id \in Ids : id \in IdsOf(queue) ~> (fate[id] # "none" \/ phase = "ended")
=============================================================================
