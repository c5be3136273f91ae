----------------------------- MODULE AgentStore -----------------------------
(***************************************************************************)
(* The store of the control plane, internal/agent/agent.go: the ring of    *)
(* recent events with its index by ID, and the remediations with their     *)
(* index by (rule, container).  Ingest is the only writer.  It validates a *)
(* batch before it takes a.mu, then runs over the batch and, for each      *)
(* event, over the rules, all under the mutex: one action per iteration.   *)
(* Readers take the read lock, so they see the store only when no Ingest   *)
(* holds the mutex (Visible); they change nothing and are operators.       *)
(***************************************************************************)
EXTENDS Integers, Sequences, FiniteSets, Functions

CONSTANTS
  MaxEvents,        \* Config.MaxEvents: the slots of the ring
  MaxRemediations,  \* Config.MaxRemediations
  MaxBatch,         \* maxBatch of http.go: events in one request
  MaxIngested,      \* bound of the model on the events of all requests
  Ingesters,        \* goroutines serving POST /v1/events
  Nobody,           \* the owner of an unlocked mutex
  Containers,       \* container IDs
  NoContainer,      \* the container of a host process
  Resolvable,       \* containers of this node's pods, which the Enricher may know
  NumRules,         \* the rules, in the order of Config.Rules
  RuleClasses,      \* rule -> classes of events it matches
  RuleSeverity,     \* rule -> rank of its severity
  Inputs            \* events a request may hold

Rules == 1..NumRules

\* Events.Severity ranks: info is 0.
Severities == 0..4

Classes == UNION {RuleClasses[r] : r \in Rules} \cup {i.class : i \in Inputs}

\* An event as it arrives: what the rules tell apart of it, its container, its
\* time, whether its container already names its pod, and whether it passes
\* AuditEvent.Validate.
InputSpace ==
  [class : Classes, container : Containers \cup {NoContainer}, time : Int,
   named : BOOLEAN, valid : BOOLEAN]

ASSUME AgentStoreAssumption ==
  /\ MaxEvents \in Nat \ {0}
  /\ MaxRemediations \in Nat \ {0}
  /\ MaxBatch \in Nat \ {0}
  /\ MaxIngested \in Nat
  /\ Nobody \notin Ingesters
  /\ NoContainer \notin Containers
  /\ Resolvable \subseteq Containers
  /\ NumRules \in Nat
  /\ RuleSeverity \in [Rules -> Severities]
  /\ Inputs \subseteq InputSpace

VARIABLES
  ring,     \* a.ring: slot -> event
  head,     \* a.head: the next slot to write
  stored,   \* a.stored: slots in use
  byID,     \* a.byID: event ID -> slot
  rems,     \* a.rems: remediation ID -> remediation
  remFor,   \* a.remFor: key -> ID of the remediation it points to
  nextID,   \* the IDs newID has not returned yet
  known,    \* containers whose pod the Enricher resolves
  mutex,    \* owner of a.mu
  cur,      \* the event the owner is classifying, or NoEvent
  rule,     \* the rule the owner tries next
  pc,       \* ingester -> where its request is
  batch,    \* ingester -> its request's events
  ids,      \* ingester -> IDs given to its events so far
  arrived   \* history: every event ever stored, oldest first

store   == <<ring, head, stored, byID>>
remVars == <<rems, remFor>>
loop    == <<cur, rule>>
request == <<pc, batch>>
vars    == <<store, remVars, nextID, known, mutex, loop, request, ids, arrived>>

NoEvent == [id |-> -1]

Event ==
  [id : Nat, class : Classes, container : Containers \cup {NoContainer},
   time : Int, named : BOOLEAN, severity : Severities]

Keys == Rules \X Containers

Remediation ==
  [key : Keys, named : BOOLEAN, event : Nat, occurrences : Nat \ {0},
   first : Int, last : Int]

\* f with x mapped to y (a Go map assignment).
Put(f, x, y) == [z \in DOMAIN f \cup {x} |-> IF z = x THEN y ELSE f[z]]

\* f without x (Go's delete).
Delete(f, x) == Restrict(f, DOMAIN f \ {x})

EmptyMap == [x \in {} |-> x]

\* The events of the requests in flight, which the ring will receive.
InFlight ==
  {p \in Ingesters \X (1..MaxBatch) : Len(ids[p[1]]) < p[2] /\ p[2] <= Len(batch[p[1]])}

-----------------------------------------------------------------------------
Init ==
  /\ ring = [s \in 0..MaxEvents - 1 |-> NoEvent]
  /\ head = 0
  /\ stored = 0
  /\ byID = EmptyMap
  /\ rems = EmptyMap
  /\ remFor = EmptyMap
  /\ nextID = 0
  /\ known \in SUBSET Resolvable
  /\ mutex = Nobody
  /\ cur = NoEvent
  /\ rule = 1
  /\ pc = [w \in Ingesters |-> "idle"]
  /\ batch = [w \in Ingesters |-> <<>>]
  /\ ids = [w \in Ingesters |-> <<>>]
  /\ arrived = <<>>

\* Whether Ingest accepts a batch, and a version that looks at its first event
\* only.
AcceptsFirst(b) == b[1].valid
Accepts(b) == \A i \in DOMAIN b : b[i].valid

\* A request arrives and Ingest validates every event of it before the mutex:
\* one invalid event rejects them all.
Validate(w) ==
  /\ pc[w] = "idle"
  /\ \E n \in 1..MaxBatch :
       /\ Len(arrived) + Cardinality(InFlight) + n <= MaxIngested
       /\ \E b \in [1..n -> Inputs] :
            /\ batch' = [batch EXCEPT ![w] = b]
            /\ pc' = [pc EXCEPT ![w] = IF Accepts(b) THEN "waiting" ELSE "rejected"]
  /\ UNCHANGED <<store, remVars, nextID, known, mutex, loop, ids, arrived>>

\* a.mu.Lock()
Lock(w) ==
  /\ pc[w] = "waiting"
  /\ mutex = Nobody
  /\ mutex' = w
  /\ pc' = [pc EXCEPT ![w] = "ingesting"]
  /\ UNCHANGED <<store, remVars, nextID, known, loop, batch, ids, arrived>>

\* enrichLocked: whether an event names its pod, as the probe named it or the
\* Enricher knows its container.
Enriched(ev) == ev.named \/ ev.container \in known

\* The next event of the batch gets its ID, the lowest severity and its pod.
Begin(w) ==
  /\ mutex = w
  /\ cur = NoEvent
  /\ Len(ids[w]) < Len(batch[w])
  /\ LET ev == batch[w][Len(ids[w]) + 1]
     IN  cur' = [id |-> nextID, class |-> ev.class, container |-> ev.container,
                 time |-> ev.time, named |-> Enriched(ev),
                 severity |-> 0]
  /\ nextID' = nextID + 1
  /\ rule' = 1
  /\ UNCHANGED <<store, remVars, known, mutex, request, ids, arrived>>

\* Rule.Matches.  Every rule requires a container (rules.go), so the check of
\* the container that Ingest makes before recordLocked always passes.
Matches(r, ev) == ev.container # NoContainer /\ ev.class \in RuleClasses[r]

LastWritten(a, b) == b
LaterOf(a, b) == IF b > a THEN b ELSE a
EarlierOf(a, b) == IF b < a THEN b ELSE a

\* The remediation a match opens, and one more occurrence of an open one.
Opened(r, ev) ==
  [key |-> <<r, ev.container>>, named |-> ev.named, event |-> ev.id,
   occurrences |-> 1, first |-> ev.time, last |-> ev.time]

Recurred(rem, ev) ==
  [rem EXCEPT !.occurrences = @ + 1,
              !.first = EarlierOf(@, ev.time),
              !.last = LaterOf(@, ev.time)]

\* The cap, and an off-by-one of it.
BeyondCap == Cardinality(DOMAIN rems) > MaxRemediations
AtCap == Cardinality(DOMAIN rems) >= MaxRemediations

\* evictRemediationLocked may choose any of these: it iterates over a map, and
\* keeps the first of the least recently seen.
Oldest == {id \in DOMAIN rems : \A other \in DOMAIN rems : rems[id].last <= rems[other].last}

\* a.remFor once old is evicted, and when the eviction forgets to clear it.
KeepKeyOf(old) == remFor
DropKeyOf(old) == Delete(remFor, rems[old].key)

\* recordLocked
Record(r, ev) ==
  LET key == <<r, ev.container>>
  IN  \/ /\ key \in DOMAIN remFor
         /\ rems' = [rems EXCEPT ![remFor[key]] = Recurred(@, ev)]
         /\ UNCHANGED <<remFor, nextID>>
      \/ /\ key \notin DOMAIN remFor
         /\ ~AtCap
         /\ rems' = Put(rems, nextID, Opened(r, ev))
         /\ remFor' = Put(remFor, key, nextID)
         /\ nextID' = nextID + 1
      \/ /\ key \notin DOMAIN remFor
         /\ AtCap
         /\ \E old \in Oldest :
              /\ rems' = Put(Delete(rems, old), nextID, Opened(r, ev))
              /\ remFor' = Put(DropKeyOf(old), key, nextID)
         /\ nextID' = nextID + 1

\* One iteration of the loop over the rules.
Classify(w) ==
  /\ mutex = w
  /\ cur # NoEvent
  /\ rule \in Rules
  /\ rule' = rule + 1
  /\ \/ /\ ~Matches(rule, cur)
        /\ UNCHANGED <<remVars, nextID, cur>>
     \/ /\ Matches(rule, cur)
        /\ cur' = [cur EXCEPT !.severity = IF RuleSeverity[rule] > @ THEN RuleSeverity[rule] ELSE @]
        /\ Record(rule, cur)
  /\ UNCHANGED <<store, known, mutex, request, ids, arrived>>

\* The slot after head, and one that forgets to wrap.
SlotBeyond == head + 1
NextSlot == (head + 1) % MaxEvents

\* a.byID without the event that the full ring is about to overwrite, and one
\* that keeps it.
WithOverwritten == byID
WithoutOverwritten == Delete(byID, ring[head].id)

\* storeLocked, and the ID goes to the reply.
Store(w) ==
  /\ mutex = w
  /\ cur # NoEvent
  /\ rule \notin Rules
  /\ IF stored = MaxEvents
       THEN /\ byID' = Put(WithoutOverwritten, cur.id, head)
            /\ UNCHANGED stored
       ELSE /\ byID' = Put(byID, cur.id, head)
            /\ stored' = stored + 1
  /\ ring' = [ring EXCEPT ![head] = cur]
  /\ head' = NextSlot
  /\ ids' = [ids EXCEPT ![w] = Append(@, cur.id)]
  /\ arrived' = Append(arrived, cur)
  /\ cur' = NoEvent
  /\ UNCHANGED <<remVars, nextID, known, mutex, rule, request>>

\* a.mu.Unlock(): the batch is stored.  What Ingest does next, publishing to
\* the hub and starting the responder, is in LiveStream and DecoyResponder.
Unlock(w) ==
  /\ mutex = w
  /\ cur = NoEvent
  /\ Len(ids[w]) = Len(batch[w])
  /\ mutex' = Nobody
  /\ pc' = [pc EXCEPT ![w] = "replied"]
  /\ UNCHANGED <<store, remVars, nextID, known, loop, batch, ids, arrived>>

\* The handler returns; the goroutine serves another request.
Return(w) ==
  /\ pc[w] \in {"replied", "rejected"}
  /\ pc' = [pc EXCEPT ![w] = "idle"]
  /\ batch' = [batch EXCEPT ![w] = <<>>]
  /\ ids' = [ids EXCEPT ![w] = <<>>]
  /\ UNCHANGED <<store, remVars, nextID, known, mutex, loop, arrived>>

\* The pod cache is refreshed: it resolves another set of containers.
RefreshPods ==
  /\ known' \in SUBSET Resolvable
  /\ UNCHANGED <<store, remVars, nextID, mutex, loop, request, ids, arrived>>

Next ==
  \/ \E w \in Ingesters :
       \/ Validate(w) \/ Lock(w) \/ Begin(w) \/ Classify(w)
       \/ Store(w) \/ Unlock(w) \/ Return(w)
  \/ RefreshPods

Spec == Init /\ [][Next]_vars

-----------------------------------------------------------------------------
\* The ring slot of the i-th newest event, as Events computes it, and with the
\* events stored taken for the slots.
SlotOfStored(i) == (head - i + stored) % MaxEvents
Slot(i) == (head - i + MaxEvents) % MaxEvents

\* What the ring holds, oldest first.
Contents == [i \in 1..stored |-> ring[Slot(stored + 1 - i)]]

\* Readers hold the read lock, so this is when they look.
Visible == mutex = Nobody

\* Everything the variables may hold.
TypeOK ==
  /\ ring \in [0..MaxEvents - 1 -> Event \cup {NoEvent}]
  /\ head \in 0..MaxEvents - 1
  /\ stored \in 0..MaxEvents
  /\ DOMAIN byID \subseteq Nat /\ byID \in [DOMAIN byID -> 0..MaxEvents - 1]
  /\ DOMAIN rems \subseteq Nat /\ rems \in [DOMAIN rems -> Remediation]
  /\ DOMAIN remFor \subseteq Keys /\ remFor \in [DOMAIN remFor -> Nat]
  /\ nextID \in Nat
  /\ known \subseteq Resolvable
  /\ mutex \in Ingesters \cup {Nobody}
  /\ cur \in Event \cup {NoEvent}
  /\ rule \in 1..NumRules + 1
  /\ pc \in [Ingesters -> {"idle", "waiting", "ingesting", "replied", "rejected"}]
  /\ batch \in [Ingesters -> Seq(Inputs)]
  /\ ids \in [Ingesters -> Seq(Nat)]
  /\ arrived \in Seq(Event)

\* The ring, read backwards from head as GET /v1/events reads it, holds
\* exactly the latest MaxEvents events in the order Ingest stored them,
\* through every wrap of the ring (api/openapi.yaml:105).
HoldsTheLatest ==
  /\ stored = (IF Len(arrived) < MaxEvents THEN Len(arrived) ELSE MaxEvents)
  /\ Contents = SubSeq(arrived, Len(arrived) - stored + 1, Len(arrived))

\* GET /v1/events/{id} finds exactly the events GET /v1/events lists, and the
\* slot it reads holds the event of that ID: no entry of byID outlives the
\* overwriting of its slot.
IndexMatchesRing ==
  /\ DOMAIN byID = {Contents[i].id : i \in 1..stored}
  /\ \A id \in DOMAIN byID : ring[byID[id]].id = id

\* a.rems and a.remFor index the same remediations: one per rule and
\* container, so an eviction leaves no pointer behind that would swallow later
\* matches.
OneRemediationPerKey ==
  /\ \A key \in DOMAIN remFor :
       remFor[key] \in DOMAIN rems /\ rems[remFor[key]].key = key
  /\ \A id \in DOMAIN rems :
       rems[id].key \in DOMAIN remFor /\ remFor[rems[id].key] = id

\* The remediations stay within Config.MaxRemediations.
RemediationsBounded == Cardinality(DOMAIN rems) <= MaxRemediations

\* The stored events that rem aggregates: those of its container that its rule
\* matched since it was opened.
Aggregated(rem) ==
  {i \in DOMAIN arrived : /\ arrived[i].id >= rem.event
                          /\ arrived[i].container = rem.key[2]
                          /\ Matches(rem.key[1], arrived[i])}

\* A remediation a reader sees counts every match since it was opened, points to
\* the event that opened it and names its pod just if that event does, and spans
\* exactly the times of those matches, whatever the order of the times, of the
\* evictions and of the refreshes of the pod cache (api/openapi.yaml:148-150).
RemediationSumsItsMatches ==
  Visible => \A id \in DOMAIN rems :
    LET rem == rems[id]
        hits == Aggregated(rem)
    IN  /\ rem.occurrences = Cardinality(hits)
        /\ \E i \in hits : arrived[i].id = rem.event /\ arrived[i].named = rem.named
        /\ \A i \in hits : rem.first <= arrived[i].time /\ arrived[i].time <= rem.last
        /\ \E i \in hits : arrived[i].time = rem.first
        /\ \E i \in hits : arrived[i].time = rem.last

\* The reply lists the IDs of all of the batch in request order, and those
\* events stand next to each other in the log; a rejected batch left nothing
\* behind (api/openapi.yaml:57-58 and 656).
AllOrNothing ==
  \A w \in Ingesters :
    /\ pc[w] = "replied" =>
         /\ Len(ids[w]) = Len(batch[w])
         /\ \E at \in 0..Len(arrived) - Len(ids[w]) :
              \A i \in DOMAIN ids[w] :
                /\ arrived[at + i].id = ids[w][i]
                /\ arrived[at + i].class = batch[w][i].class
                /\ arrived[at + i].container = batch[w][i].container
                /\ arrived[at + i].time = batch[w][i].time
                /\ batch[w][i].valid
    /\ pc[w] = "rejected" => ids[w] = <<>> /\ \E i \in DOMAIN batch[w] : ~batch[w][i].valid

-----------------------------------------------------------------------------
\* What readers can tell of the log: while an Ingest holds the mutex they still
\* wait, so its events do not show yet.
VisibleLog ==
  IF Visible THEN Contents
  ELSE LET before == SubSeq(arrived, 1, Len(arrived) - Len(ids[mutex]))
       IN  IF Len(before) <= MaxEvents THEN before
           ELSE SubSeq(before, Len(before) - MaxEvents + 1, Len(before))

Log == INSTANCE EventLog WITH log <- VisibleLog

\* The store implements EventLog: to its readers, each batch is appended to a
\* log of MaxEvents events in one step.
ImplementsEventLog == Log!Spec
=============================================================================
