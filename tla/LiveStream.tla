----------------------------- MODULE LiveStream -----------------------------
(***************************************************************************)
(* The live stream of internal/agent/stream.go.  Goroutines that ran       *)
(* Ingest publish what they stored, outside the lock, to the hub; the hub  *)
(* fans each event out to the channels of its subscribers; the handler of  *)
(* each GET /v1/stream writes what its channel holds to its WebSocket.     *)
(* The store is EventLog, which AgentStore implements.                     *)
(***************************************************************************)
EXTENDS Integers, Sequences, FiniteSets

CONSTANTS
  MaxEvents,         \* events the store retains
  MaxBatch,          \* events in one request
  MaxIngested,       \* bound of the model on the events of all requests
  Ingesters,         \* goroutines serving POST /v1/events
  Subscribers,       \* WebSocket connections, each one used once
  IncomingBuffer,    \* capacity of hub.incoming
  SubscriberBuffer   \* subscriberBuffer

ASSUME LiveStreamAssumption ==
  /\ MaxEvents \in Nat \ {0}
  /\ MaxBatch \in Nat \ {0}
  /\ MaxIngested \in Nat
  /\ IncomingBuffer \in Nat \ {0}
  /\ SubscriberBuffer \in Nat \ {0}

VARIABLES
  log,        \* the store, as its readers see it
  nextID,     \* the next event's ID; IDs grow in the order of storing
  outbox,     \* ingester -> events it stored and has not published yet
  incoming,   \* hub.incoming
  fan,        \* the event the hub is fanning out and the channels left, or NoFan
  subs,       \* subscribers: the connections whose channel the hub holds
  chan,       \* connection -> what its channel buffers
  closed,     \* connections whose channel is closed
  handler,    \* connection -> where its handler is
  writing,    \* connection -> the event its handler is writing
  failing,    \* connections whose client closed, died or reads no more
  fanned,     \* history: the events the hub took, in order
  joinedAt,   \* history: connection -> Len(fanned) when the hub added it
  dropped,    \* history: connection -> events the hub dropped for it
  delivered   \* history: connection -> events its client received, in order

ingest  == <<log, nextID, outbox>>
hubVars == <<fan, subs, fanned>>
vars    == <<ingest, incoming, hubVars, chan, closed, handler, writing, failing,
             joinedAt, dropped, delivered>>

Event == [id : 1..MaxIngested]
NoEvent == [id |-> 0]
NoFan == [event |-> NoEvent, todo |-> {}]

Store == INSTANCE EventLog

Init ==
  /\ Store!Init
  /\ nextID = 1
  /\ outbox = [g \in Ingesters |-> <<>>]
  /\ incoming = <<>>
  /\ fan = NoFan
  /\ subs = {}
  /\ chan = [s \in Subscribers |-> <<>>]
  /\ closed = {}
  /\ handler = [s \in Subscribers |-> "none"]
  /\ writing = [s \in Subscribers |-> NoEvent]
  /\ failing = {}
  /\ fanned = <<>>
  /\ joinedAt = [s \in Subscribers |-> 0]
  /\ dropped = [s \in Subscribers |-> {}]
  /\ delivered = [s \in Subscribers |-> <<>>]

-----------------------------------------------------------------------------
\* Ingest's effect on the store, and an Ingest that publishes what it does not
\* store.
CommitNothing(b) == UNCHANGED log
Commit(b) == Store!AppendBatch(b)

\* Ingest stores a batch; the goroutine still holds it to publish it.
Ingest(g) ==
  /\ outbox[g] = <<>>
  /\ \E n \in 1..MaxBatch :
       /\ nextID + n - 1 <= MaxIngested
       /\ LET b == [i \in 1..n |-> [id |-> nextID + i - 1]]
          IN  /\ Commit(b)
              /\ outbox' = [outbox EXCEPT ![g] = b]
       /\ nextID' = nextID + n
  /\ UNCHANGED <<incoming, hubVars, chan, closed, handler, writing, failing,
                 joinedAt, dropped, delivered>>

\* A select with a default is always ready; without it, it would wait for room.
WaitsForRoom(buffer, capacity) == Len(buffer) < capacity
Ready(buffer, capacity) == TRUE

\* Whether a buffer takes one more value.
HasRoom(buffer, capacity) == Len(buffer) < capacity

\* The send of such a select: a full buffer drops the new value, not the oldest.
OfferDroppingOldest(buffer, capacity, ev) ==
  Append(IF HasRoom(buffer, capacity) THEN buffer ELSE Tail(buffer), ev)
Offer(buffer, capacity, ev) ==
  IF HasRoom(buffer, capacity) THEN Append(buffer, ev) ELSE buffer

\* hub.publish of the next event, outside the lock.
Publish(g) ==
  /\ outbox[g] # <<>>
  /\ Ready(incoming, IncomingBuffer)
  /\ incoming' = Offer(incoming, IncomingBuffer, Head(outbox[g]))
  /\ outbox' = [outbox EXCEPT ![g] = Tail(@)]
  /\ UNCHANGED <<log, nextID, hubVars, chan, closed, handler, writing, failing,
                 joinedAt, dropped, delivered>>

-----------------------------------------------------------------------------
\* The hub's goroutine.  It is at its select when it fans nothing out; a hub
\* whose set another goroutine changes would not wait for that.
EvenWhileFanningOut == TRUE
Selecting == fan = NoFan

\* It takes an event and starts to range over its subscribers.
Take ==
  /\ Selecting
  /\ incoming # <<>>
  /\ incoming' = Tail(incoming)
  /\ fan' = IF subs = {} THEN NoFan ELSE [event |-> Head(incoming), todo |-> subs]
  /\ fanned' = Append(fanned, Head(incoming))
  /\ UNCHANGED <<ingest, subs, chan, closed, handler, writing, failing,
                 joinedAt, dropped, delivered>>

\* It sends the event to one of them, or drops it for a full channel.
Send(s) ==
  /\ s \in fan.todo
  /\ Ready(chan[s], SubscriberBuffer)
  /\ chan' = [chan EXCEPT ![s] = Offer(@, SubscriberBuffer, fan.event)]
  /\ dropped' = IF HasRoom(chan[s], SubscriberBuffer) THEN dropped
                ELSE [dropped EXCEPT ![s] = @ \cup {fan.event}]
  /\ fan' = IF fan.todo = {s} THEN NoFan ELSE [fan EXCEPT !.todo = @ \ {s}]
  /\ UNCHANGED <<ingest, incoming, subs, fanned, closed, handler, writing, failing,
                 joinedAt, delivered>>

\* hub.add and the hub's case for it: an unbuffered channel, so both move.
Add(s) ==
  /\ Selecting
  /\ handler[s] = "adding"
  /\ subs' = subs \cup {s}
  /\ handler' = [handler EXCEPT ![s] = "streaming"]
  /\ joinedAt' = [joinedAt EXCEPT ![s] = Len(fanned)]
  /\ UNCHANGED <<ingest, incoming, fan, fanned, chan, closed, writing, failing,
                 dropped, delivered>>

\* hub.remove and the hub's case for it: a channel it holds is closed.
Remove(s) ==
  /\ Selecting
  /\ handler[s] = "removing"
  /\ subs' = subs \ {s}
  /\ closed' = IF s \in subs THEN closed \cup {s} ELSE closed
  /\ handler' = [handler EXCEPT ![s] = "done"]
  /\ UNCHANGED <<ingest, incoming, fan, fanned, chan, writing, failing,
                 joinedAt, dropped, delivered>>

-----------------------------------------------------------------------------
\* streamEvents accepted the WebSocket: from the client's side, it is open.
Accept(s) ==
  /\ handler[s] = "none"
  /\ handler' = [handler EXCEPT ![s] = "adding"]
  /\ UNCHANGED <<ingest, incoming, hubVars, chan, closed, writing, failing,
                 joinedAt, dropped, delivered>>

\* The handler's select finds an event in its channel, and starts to write it.
\* Its branch for a closed channel has no step here: HandlerOwnsItsChannel.
Receive(s) ==
  /\ handler[s] = "streaming"
  /\ chan[s] # <<>>
  /\ writing' = [writing EXCEPT ![s] = Head(chan[s])]
  /\ chan' = [chan EXCEPT ![s] = Tail(@)]
  /\ handler' = [handler EXCEPT ![s] = "writing"]
  /\ UNCHANGED <<ingest, incoming, hubVars, closed, failing, joinedAt, dropped, delivered>>

\* The write ends: the client has the event, or, after at most 10 s, it failed.
Written(s) ==
  /\ handler[s] = "writing"
  /\ delivered' = [delivered EXCEPT ![s] = Append(@, writing[s])]
  /\ writing' = [writing EXCEPT ![s] = NoEvent]
  /\ handler' = [handler EXCEPT ![s] = "streaming"]
  /\ UNCHANGED <<ingest, incoming, hubVars, chan, closed, failing, joinedAt, dropped>>

WriteFails(s) ==
  /\ handler[s] = "writing"
  /\ s \in failing
  /\ writing' = [writing EXCEPT ![s] = NoEvent]
  /\ handler' = [handler EXCEPT ![s] = "removing"]
  /\ UNCHANGED <<ingest, incoming, hubVars, chan, closed, failing,
                 joinedAt, dropped, delivered>>

\* When the handler finds its client gone: the context of the connection is
\* done, or a ping was not answered.  One that did neither, and one whose
\* connection is ended for another reason.
NeverNoticed(s) == FALSE
EndedByTheServer(s) == TRUE
Noticed(s) == s \in failing

Leave(s) ==
  /\ handler[s] = "streaming"
  /\ Noticed(s)
  /\ handler' = [handler EXCEPT ![s] = "removing"]
  /\ UNCHANGED <<ingest, incoming, hubVars, chan, closed, writing, failing,
                 joinedAt, dropped, delivered>>

\* The client closes the socket, dies, or stops reading for good.
ClientFails(s) ==
  /\ handler[s] # "none"
  /\ s \notin failing
  /\ failing' = failing \cup {s}
  /\ UNCHANGED <<ingest, incoming, hubVars, chan, closed, handler, writing,
                 joinedAt, dropped, delivered>>

-----------------------------------------------------------------------------
Next ==
  \/ \E g \in Ingesters : Ingest(g) \/ Publish(g)
  \/ Take
  \/ \E s \in Subscribers :
       \/ Send(s) \/ Add(s) \/ Remove(s) \/ Accept(s) \/ Receive(s)
       \/ Written(s) \/ WriteFails(s) \/ Leave(s) \/ ClientFails(s)

Spec == Init /\ [][Next]_vars

\* A goroutine that publishes is scheduled again.
FairSpec == Spec /\ \A g \in Ingesters : WF_vars(Publish(g))

\* So is the hub's.  A rendezvous with it competes in its select with other
\* cases, of which the runtime picks one at random.
HubFairness ==
  /\ SF_vars(Take)
  /\ \A s \in Subscribers : WF_vars(Send(s)) /\ SF_vars(Add(s)) /\ SF_vars(Remove(s))

\* And a handler: a write takes at most its 10 s, and a client that failed is
\* noticed by CloseRead or by the ping every 30 s.
HandlerFairness ==
  \A s \in Subscribers :
    /\ SF_vars(Receive(s))
    /\ WF_vars(Written(s) \/ WriteFails(s))
    /\ SF_vars(Leave(s))

-----------------------------------------------------------------------------
Seen == {"streaming", "writing", "removing"}

\* Everything the variables may hold.
TypeOK ==
  /\ log \in Seq(Event) /\ Len(log) <= MaxEvents
  /\ nextID \in 1..MaxIngested + 1
  /\ outbox \in [Ingesters -> Seq(Event)] /\ \A g \in Ingesters : Len(outbox[g]) <= MaxBatch
  /\ incoming \in Seq(Event) /\ Len(incoming) <= IncomingBuffer
  /\ fan \in [event : Event \cup {NoEvent}, todo : SUBSET Subscribers]
  /\ subs \subseteq Subscribers
  /\ chan \in [Subscribers -> Seq(Event)]
  /\ \A s \in Subscribers : Len(chan[s]) <= SubscriberBuffer
  /\ closed \subseteq Subscribers
  /\ handler \in [Subscribers -> {"none", "adding", "done"} \cup Seen]
  /\ writing \in [Subscribers -> Event \cup {NoEvent}]
  /\ failing \subseteq Subscribers
  /\ fanned \in Seq(Event)
  /\ joinedAt \in [Subscribers -> Nat]
  /\ dropped \in [Subscribers -> SUBSET Event]
  /\ delivered \in [Subscribers -> Seq(Event)]

\* The hub never sends on a closed channel, which would end the process, and
\* closes each once: it holds exactly the channels of the handlers between
\* hub.add and hub.remove, and only a handler that has left has a closed one
\* (so the branch of stream.go:101-103 is never taken).
HandlerOwnsItsChannel ==
  /\ \A s \in Subscribers :
       /\ s \in subs <=> handler[s] \in Seen
       /\ s \in closed => handler[s] = "done"
  /\ fan.todo \subseteq subs

\* The places in fanned of what the hub took since it added s, up to the event it is
\* sending to s.
SinceJoined(s) ==
  joinedAt[s] + 1 .. (IF s \in fan.todo THEN Len(fanned) - 1 ELSE Len(fanned))

\* What the client of s received or will receive, unless it fails.
Received(s) ==
  delivered[s] \o (IF handler[s] = "writing" THEN <<writing[s]>> ELSE <<>>) \o chan[s]

\* A client receives every event the hub took since it was added, but for those
\* the hub dropped, and no other, each once and in the order of the hub.
StreamIsExact ==
  \A s \in Subscribers : handler[s] \in {"streaming", "writing"} =>
    LET got == Received(s)
    IN  /\ {got[i] : i \in DOMAIN got} = {fanned[k] : k \in SinceJoined(s)} \ dropped[s]
        /\ \A i, j \in DOMAIN got, k, l \in SinceJoined(s) :
             got[i] = fanned[k] /\ got[j] = fanned[l] => (i < j <=> k < l)

\* An event is streamed at most once, and only after it was stored, so a client
\* that sees it live finds it by GET unless the ring has overwritten it since.
StreamedOnceAndStored ==
  /\ \A i, j \in DOMAIN fanned : i # j => fanned[i] # fanned[j]
  /\ \A i \in DOMAIN fanned :
       \/ \E j \in DOMAIN log : log[j] = fanned[i]
       \/ fanned[i].id + MaxEvents < nextID

\* A slow subscriber never stalls ingestion (agent.go:178-179): a goroutine that
\* publishes gets through its batch, whatever the hub and the handlers do.  Nor
\* does it stall the other subscribers: with the hub scheduled, what is in
\* hub.incoming is fanned out in the end and every handler that joins or leaves
\* is served, whatever the other handlers do.
StalledClientsHoldUpNobody ==
  /\ \A g \in Ingesters : outbox[g] # <<>> ~> outbox[g] = <<>>
  /\ HubFairness =>
       /\ incoming # <<>> \/ ~Selecting ~> incoming = <<>> /\ Selecting
       /\ \A s \in Subscribers :
            handler[s] \in {"adding", "removing"} ~> handler[s] \in {"streaming", "done"}

\* A client that went away is forgotten: its handler ends, and the hub holds its
\* channel no longer.
FailedClientIsReleased ==
  HubFairness /\ HandlerFairness =>
    \A s \in Subscribers : s \in failing ~> handler[s] = "done" /\ s \notin subs

\* What the hub put in a client's channel reaches the client, unless it fails.
QueuedIsDelivered ==
  HubFairness /\ HandlerFairness =>
    \A s \in Subscribers, e \in Event :
      (\E i \in DOMAIN chan[s] : chan[s][i] = e)
        ~> (s \in failing \/ \E i \in DOMAIN delivered[s] : delivered[s][i] = e)

=============================================================================
