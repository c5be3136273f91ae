----------------------------- MODULE AgentReaders -----------------------------
(***************************************************************************)
(* What the list and get endpoints answer: parseListQuery and the handlers *)
(* of internal/agent/http.go over Events, Event, Remediations and          *)
(* Remediation of internal/agent/agent.go.  They take the read lock and    *)
(* change nothing: operators over the state of AgentStore when Visible.    *)
(***************************************************************************)
EXTENDS AgentStore

CONSTANTS
  KindOf,        \* class of an event -> its kind
  DefaultLimit,  \* defaultLimit of http.go
  MaxLimit,      \* maxLimit
  Queries        \* parameters that a client may send

Kinds == {"process_exec", "file_open", "privilege_escalation", "network_connect", "ptrace"}

\* A parameter of a query is the set of its value, empty where it is left out.
\* It may be none of those that are asked for.
ASSUME AgentReadersAssumption ==
  /\ KindOf \in [Classes -> Kinds]
  /\ DefaultLimit \in 1..MaxLimit
  /\ \A q \in Queries :
       /\ DOMAIN q = {"kind", "min_severity", "container_id", "limit"}
       /\ \A name \in DOMAIN q : Cardinality(q[name]) <= 1
       /\ q.limit \subseteq Int

-----------------------------------------------------------------------------
\* parseListQuery, and the kind that listEvents parses, accept the query; the
\* reply is 400 otherwise.
IsQuery(q) ==
  /\ q.kind \subseteq Kinds
  /\ q.min_severity \subseteq Severities
  /\ q.container_id \subseteq Containers
  /\ \A n \in q.limit : 1 <= n /\ n <= MaxLimit

LimitOf(q) == IF q.limit = {} THEN DefaultLimit ELSE CHOOSE n \in q.limit : TRUE

\* The rank of a severity that is left out is below that of any other.
SeverityPasses(severity, q) == \A m \in q.min_severity : severity >= m

Passes(ev, q) ==
  /\ q.kind = {} \/ KindOf[ev.class] \in q.kind
  /\ SeverityPasses(ev.severity, q)
  /\ q.container_id = {} \/ ev.container \in q.container_id

\* The loop goes on while the page has room; and one event too long.
RoomForOneMore(page, q) == Len(page) <= LimitOf(q)
HasRoom(page, q) == Len(page) < LimitOf(q)

\* Agent.Events: the ring is read backwards from head.
NextPage(page, ev, q) == IF HasRoom(page, q) /\ Passes(ev, q) THEN Append(page, ev) ELSE page

Events(q) ==
  LET page[i \in 0..stored] == IF i = 0 THEN << >> ELSE NextPage(page[i - 1], ring[Slot(i)], q)
  IN  page[stored]

\* Agent.Event, or NoEvent when it is 404.
EventOf(id) == IF id \in DOMAIN byID THEN ring[byID[id]] ELSE NoEvent

\* Most recently seen first; the IDs, ordered somehow, decide between equals.
SeenAfter(x, y) == rems[x].last > rems[y].last \/ (rems[x].last = rems[y].last /\ x > y)

Sorted(s) == \A i, j \in DOMAIN s : i < j => SeenAfter(s[i], s[j])

\* The IDs of the remediations asked for.
Wanted(q) ==
  {id \in DOMAIN rems :
     /\ SeverityPasses(RuleSeverity[rems[id].key[1]], q)
     /\ q.container_id = {} \/ rems[id].key[2] \in q.container_id}

\* Agent.Remediations: the IDs of the remediations it returns.
Remediations(q) ==
  LET all == CHOOSE s \in [1..Cardinality(Wanted(q)) -> Wanted(q)] : Sorted(s) /\ Range(s) = Wanted(q)
  IN  IF Len(all) > LimitOf(q) THEN SubSeq(all, 1, LimitOf(q)) ELSE all

-----------------------------------------------------------------------------
\* The places in the log of the events that are retained.
Window == {k \in DOMAIN arrived : k > Len(arrived) - MaxEvents}

\* A page holds the events at the places at, which are the newest of those that
\* pass, newest first; it leaves one out only when it is full.
HoldsTheNewest(page, at, q) ==
  /\ Len(page) <= LimitOf(q)
  /\ \A i, j \in DOMAIN page : i < j => at[i] > at[j]
  /\ \A i \in DOMAIN page : page[i] = arrived[at[i]] /\ Passes(page[i], q)
  /\ \A k \in Window \ Range(at) :
       Passes(arrived[k], q) => Len(page) = LimitOf(q) /\ \A i \in DOMAIN page : at[i] > k

PageIsExact(q) ==
  LET page == Events(q)
  IN  /\ \E at \in [DOMAIN page -> Window] : HoldsTheNewest(page, at, q)
      /\ \A i \in DOMAIN page : EventOf(page[i].id) = page[i]

\* The remediations listed are the most recently seen of those asked for, each
\* once and in that order.
ListIsExact(q) ==
  LET listed == Remediations(q)
  IN  /\ Len(listed) <= LimitOf(q) /\ Range(listed) \subseteq Wanted(q)
      /\ \A i, j \in DOMAIN listed : i < j =>
           listed[i] # listed[j] /\ rems[listed[i]].last >= rems[listed[j]].last
      /\ \A id \in Wanted(q) \ Range(listed) :
           Len(listed) = LimitOf(q) /\ \A i \in DOMAIN listed : rems[id].last <= rems[listed[i]].last

\* The event that opened a remediation listed is on the page of the same query, while
\* it is retained and the page has room.
ListsAgree(q) ==
  q.kind = {} /\ Len(Events(q)) < LimitOf(q) =>
    \A id \in Range(Remediations(q)) :
      rems[id].event \in DOMAIN byID => EventOf(rems[id].event) \in Range(Events(q))

\* GET /v1/events lists the newest of the events asked for, and leaves one out
\* only when the page is full; each is found by its ID.  GET /v1/remediations does
\* the same by the time they were last seen.  And the two agree: with the same
\* parameters, the event that opened a remediation listed, an event of that
\* container and of at least that severity, is listed too while it is retained and
\* the page has room.
ListsAreExact ==
  Visible => \A q \in {q \in Queries : IsQuery(q)} : PageIsExact(q) /\ ListIsExact(q) /\ ListsAgree(q)
=============================================================================
