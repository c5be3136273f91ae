# Formal verification of aegis-ebpf

This directory holds TLA+ models of aegis-ebpf, the TLC configurations that
check them, and theorems about them that TLAPS checks. `PROJECT.json` is the
index: components, runs, mutants, the map from definitions to source lines,
findings, hazards and theorems.

    tlc -workers 2 -config AgentStore.cfg MCAgentStore    # any run, see below
    tlapm AgentStoreProofs.tla                            # the proofs of a component, some minutes

## 1. The system

aegis-ebpf watches containers from inside the kernel. eBPF programs report
system calls through a ring buffer; the **probe** (Rust) turns the reports into
audit events and posts them in batches; the **agent** (Go) stores the events,
classifies them by rules, keeps one remediation per rule and container, streams
the events to dashboards, optionally deploys decoys, and patches manifests.

    kernel hooks ──ring buffer──> reader ──queue──> forwarder      (probe)
                                                       │ POST /v1/events
                                                       v
             ┌──────────────── Ingest (a.mu) ──────────────┐       (agent)
             │ validate · enrich · classify · remediate ·  │
             │ store in the ring and its index             │
             └───┬─────────────────────┬───────────────────┘
          hub.publish           go responder.Respond
                 v                     v
     hub ─> channel per subscriber   admit ─> Deploy ─> confirm/release
                 v                     v
           WebSocket handler      Docker daemon / Kubernetes API

### Inventory

| Component | State it keeps | Operations | Interacts with |
| --- | --- | --- | --- |
| eBPF hooks (`crates/aegis-probe-ebpf`) | ring buffer `EVENTS` | reserve, fill, submit | reader, through the ring |
| setuid tracker (same crate) | LRU map `SETUID_CALLS` | enter and exit programs of three system calls | `EVENTS`; the probe attaches and detaches it |
| reader, forwarder (`crates/aegis-probe/src/main.rs`) | readiness, queue of 8192, batch of 256 by default | convert, try_send, recv_many, send, stop | hooks, `/proc`, agent |
| conversion (`event.rs`, `container.rs`) | none | record + `/proc` → event | reader |
| event contract (`internal/events`) | none | `UnmarshalJSON`, `Validate` | conversion on one side, Ingest on the other |
| store (`internal/agent/agent.go`) | ring, `byID`, `rems`, `remFor` | Ingest; Events, Event, Remediations, Remediation | hub, responder, enricher, HTTP |
| HTTP API (`http.go`) | none | decode, limit, reply | store, fixer |
| live stream (`stream.go`) | `incoming`, subscriber channels | publish, add, remove, run, streamEvents | Ingest, clients |
| decoy responder (`internal/decoy/decoy.go`) | `byContainer`, `lastDeploy` | Respond, admit, confirm, release, Deployed, Close | Ingest, deployers, main |
| deployers (`docker.go`, `k8s.go`) | none; the backend's objects | Deploy, Remove | Docker, Kubernetes |
| Kubernetes client (`internal/k8s`) | pod cache `byID` | ListPodsOnNode, Lookup, Refresh, Run, CreatePod, DeletePod | enricher, deployer, API server |
| rules (`internal/fixer/rules.go`) | none | Matches, Plan | Ingest, fixer |
| manifest fixer (`internal/fixer`) | none between calls | Plan, ParsePath, Apply, render | HTTP |
| agent process (`cmd/aegis-agent`) | — | start, stop by signal | all of the agent |
| dashboard (`web`) | list of events | reconnecting WebSocket | live stream |
| deployment, build, OpenAPI document | — | — | — |

### Where it is hard, and what is correct

* **Store.** One mutex, but three indexes that must agree (ring and `byID`,
  `rems` and `remFor`) through overwriting and eviction, batches that must be
  all or nothing to readers, and event times that arrive in any order.
  Correct: the ring holds exactly the latest events in order, the index finds
  exactly those, one remediation per key with exact counts and time span, a
  bound on both, and readers see an append-only log, batch by batch.
* **Live stream.** Publishing happens outside the lock; the hub and every
  handler meet over unbuffered channels, and a client may stall or die at any
  step. Correct: nobody sends on a closed channel or closes twice, a client
  sees the hub's sequence less what was dropped for it, and no stalled client
  stops ingestion, the hub, or another client.
* **Decoys.** Many goroutines respond at once, a deployment takes up to two
  minutes of remote calls of which each may be done without an answer, and the
  agent may stop or crash between any two. Correct: a reservation has exactly
  one owner and always resolves, decoys stay within the policy, and none is
  forgotten that an answer told of.
* **Setuid tracker.** Two programs communicate through a map keyed by an
  identifier that is used again, attached one after another, with an LRU
  policy. Correct: what an exit finds is of its own call, except for entries
  that outlived theirs, each of which misleads once at most.
* **Probe pipeline.** Three bounded buffers that drop when full, a readiness
  that must not lose a wake-up, requests whose outcome is unknown, and a
  shutdown in the middle of it. Correct: every report is in one place or has
  one fate, the agent stores each at most once, and what is logged is true.
* **Fixer.** A tree is edited in place, operation by operation, and each edit is
  also reported as a JSON Patch. Correct: the patch applied to the original
  gives the edited manifest, also half-way; a container the plan is for ends up
  hardened and nothing else has changed; applying a plan twice changes nothing;
  and what is written back is the edited stream, though the decoder and the
  writer count lines differently.
* **Event contract.** Two programs in two languages must agree on what an event
  may hold; one event the agent refuses loses all of its batch, and so does a
  body that is too large, while texts grow on the way. Correct: no batch of the
  default size is ever refused.
* **Pod cache.** A list is a picture of a cluster that has changed when it
  arrives, may fail, and holds one page. Correct: what is resolved stays so
  while it is listed, and the cache follows the cluster in the end.

## 2. Modules

| Module | Models | State and actions against the code |
| --- | --- | --- |
| `AgentStore` | `internal/agent/agent.go`, `rules.go` matching | variables carry the field names (`ring`, `head`, `stored`, `byID`, `rems`, `remFor`); `Ingest` is cut at its loops: `Validate`, `Lock`, `Begin` (ID and enrichment), `Classify` (one rule, with `recordLocked` and `evictRemediationLocked`), `Store` (`storeLocked`), `Unlock`, `Return`. Readers hold the read lock and change nothing: they are operators over states with `mutex = Nobody` |
| `AgentReaders` | the list and get handlers of `http.go`, `Events`, `Event`, `Remediations`, `Remediation` of `agent.go` | extends `AgentStore` by operators: `IsQuery` is `parseListQuery`, `Events` the loop backwards over the ring, `Remediations` the filter, sort and cut. A page is exact when there are places in the log that say so (`HoldsTheNewest`), without a second way to compute it |
| `EventLog` | abstract specification | what readers may rely on: a log of the latest `MaxEvents` events, to which a batch is appended in one step, with fresh IDs |
| `LiveStream` | `stream.go` and the publishing of `agent.go` | the store is `EventLog`; `Ingest`/`Publish` are the HTTP goroutines, `Take`, `Send`, `Add`, `Remove` the cases of `hub.run` (an unbuffered channel is one joint step), `Accept` … `Leave` the handler |
| `DecoyResponder` | `internal/decoy`, and the part of `main.go` that opens, closes and restarts it | `Admit`, `Confirm`, `Release` are the three critical sections; `Prepare` … `CleanUp` the calls of `Deploy`, each of which may be done, fail, or be done with its answer lost; `Close`, `CloseOne`, `Exit`, `Crash`, `Restart` |
| `SetuidTracker` | `aegis_setuid_enter`/`exit`, `SETUID_CALLS`, attaching | `Enter`, `Return` are the system calls with the program that runs at them if it is attached; `Kill`, `Spawn`, `AttachNext`, `Detach`, `Read` the environment |
| `ProbePipeline` | hooks, `read_events`, `forward`, `Sink::send`, `main` | `Reserve`/`Submit`; the processes `End`, `Start`, `Move` (to another cgroup); `Wake`, `Drain`, `Drained`, `ClearReady`; `ReceiveFirst`, `ReceiveMore`, `Send`, `Replied`, `GiveUp`, `Finish`; the network `Accept`, `Refuse`, `Lose`; `Terminate`, `Abort`, `EndInOrder`, `EndAnyway` |
| `EventContract` | `convert` of `event.rs`, the lengths of `lib.rs`, `ingestEvents` and its limits, `Validate` of `events.go` | `Receive` adds a number of like events to the batch of the forwarder, with their size and validity; `Send` is the request with the agent's reply; `Clear` what the forwarder does after it. A text is the number of its bytes in each class that JSON writes differently |
| `PodCache` | `ListPodsOnNode`, `indexByContainer`, `PodCache` of `k8s.go`, `startEnricher` of `main.go` | `Answer`, `Replace`, `Fail`, `Tick`, `Stop` are the goroutine's steps; `Schedule`, `Start`, `End`, `Delete` those of the cluster, also between the answer and the replacement of the map |
| `Fixer` | `Apply`, `compile`, `walk`, `edit`, `put` of `fixer.go`, `path.go`, `DefaultRules` and `Plan` of `rules.go`, the statuses of `patchManifest` | `Plan` writes the paths as text, a sequence of names and punctuation, and `ParsePath` reads them back; a tree is a function from positions (sequences of keys and indices) to nodes, aliases among them; the calls of the recursive `walk` are the frames of `stack`. `Inspect`, `NextOperation`, `Finish` are the loops of `Apply`; `NotAMapping`, `Select`, `Item`, `Descend`, `Create` the cases of `walk`; `Edit` is `edit` with `put`; `ApplyAgain` a caller that applies the plan to what it got. The properties compare JSON values, in which an alias is a copy of what it stands for, and apply the patches by RFC 6902 |
| `Render` | `decode` and `render` of `fixer.go` | pure operators: a stream is a sequence of rows as the decoder counts lines, `LineStart` and `Line` cut it at line feeds as `render` does, `Starts` and `Verbatim` are its look at the lines the decoder gave, `Rendered` its output. `Beginnings` is the decoder's rule of where documents begin, and `IsTheEdited` reads the output back by that rule. Only the number of documents and which of them changed matter, so `Fixer` asks for every layout in a property instead of adding the layout to its state |
| `MC…` | — | constants and symmetry of the runs |
| `AgentStoreProofs`, `LiveStreamProofs`, `DecoyResponderProofs`, `SetuidTrackerProofs`, `ProbePipelineProofs`, `EventContractProofs`, `PodCacheProofs`, `FixerProofs` | — | theorems about the component they are named for, and their proofs (`AgentStoreProofs` also for `AgentReaders` and the refinement of `EventLog`) |

Composition: `AgentStore` implements `EventLog` (property `ImplementsEventLog`,
with `VisibleLog` as the refinement mapping), and `LiveStream` is built on
`EventLog` instead of the whole store. What joins the store to the responder is
one call, a goroutine per severe event with a container, so `DecoyResponder`
starts from `Trigger`. What joins the probe to the agent is one request, stored
whole or refused whole, which is `AllOrNothing` of the store and `Accept` and
`Refuse` of `ProbePipeline`; `EventContract` shows that the agent has no reason
of its own to refuse one. `PodCache` is what `RefreshPods` of the store
abstracts: any set of resolvable containers.

Abstractions common to all: an event is its identity and what the code tells
apart of it (class, container, time, validity); IDs are numbers given in the
order of their creation, for the UUIDs that the code draws at random and takes
for unique; a time is a number. Definitions that say in their comment that they
are a mutation or a variant (`KeepKeyOf`, `BeyondCap`, `NoRateLimit`, …) are
not used by the models: `PROJECT.json` uses each in place of the definition it
stands next to, to show that the property fails then. Variables marked
"history" record what happened for the properties; no guard reads them but the
bounds.

## 3. Runs

| Run | Shows |
| --- | --- |
| `store` | `HoldsTheLatest`, `IndexMatchesRing`, `OneRemediationPerKey`, `RemediationsBounded`, `RemediationSumsItsMatches`, `AllOrNothing`, the refinement `ImplementsEventLog`, with two requests at once, invalid events, times out of order, a pod cache that changes; and `ListsAreExact`: a page of a list is the newest of what was asked for, and the two lists agree on containers and severities |
| `stream` | `HandlerOwnsItsChannel` (no send on a closed channel), `StreamIsExact`, `StreamedOnceAndStored` |
| `stream_live` | `StalledClientsHoldUpNobody` (neither ingestion nor the hub), `FailedClientIsReleased`, `QueuedIsDelivered` under fairness |
| `decoy` | `ReservationIsOwned`, `DecoysAreAccountedFor`, `WithinPolicy`, `StormIsLimited`, `CloseRemovesConfirmed` with failures, lost answers, crashes; `ReservationResolves` under fairness |
| `decoy_left` | **violated** `NoDecoyIsLeft`, finding 2 |
| `setuid` | `FreshEntriesAreTrue`, `StaleEntriesMisleadOnce`, `ReportsAreRight`, `EscalationsAreReported` |
| `setuid_false` | **violated** `OnlyEscalationsAreReported`, finding 4 |
| `probe` | `NothingVanishes`, `StoredOnceInOrder`, `FateIsTrue`, `StopSendsTheQueue`, `NamedWhereItRan`; `SubmittedIsRead`, `QueuedIsSent` under fairness |
| `fixer` | `PatchIsTheEdit`, `HardensExactlyTheTargets`, `SecondApplyChangesNothing`, for every rule, with a known or unknown container, on streams that are already hardened, half hardened, in conflict, or share nodes by aliases; `ManifestIsTheEdit` for every layout of those documents in a stream |
| `fixer_alias` | **violated** `PatchGivesTheManifest`, finding 5 |
| `contract` | `EveryBatchIsStored` |
| `pods` | `ResolvedStaysResolved`; `CacheFollowsTheCluster` under fairness |

### Findings

1. A slow subscriber is not dropped: `stream.go:14-15` says the hub drops a
   subscriber that falls `subscriberBuffer` events behind, and `stream.go:102`
   expects that; the hub drops the event and keeps the subscriber, which goes on
   with a gap it is not told of. `Offer` shows it by itself, so it has no run;
   `StreamIsExact` says what does hold.
2. A decoy may outlive the agent: `README.md:185-186` says that decoys are
   removed when the agent stops, but a deployment under way at that time is not
   waited for, and its decoy is not among those `Close` removes.
3. `MinInterval` separates admissions, not deployments: `decoy.go:45-46` calls
   it the shortest time between two deployments, but two admitted an interval
   apart may deploy at the same time. It has no run of its own; what does hold is
   `StormIsLimited`: no more decoys than one per interval since the start.
4. A call by root may be reported as an escalation, when an entry left by a
   killed task, or by a call that returned before the exit was attached, has the
   same `pid_tgid`; `StaleEntriesMisleadOnce` bounds that by one report per such
   call.
5. An edit below a YAML anchor changes every alias of it in the manifest, while
   the JSON Patch of the same edit names one place (`fixer.go:288-291`): the two
   results differ, against `fixer_test.go:298-299`, and a container the plan
   does not target changes, against `rules.go:28-29`. `PatchIsTheEdit` and
   `HardensExactlyTheTargets` hold but for what aliases share.
6. On a cluster or node with more than 500 pods the cache misses some:
   `k8s.go:104` asks for one page and reads no continue token, while
   `k8s.go:101-102` says it returns the pods of the node, or every pod the
   account may read. It has no run of its own: `Page` shows it, and
   `CacheFollowsTheCluster` says what holds for no more pods than that.
7. Documents that do not change are encoded again, and may lose layout, when a
   document begins with more than a bare marker, or lines end otherwise than by
   line feeds: `fixer.go:9-10` promises them byte for byte, `fixer.go:383-385`
   makes the exception. It has no run; `ManifestIsTheEdit` asks for the bytes of
   plain streams and for the content of all.

## 4. Bounds

Every bound is a constant, given in the `.cfg`.

* `AgentStore.cfg`: a ring of 2, 2 remediations, 2 requests at once of up to 2
  events, 4 events in all, 2 containers and 3 rules. The ring wraps twice; the
  third remediation evicts one, also one opened by the same event; a batch is
  stored across the wrap. Inputs cover an event two rules match, one that none
  matches (of a host process), an earlier time than the one before and an invalid one.
  The third rule also matches what the first does: no two rules of `rules.go` match
  one event, but `Config.Rules` may.
* `Stream.cfg`: a hub buffer of 2 and client buffers of 1, so both overflow, 2
  publishers, whose batches interleave, and 2 clients, so that one can stall
  while the other is served. `StreamLive.cfg` halves it for liveness.
* `Decoy.cfg`: 3 containers for a cap of 2, 2 goroutines, 3 triggers, one
  restart, an interval of 1 tick in 2. `FirstOnesFirst` keeps those behaviours in
  which the nth trigger is of one of the first n containers: their names decide
  nothing, and symmetry would not be sound for liveness.
* `Setuid.cfg`: 3 identifiers for 2 entries, so that the LRU policy evicts, 2
  users besides root, one report of room, 4 calls.
* `Probe.cfg`: 2 CPUs, so that the later record is submitted first; 3 reports for
  a ring and batches of 2 and a queue of 1, so that each overflows; a process ID
  that is used again and a process that is moved, in the container or outside it;
  and reads of `/proc` that fail.
* `EventContract.cfg`: every kind of record, with texts that are empty, one byte
  that is not UTF-8, or as long as their buffer and of the bytes that take most
  room; every combination of flags, families and system calls; node names of 1
  and 253 bytes; batches of two runs of like events, up to 1, 256, 257 and 1000
  of them. The largest event takes about 16 KB, so that 256 of them are
  4.11 million bytes of the 4,194,304 allowed, and 261 are too many.
* `PodCache.cfg`: 3 pods of which 2 are on the node, the second with 2 containers,
  and a page of 2, so that a page is cut without a node name and not with it.
* `Fixer.cfg`: streams of up to 3 documents, a workload nested deep and one that
  is not, a document that is no workload before or after them; 2 containers,
  the first with no security context or one of 15 (null, wrong kind, present
  and right, present and wrong, a string that looks like a boolean), the second
  without a name, not a mapping, or sharing the first one's context by an alias;
  every rule, the container named or not; `Apply` and `Apply` again. Streams of up
  to 3 rows of any text, and of 4 of those that divide documents, with one row at
  most that ends otherwise than by a line feed: enough for the decoder's count to
  be ahead of `render`'s and to point at another marker. The code
  looks at nothing else of a manifest, and treats further containers and
  documents alike. `MaxItems` bounds the items of a list (`AppendItem` stops at
  it; no list of a run gets there) and `Texts` holds every text that may be a key:
  `Manifests` are sequences of trees (`IsTree`) over them. An alias of a tree
  stands for a part without aliases: one that held others would only be copied
  with them.

Where a module's own properties fail on a wrong type anyway, its `TypeOK` is
kept for proofs and is not part of a run (`LiveStream`, `DecoyResponder`,
`Fixer`, `ProbePipeline`, `PodCache`).

Runs that may really end, because their events and calls are bounded, or the
process stopped, say `CHECK_DEADLOCK FALSE`. Symmetry is used over identifiers
that no definition orders, and never for liveness.

## 5. Fairness

* `LiveStream`: `FairSpec` assumes only that a publishing goroutine is scheduled.
  That the hub is scheduled (`HubFairness`) and the handlers are
  (`HandlerFairness`) are premises of the properties that need them, so that
  the part of `StalledClientsHoldUpNobody` about ingestion is seen not to. Joint steps on an unbuffered channel, and
  receptions, have strong fairness: a `select` with several ready cases picks
  one at random. A write ends after 10 s at most, and a dead client is noticed
  by the ping every 30 s or by `CloseRead`.
* `DecoyResponder`: each goroutine goes on, as every call has a timeout
  (`http.Client.Timeout` and the context of `Respond`).
* `ProbePipeline`: a hook runs to its end, tokio polls both tasks, a request ends
  after 10 s and the filling of a batch after the flush interval.
* `PodCache`: the goroutine goes on and the ticker ticks; a request ends after its
  timeout, and not every one fails (strong fairness of `Answer`), an assumption on
  the API server.
* `AgentStore`, `SetuidTracker`, `Fixer`, `EventContract`: no liveness is claimed.

## 6. Proofs

Each theorem holds for **every** value of the constants that the `ASSUME` of its
module allows (`AgentStoreAssumption`, `LiveStreamAssumption`, …): any sets of
goroutines, clients, containers, processes and rules, any sizes above zero, any
bound on the length of a behaviour. TLC evaluates these assumptions on every
run. Nothing else is assumed. Each proof has one inductive invariant, a lemma
that the first state satisfies it, one that every action keeps it, with a step
per action, and the theorems that follow from it. Every safety property that a
passing run checks is proved.

### Store and its readers (`AgentStoreProofs`)

| Theorem | Says |
| --- | --- |
| `TypeCorrect` | `Spec => []TypeOK` |
| `RingHoldsTheLatest` | `Spec => []HoldsTheLatest` |
| `IndexCorrect` | `Spec => []IndexMatchesRing` |
| `OneRemediation` | `Spec => []OneRemediationPerKey` |
| `Bounded` | `Spec => []RemediationsBounded` |
| `BatchesAreAtomic` | `Spec => []AllOrNothing` |
| `RemediationsSum` | `Spec => []RemediationSumsItsMatches` |
| `StoreImplementsLog` | `Spec => ImplementsEventLog`: the store implements `EventLog` under `VisibleLog` |
| `ListsExact` | `Spec => []ListsAreExact` |

None but the first is inductive. `RingInv` strengthens the next two: it
adds that every ID in use is below `nextID` and that no two stored events share
one (`IdsAreFresh`), without which overwriting a slot could delete the entry of
another event; that the slot `Slot(i)` holds the `i`-th newest event
(`RingHolds`); and that `byID` maps that event to that slot (`IndexHolds`). The
step that matters is `Store`: `SlotsAdvance` shows that moving `head` shifts
every slot by one place, from lemmas on `%` below twice the modulus.
`RemInv` strengthens the two about remediations: with `IdsAreFresh`, a new
remediation's ID is in neither map, so `Put` cannot overwrite another one; with
finiteness, an eviction lowers the cardinality by exactly one.

`BatchInv` is what the mutex is for. `LockInv` says that its owner is the one
request that is inside the loops; `OwnerInv`, that the events the owner has
stored are the last ones of the log and the one in hand is its next; `ReplyInv`,
that an answered request's events stand next to each other. A request's events
stay where they are, because another one only appends after them.

The refinement needs to know in which steps the log changes for a reader. With
`BatchInv`, `Visible` (nobody holds the lock) fails from `Lock` to `Unlock`, and
nothing that is stored changes while it holds, so that every other step is a
stutter of `EventLog` (`VisibleIsShown`, `ShownStep`). At `Unlock` the log of
before is extended by exactly the owner's events (`UnlockAppends`), and what
readers see of it is the last `MaxEvents`, by `RingInv`.

`SumsInv` gives the counts their meaning in the middle of `Classify`'s loop: a
rule that was tried already has counted the event in hand, which the log does
not hold yet (`Counted`), and one that was not has not. `Store` then turns one
into the other. IDs in the log grow (`IdsGrow`), so that "the events since the
one a remediation points to" never gains an old event.

The lists are computed by a loop and a sort, so their proof is an induction. The
library states it for operators, which no prover here instantiates; but that a
well-founded relation has least elements (`WFMin`) it states for sets, and that
gives `SetInduction`: a set of numbers with 0 and every successor is `Nat`. With
it, the loop of `Events` is defined for every number of turns (`TurnsExist`),
after each of which the page holds the newest of what it has looked at
(`EventsCover`), and every set of remediations can be put in the order of
`SeenAfter` (`ListingExists`). That the two lists agree needs one more
invariant: an event has at least the severity of every rule that matches it, or
of every rule tried (`SeverityHolds`).

### Live stream (`LiveStreamProofs`)

| Theorem | Says |
| --- | --- |
| `StreamTypes` | `Spec => []TypeOK` |
| `ChannelsOwned` | `Spec => []HandlerOwnsItsChannel` |
| `StreamsAreExact` | `Spec => []StreamIsExact` |
| `StreamedAfterStored` | `Spec => []StreamedOnceAndStored` |

`HandlerOwnsItsChannel` is inductive with the types. The invariant of the others
follows an event: each stored event is in one publisher's outbox, in the hub's
buffer, or was taken by the hub, once (`OnceInv`); while the hub ranges over its
subscribers, it does so for the last event it took (`FanInv`); and for each
client, what it wrote, is writing and has in its channel is what the hub took
since the client joined, less the dropped and, in the middle of the loop, less
the one on its way (`ExactInv`, over the set `SinceJoined` of places in the hub's
sequence). The lemmas on `Matches` say how appending, dropping and taking the
first keep two sequences in step.

### Decoys (`DecoyResponderProofs`)

| Theorem | Says |
| --- | --- |
| `DecoyTypes` | `Spec => []TypeOK` |
| `ReservationsAreOwned` | `Spec => []ReservationIsOwned` |
| `DecoysAccountedFor` | `Spec => []DecoysAreAccountedFor` |
| `PolicyKept` | `Spec => []WithinPolicy` |
| `StormLimited` | `Spec => []StormIsLimited` |
| `CloseRemoves` | `Spec => CloseRemovesConfirmed` |

`TypeInv` adds that goroutines at work have different numbers and none works
while the agent is down. `ReservationInv` adds that `byContainer` never has more
than `MaxDecoys` entries, reservations included, and that a confirmed decoy's
number is not in use; `WithinPolicy` then follows without a count of its own,
because each decoy that is kept has its container's one entry. For `StormIsLimited`
an admitted goroutine that has still to create its decoy counts as one that has
(`RateInv`, with `IntervalLater` on `\div`): failed attempts only lower that sum.
`CloseInv` says that what `Close` owes is still to be removed or gone.

### Setuid tracker (`SetuidTrackerProofs`)

| Theorem | Says |
| --- | --- |
| `TrackerTypes` | `Spec => []TypeOK`: the map and the ring buffer within their sizes |
| `EntriesAreTrue` | `Spec => []FreshEntriesAreTrue` |
| `StaleMisleadsOnce` | `Spec => []StaleEntriesMisleadOnce` |
| `ReportsCorrect` | `Spec => ReportsAreRight` |
| `EscalationsReported` | `Spec => EscalationsAreReported` |

`TrackerInv` adds to the types and `FreshEntriesAreTrue` that a call that was
seen to begin still goes on, by a task that is not root (`SeenGoOn`), so that an
identifier cannot be used again while its entry counts as fresh, and that the
map is finite. The count of `StaleEntriesMisleadOnce` is inductive together with
it: an entry becomes stale only in a step that raises `abandoned` by one, and a
wrong report takes one stale entry away. The two action properties follow from
`TrackerInv` and `LeavingACall`: only a return or a kill ends a call.

### Probe (`ProbePipelineProofs`)

| Theorem | Says |
| --- | --- |
| `ProbeTypes` | `Spec => []TypeOK` |
| `NothingIsLost` | `Spec => []NothingVanishes` |
| `StoredOnce` | `Spec => []StoredOnceInOrder` |
| `CountsAreTrue` | `Spec => []FateIsTrue` |
| `StopLosesNothing` | `Spec => []StopSendsTheQueue` |
| `NamedRight` | `Spec => NamedWhereItRan` |

The invariant is one of order: the numbers of the reports grow through the
batch, the queue, the ring buffer and those to come (`OrderInv`), so that no
report is in two places; a report without a fate is in one of them or to come
(`FateInv`). `NetInv` describes the requests that are under way, which is where
a report may be in spite of its fate: each is the one whose answer is awaited,
or one that timed out, of smaller numbers, all of whose reports have the fate
"failed". `StoredInv` is `StoredOnceInOrder` and `FateIsTrue` themselves. For
`NamedWhereItRan` each record remembers where processes with its ID have run
since the call (`seen`, history), and that always includes where one runs now
(`OrderInv`). That is all a late look at `/proc` gives: the process may have
ended or been moved to another cgroup, its ID may be another's, the file may be
unreadable, and the code takes every such error for "no container". So the theorem
does not say that an event names the container its call was made in; only when
nothing of that kind has happened since does that follow.

### Event contract and pod cache (`EventContractProofs`, `PodCacheProofs`)

| Theorem | Says |
| --- | --- |
| `EveryBatchStored` | `Spec => []EveryBatchIsStored` |
| `StaysResolved` | `Spec => []ResolvedStaysResolved` |
| `CacheTypes` | `Spec => []TypeOK` |

`EveryBatchStored` is over every record with texts of any bytes that their
buffers hold, not only the extreme ones of the run: each kind of event is
shown to be valid and of at most 16,071 bytes, from a bound on what a captured
text may become when it is decoded and written as JSON, and batches of valid
events of that size fit the limit up to `DefaultBatch`. `StaysResolved` needs
that an answer which is on its way lists every container that was listed ever
since, though it may be older than the cluster is (`AnswerHasTheSteady`).

### Fixer (`FixerProofs`)

| Theorem | Says |
| --- | --- |
| `FixerTypes` | `Spec => []TypeOK`: edited documents stay trees, and no call of `walk` is at a node that is not there |
| `PatchesAreTheEdits` | `Spec => []PatchIsTheEdit` |
| `ExactlyTheTargets` | `Spec => []HardensExactlyTheTargets` |
| `SecondApplyIsIdle` | `Spec => []SecondApplyChangesNothing` |
| `ManifestsAreTheEdits` | `Spec => []ManifestIsTheEdit`: what `render` writes reads back as the edited documents, for every layout of a stream |
| `FixerInvariant` | `Spec => []IInv`, on which the others rest |

These hold for every stream of trees and every container name, of any depth and
length, with aliases. The assumptions are on texts: the texts of the indices
from 0 to `MaxItems` are all different (`IndexTextsAssumption`); what the paths of
the rules are made of are texts but no index, and a name is a text in which no
selector ends (`PathsAssumption`); manifests are sequences of trees (`ManifestsAssumption`); and
streams are sequences of rows that the decoder accepts (`StreamsAssumption`): of
any number, however marked, and with line ends anywhere. No kind of workload, no path and no operation is assumed:
`PlanIs` shows, by what `ParsePath` does with the tokens of each fix, that every
plan parses to a selection of containers and two or three keys below it
(`IsPath`), that none is refused, and that the targets of two operations are
never one part of the other (`GoalsApart`).

`GraftTree` says when a tree with a part put in is a tree again, `JsonIs` what
the value of a tree with aliases has at a position, and `EditCommutes` that an
edit which no alias shares is the same edit of the value; `PatchApplies` then
makes the reported operation exactly that edit. Patches are applied by a
recursive function, so `ApplyPatchIs` needs an induction for appending one more
operation (`SetInduction`, as for the store).

`IInv` has five parts. `Types` has the trees and the plan. `Position` says where
`walk` is: at the pod spec, at an item of the list of containers, or inside one,
with the rest of the path (`Calls`), and with everything done that is behind it:
the earlier operations, the earlier items, the earlier documents (`AllDone`,
`ItemsDone`, `Finished`). `ChangedOnly` compares each document to the one first
given: nothing lost, no alias touched, and what differs is on the way to a
target, or is one. `Rounds` says that a second round has reported no edit, and
`PatchIsTheEdit` is its own part. What all edits have in common is `Effect`: the
operation's target has what it wants afterwards, and nothing is replaced but nulls
and the target of a "set". From it follow, for `Put`, `Create` and `AppendItem`
alike, that what other operations did stays done (`DoneStays`), that the containers
and their names stay (`EffectKeepsContainers`), and the step of each part
(`EditMove`). `SecondVisit` is why a second round is idle: where an operation is
done, the walk to its target meets only mappings, and finds the value there.

`ManifestsAreTheEdits` is about the rows that are written. `render` looks at the line
of each document that is not the first, counted by line feeds, and copies only if
there is a marker; the decoder, which named the line, may have counted otherwise. The
proof is that a marker at every one of these lines is enough. A document has at most
one marker (`OneMarker`), and the line for a document is never before the document
(`LinesAre`), so that from the last document on, none is left for a document whose line
lies in a later one (`MarkersAreApart`): each line is the marker of its own document, and
before it are only directives, blanks and comments (`MarkersAre`). What is written
is then a sequence of pieces (`Pieces`): rows from a marker to the next, or a head and an
encoded document. Whether the decoder begins a document at a row depends on the row and
on the last one before it that is neither blank nor a comment, so copied rows are read
as they were (`CopyRun`), but for the first of a piece, which is a marker. From that follow
where the documents begin (`StartBegins`, `OnlyStarts`), that the output is a stream again
(`WrittenIsStream`), and that the parts of the i-th document are those that were
encoded or copied for it (`EncodesDocument`, `CopiesDocument`). In a plain stream the two
counts of lines agree, so that render always copies (`PlainIsVerbatim`).

### Only model-checked

* All liveness (`StalledClientsHoldUpNobody`, `FailedClientIsReleased`,
  `QueuedIsDelivered`, `ReservationResolves`, `SubmittedIsRead`, `QueuedIsSent`,
  `CacheFollowsTheCluster`): it rests on fairness and ENABLED, which are out of
  the prover's reach.
* The properties of the runs that expect a violation, which do not hold.

## 7. What is not modelled

* Formatting, flags, logging, the text of problems and static files: no state
  depends on them.
* The YAML scanner, and the style, comments and key order of what the encoder
  writes; mappings with a key twice; `Path.String`, which only tests call. What
  the fixer relies on of the decoder, where documents begin and the line it gives
  for each, is in `Render`, as the code says of it.
* What puts an event in the class of a rule (`underSystemDir`), the parsing of
  cgroup paths, and regular expressions beyond what tells the probe's own values
  apart.
* A node name of other characters than ASCII: the probe counts characters where
  `EventContract` counts bytes, and host names are ASCII.
* The content of decoys, `InCluster`, and the pages after the first, which the
  code does not ask for.
* The dashboard, which shows the stream and reconnects, and deployment files.

The hazard that no property covers has a note in `PROJECT.json` that says why.

## 8. Plan

Order: what the agent promises first (store, stream), then the two places where
several actors race (decoys, setuid), then the probe and the fixer, then what
joins them (event contract, pod cache, list endpoints). These are done, and so
are the proofs of their safety properties. What is left to TLC is liveness.
