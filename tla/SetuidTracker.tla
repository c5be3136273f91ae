---------------------------- MODULE SetuidTracker ----------------------------
(***************************************************************************)
(* How the probe notices that a task became root: the eBPF programs        *)
(* aegis_setuid_enter and aegis_setuid_exit, the map SETUID_CALLS they     *)
(* share and the ring buffer EVENTS the reports go to                      *)
(* (crates/aegis-probe-ebpf/src/main.rs), attached one tracepoint after    *)
(* the other by crates/aegis-probe/src/main.rs.  The tasks of the host and *)
(* the kernel's map are external: a task calls a member of the family, or  *)
(* is killed inside the call, and its identifier is given to another one.  *)
(***************************************************************************)
EXTENDS Integers, Sequences, FiniteSets, Functions

CONSTANTS
  Ids,         \* pid_tgid values
  Users,       \* user IDs other than Root's
  MaxEntries,  \* of SETUID_CALLS
  RingRoom,    \* reports that EVENTS holds
  MaxCalls     \* bound of the model on the calls that are made

ASSUME SetuidTrackerAssumption ==
  /\ 0 \notin Users
  /\ MaxEntries \in Nat \ {0}
  /\ RingRoom \in Nat \ {0}
  /\ MaxCalls \in Nat

Root == 0
Uids == Users \cup {Root}
Outside == "outside"
Family == <<"setuid", "setreuid", "setresuid">>
Calls == {"setuid", "setreuid", "setresuid"}

VARIABLES
  attached,     \* tracepoints attached so far
  alive,        \* identifiers in use
  uid,          \* task -> its real user ID
  inside,       \* task -> the call of the family it is in, or Outside
  SETUID_CALLS, \* task -> the user ID it entered with
  EVENTS,       \* the reports that the probe has not read
  calls,        \* history: calls made
  seen,         \* history: tasks whose present call was seen to begin by a user not root
  missed,       \* history: of these, the ones whose entry the map did not keep
  abandoned,    \* history: entries that outlived their call
  wrong         \* history: reports of a call that made nobody root

\* The tasks whose entry is of the call they are in.
Fresh == seen \ missed

hostVars == <<alive, uid, inside, calls>>
vars == <<attached, alive, uid, inside, SETUID_CALLS, EVENTS, calls, seen, missed,
          abandoned, wrong>>

Empty == [t \in {} |-> Root]

Init ==
  /\ attached = 0
  /\ alive = Ids
  /\ uid \in [Ids -> Uids]
  /\ inside = [t \in Ids |-> Outside]
  /\ SETUID_CALLS = Empty
  /\ EVENTS = << >>
  /\ calls = 0
  /\ seen = {}
  /\ missed = {}
  /\ abandoned = 0
  /\ wrong = 0

-----------------------------------------------------------------------------
\* PROGRAMS in order: the three entries, then the three exits.
Tracepoints == 2 * Len(Family)
Position(call) == CHOOSE i \in DOMAIN Family : Family[i] = call
EnterAttached(call) == attached >= Position(call)
ExitAttached(call) == attached >= Len(Family) + Position(call)

AttachNext ==
  /\ attached < Tracepoints
  /\ attached' = attached + 1
  /\ UNCHANGED <<hostVars, SETUID_CALLS, EVENTS, seen, missed, abandoned, wrong>>

\* The probe ends, or fails to attach: the programs are detached and the maps
\* are freed.
Detach ==
  /\ attached' = 0
  /\ SETUID_CALLS' = Empty
  /\ EVENTS' = << >>
  /\ seen' = {}
  /\ missed' = {}
  /\ UNCHANGED <<hostVars, abandoned, wrong>>

\* read_events takes the next report.
Read ==
  /\ EVENTS # << >>
  /\ EVENTS' = Tail(EVENTS)
  /\ UNCHANGED <<attached, hostVars, SETUID_CALLS, seen, missed, abandoned, wrong>>

-----------------------------------------------------------------------------
\* The kernel's LRU map: an insertion may take the place of other entries, and
\* must when the map is full.
Insertions(t, u) ==
  {[x \in kept \cup {t} |-> IF x = t THEN u ELSE SETUID_CALLS[x]] :
     kept \in {k \in SUBSET (DOMAIN SETUID_CALLS \ {t}) : Cardinality(k) < MaxEntries}}

\* Mutations: an entry that is there already is not replaced; a root caller is
\* remembered too; system users pass for root.
InsertedOnce(t) == IF t \in DOMAIN SETUID_CALLS THEN {SETUID_CALLS} ELSE Insertions(t, uid[t])
WhoeverCalls(t) == TRUE
OnlyHumans(t) == uid[t] > 1

\* The condition on which aegis_setuid_enter inserts.
Remembers(t) == uid[t] # Root

\* insert replaces the entry of a call that never returned.
Inserted(t) == Insertions(t, uid[t])

\* A task enters a call of the family; if the tracepoint is attached,
\* aegis_setuid_enter remembers the user ID of a caller that is not root, and
\* ignores a failure to.
Enter(t, call) ==
  /\ t \in alive
  /\ inside[t] = Outside
  /\ calls < MaxCalls
  /\ calls' = calls + 1
  /\ inside' = [inside EXCEPT ![t] = call]
  /\ seen' = IF EnterAttached(call) /\ uid[t] # Root THEN seen \cup {t} ELSE seen
  /\ IF EnterAttached(call) /\ Remembers(t)
       THEN \/ \E m \in Inserted(t) :
                 /\ SETUID_CALLS' = m
                 /\ missed' = missed \cup (seen \ DOMAIN m)
            \/ /\ missed' = missed \cup {t}
               /\ UNCHANGED SETUID_CALLS
       ELSE UNCHANGED <<SETUID_CALLS, missed>>
  /\ UNCHANGED <<attached, alive, uid, EVENTS, abandoned, wrong>>

\* Mutations: an entry is removed only with a report; every success is reported.
KeptUnlessReported(t, reports) ==
  IF reports THEN Restrict(SETUID_CALLS, DOMAIN SETUID_CALLS \ {t}) ELSE SETUID_CALLS
AnySuccess(ok, new) == ok

\* SETUID_CALLS once the exit of t is seen, whether or not it is reported.
Removed(t, reports) == Restrict(SETUID_CALLS, DOMAIN SETUID_CALLS \ {t})

\* What aegis_setuid_exit takes for an escalation, given an entry.
Escalates(ok, new) == ok /\ new = Root

BecameRoot(t, new) == uid[t] # Root /\ new = Root

\* The call returns: it failed and changed nothing, or set the real user ID.
\* If the tracepoint is attached and there is an entry, aegis_setuid_exit
\* removes it and reports an escalation, if EVENTS has room.
Return(t, ok, new) ==
  /\ t \in alive
  /\ inside[t] # Outside
  /\ ~ok => new = uid[t]
  /\ uid' = [uid EXCEPT ![t] = new]
  /\ inside' = [inside EXCEPT ![t] = Outside]
  /\ seen' = seen \ {t}
  /\ missed' = missed \ {t}
  /\ IF ExitAttached(inside[t]) /\ t \in DOMAIN SETUID_CALLS
       THEN LET reports == Escalates(ok, new)
            IN  /\ SETUID_CALLS' = Removed(t, reports)
                /\ UNCHANGED abandoned
                /\ IF reports /\ Len(EVENTS) < RingRoom
                     THEN /\ EVENTS' = Append(EVENTS, [task |-> t, old |-> SETUID_CALLS[t]])
                          /\ wrong' = IF BecameRoot(t, new) /\ ok /\ SETUID_CALLS[t] = uid[t]
                                        THEN wrong ELSE wrong + 1
                     ELSE UNCHANGED <<EVENTS, wrong>>
       ELSE /\ abandoned' = IF t \in Fresh THEN abandoned + 1 ELSE abandoned
            /\ UNCHANGED <<SETUID_CALLS, EVENTS, wrong>>
  /\ UNCHANGED <<attached, alive, calls>>

\* A task is killed; inside a call it "never reaches its exit" (main.rs:45-48).
Kill(t) ==
  /\ t \in alive
  /\ alive' = alive \ {t}
  /\ inside' = [inside EXCEPT ![t] = Outside]
  /\ abandoned' = IF t \in Fresh THEN abandoned + 1 ELSE abandoned
  /\ seen' = seen \ {t}
  /\ missed' = missed \ {t}
  /\ UNCHANGED <<attached, uid, SETUID_CALLS, EVENTS, calls, wrong>>

\* A new task gets an identifier that is free.
Spawn(t) ==
  /\ t \notin alive
  /\ alive' = alive \cup {t}
  /\ \E u \in Uids : uid' = [uid EXCEPT ![t] = u]
  /\ UNCHANGED <<attached, inside, SETUID_CALLS, EVENTS, calls, seen, missed, abandoned, wrong>>

Next ==
  \/ AttachNext \/ Detach \/ Read
  \/ \E t \in Ids :
       \/ \E call \in Calls : Enter(t, call)
       \/ \E ok \in BOOLEAN, new \in Uids : Return(t, ok, new)
       \/ Kill(t) \/ Spawn(t)

Spec == Init /\ [][Next]_vars

-----------------------------------------------------------------------------
\* Every variable is in its type; the map and the ring buffer stay within
\* their sizes, and no entry is of root.
TypeOK ==
  /\ attached \in 0..Tracepoints
  /\ alive \subseteq Ids
  /\ uid \in [Ids -> Uids]
  /\ inside \in [Ids -> Calls \cup {Outside}]
  /\ DOMAIN SETUID_CALLS \subseteq Ids
  /\ SETUID_CALLS \in [DOMAIN SETUID_CALLS -> Users]
  /\ Cardinality(DOMAIN SETUID_CALLS) <= MaxEntries
  /\ EVENTS \in Seq([task : Ids, old : Users])
  /\ Len(EVENTS) <= RingRoom
  /\ calls \in 0..MaxCalls
  /\ seen \subseteq Ids
  /\ missed \subseteq seen
  /\ abandoned \in Nat
  /\ wrong \in Nat

\* The entry that a call in progress will find at its exit is its own: it has
\* the user ID that the task still has, so that it cannot be taken for the
\* entry of another task or of an earlier call.
FreshEntriesAreTrue ==
  \A t \in Fresh : /\ t \in alive /\ inside[t] # Outside
                   /\ t \in DOMAIN SETUID_CALLS
                   /\ SETUID_CALLS[t] = uid[t]
                   /\ uid[t] # Root

\* Entries that no call in progress made: a task was killed inside its call, or
\* returned before the exit was attached.
Stale == DOMAIN SETUID_CALLS \ Fresh

\* A stale entry misleads the probe once at most: every wrong report, and every
\* stale entry that may still cause one, is paid for by a call whose exit was
\* not seen.
StaleEntriesMisleadOnce == wrong + Cardinality(Stale) <= abandoned

Reported(t) == /\ Len(EVENTS') = Len(EVENTS) + 1
               /\ EVENTS'[Len(EVENTS')].task = t
               /\ inside[t] # Outside /\ inside'[t] = Outside

\* A report that does not come from a stale entry is right: that very call, by
\* that very task, took it from the reported user ID to root.
ReportsAreRight ==
  [][\A t \in Ids : Reported(t) /\ t \notin Stale =>
       BecameRoot(t, uid'[t]) /\ EVENTS'[Len(EVENTS')].old = uid[t]]_vars

\* An escalation that was seen from its entry to its exit is reported, unless
\* the ring buffer was full at its exit or the map lost the entry.
EscalationsAreReported ==
  [][\A t \in alive \cap alive' :
       /\ inside[t] # Outside /\ inside'[t] = Outside
       /\ BecameRoot(t, uid'[t])
       /\ t \in Fresh
       /\ ExitAttached(inside[t])
       => Reported(t) \/ Len(EVENTS) = RingRoom]_vars

-----------------------------------------------------------------------------
\* main.rs:309-310 says of aegis_setuid_exit that it "reports the calls that
\* succeeded in making a non-root task root".
OnlyEscalationsAreReported == wrong = 0
=============================================================================
