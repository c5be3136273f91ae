---------------------------- MODULE EventContract ----------------------------
(***************************************************************************)
(* What the probe and the agent must agree on: a record of the ring buffer *)
(* becomes an audit event (crates/aegis-probe/src/event.rs), events become *)
(* a batch of at most --batch-size, the batch one JSON body (main.rs), and *)
(* the agent takes the body only if it is not too large and each event is  *)
(* valid (internal/agent/http.go, internal/events/events.go): otherwise it *)
(* refuses the whole batch, and the probe drops it.                        *)
(*                                                                         *)
(* Text is abstracted to how many bytes it has of each class that JSON     *)
(* writes differently.  Numbers, flags and the names of kinds, runtimes    *)
(* and requests are counted at their longest.                              *)
(***************************************************************************)
EXTENDS Integers, Sequences, Functions

CONSTANTS
  Records,     \* records that hooks submit
  Comms,       \* names of tasks
  Containers,  \* what cgroups tell of containers
  NodeNames,   \* lengths of node names
  BatchSizes,  \* values of --batch-size
  Runs,        \* numbers of like events that follow each other
  MaxRuns      \* bound of the model on such runs in a batch

\* Sizes of the buffers that hooks fill, with the NUL at the end of each.
MAX_PATH_LEN == 512
ARG_LEN == 128
MAX_ARGV == 16
TASK_COMM_LEN == 16

\* The bytes of a captured text: ASCII that JSON leaves alone, ASCII that it
\* escapes by a backslash, other control characters (\u00XX), characters of four
\* bytes, and bytes that are not UTF-8.
Text == [plain : Nat, escaped : Nat, control : Nat, wide : Nat, broken : Nat]

Bytes(t) == t.plain + t.escaped + t.control + 4 * t.wide + t.broken

Captured(len) == {t \in Text : Bytes(t) < len}

\* The payload of an execve.  args are the bytes of its arguments together.
IsExec(r) ==
  /\ r \in [kind : {"process_exec"}, filename : Captured(MAX_PATH_LEN), argc : 0..MAX_ARGV,
            args : Text, argv_truncated : BOOLEAN]
  /\ Bytes(r.args) <= r.argc * (ARG_LEN - 1)

\* Hooks report opens that mean to write only.
IsOpen(r) ==
  /\ r \in [kind : {"file_open"}, path : Captured(MAX_PATH_LEN), accmode : 0..3,
            others : SUBSET {"O_CREAT", "O_TRUNC", "O_APPEND"}]
  /\ r.accmode # 0 \/ r.others \cap {"O_CREAT", "O_TRUNC"} # {}

\* An IPv6 address may be mapped from an IPv4 one (::ffff:a.b.c.d).
IsConnect(r) ==
  /\ r \in [kind : {"network_connect"}, family : {"AF_INET", "AF_INET6"}, mapped : BOOLEAN]
  /\ r.mapped => r.family = "AF_INET6"

Syscalls == {"setuid", "setreuid", "setresuid"}

IsEscalation(r) == r \in [kind : {"privilege_escalation"}, syscall_nr : Syscalls]

IsPtrace(r) == r \in [kind : {"ptrace"}, known : BOOLEAN]

NoContainer == [runtime |-> "none", pod |-> FALSE]
Runtimes == {"", "docker", "containerd", "cri-o", "podman"}

ASSUME EventContractAssumption ==
  /\ \A r \in Records : IsExec(r) \/ IsOpen(r) \/ IsConnect(r) \/ IsEscalation(r) \/ IsPtrace(r)
  /\ Comms \subseteq Captured(TASK_COMM_LEN)
  /\ Containers \subseteq {NoContainer} \cup [runtime : Runtimes, pod : BOOLEAN]
  /\ NodeNames \subseteq 1..253    \* main.rs:109, of ASCII, as host names are
  /\ BatchSizes \subseteq 1..1000  \* main.rs:50
  /\ Runs \subseteq 1..1000
  /\ MaxRuns \in Nat

VARIABLES
  node,       \* the length of the node's name
  batchSize,  \* opt.batch_size
  batch,      \* what the forwarder has collected
  runs,       \* how many runs of like events that was
  reply       \* what the agent replied to it, or 0

vars == <<node, batchSize, batch, runs, reply>>

-----------------------------------------------------------------------------
\* c_string: bytes that are not UTF-8 become U+FFFD, one for each at most.
Chars(t) == t.plain + t.escaped + t.control + t.wide + t.broken

\* The bytes of a text in JSON.
Json(t) == t.plain + 2 * t.escaped + 6 * t.control + 4 * t.wide + 3 * t.broken

\* Mutation: also an event whose path could not be read.
AnyPath(path) == TRUE

\* The kernel leaves a path that it cannot read empty.
Readable(path) == Bytes(path) # 0

\* convert returns an event, for a record that ProbePipeline calls usable.
Converts(r) ==
  CASE r.kind = "process_exec" -> Readable(r.filename)
    [] r.kind = "file_open" -> Readable(r.path)
    [] OTHER -> TRUE

\* flag_names: the access mode, then the others in their order.
FlagNames(r) ==
  LET mode == CASE r.accmode = 1 -> "O_WRONLY" [] r.accmode = 2 -> "O_RDWR" [] OTHER -> "O_RDONLY"
      set(f) == IF f \in r.others THEN <<f>> ELSE << >>
  IN  <<mode>> \o set("O_CREAT") \o set("O_TRUNC") \o set("O_APPEND")

\* format_address: the family and the form of its text.
Address(r) ==
  IF r.family = "AF_INET" THEN <<"ipv4", "a.b.c.d">>
                          ELSE <<"ipv6", IF r.mapped THEN "::ffff:a.b.c.d" ELSE "a:b::c">>

\* The payload, with the size of its JSON as far as Validate does not look at it.
Data(r) ==
  CASE r.kind = "process_exec" ->
         [kind |-> r.kind, filename |-> Chars(r.filename), argv |-> r.argc]
    [] r.kind = "file_open" ->
         [kind |-> r.kind, path |-> Chars(r.path), flags |-> FlagNames(r)]
    [] r.kind = "privilege_escalation" ->
         [kind |-> r.kind, syscall |-> r.syscall_nr]
    [] r.kind = "network_connect" ->
         [kind |-> r.kind, family |-> Address(r)[1], address |-> Address(r)[2]]
    [] r.kind = "ptrace" ->
         [kind |-> r.kind, request |-> IF r.known THEN "PTRACE_ATTACH" ELSE "PTRACE_UNKNOWN"]

\* The event that convert makes of a record of the task comm in c.
Event(r, comm, c) ==
  [kind |-> r.kind, node |-> node, comm |-> Chars(comm), container |-> c, data |-> Data(r)]

-----------------------------------------------------------------------------
\* The members of a payload in JSON, at their longest but for texts.  Empty
\* arguments and a false argv_truncated are left out.
DataSize(r) ==
  CASE r.kind = "process_exec" ->
         15 + Json(r.filename) + (IF r.argc = 0 THEN 0 ELSE 9 + 3 * r.argc + Json(r.args))
            + (IF r.argv_truncated THEN 22 ELSE 0)
    [] r.kind = "file_open" -> 22 + Json(r.path) + 11 * 4
    [] r.kind = "privilege_escalation" -> 65
    [] r.kind = "network_connect" -> 99
    [] r.kind = "ptrace" -> 121

\* The container of an event, which is left out when there is none.
ContainerSize(c) ==
  IF c = NoContainer
    THEN 0
    ELSE 86 + (IF c.runtime = "" THEN 0 ELSE 23) + (IF c.pod THEN 53 ELSE 0)

\* An event in JSON, and the comma before the next.
EventSize(r, comm, c) == 214 + node + Json(comm) + ContainerSize(c) + DataSize(r)

\* {"events":[...]}
BodySize(b) == 13 + b.bytes

-----------------------------------------------------------------------------
Between(n, lo, hi) == lo <= n /\ n <= hi

\* The validate of each payload.  Every name of a request that the probe knows,
\* and PTRACE_UNKNOWN, is PTRACE_ and capital letters; every address of a ptrace
\* is hexadecimal.
ValidExec(d) == Between(d.filename, 1, 4096) /\ d.argv <= 256

OpenFlags == {"O_RDONLY", "O_WRONLY", "O_RDWR", "O_CREAT", "O_TRUNC", "O_APPEND"}

ValidOpen(d) ==
  /\ Between(d.path, 1, 4096)
  /\ d.flags # << >>
  /\ \A i \in DOMAIN d.flags : d.flags[i] \in OpenFlags
  /\ IsInjective(d.flags)

ValidEscalation(d) == d.syscall \in {"setuid", "setreuid", "setresuid"}

\* netip takes a mapped address for an IPv6 one.
Is4(address) == address = "a.b.c.d"
Is6(address) == address \in {"a:b::c", "::ffff:a.b.c.d"}

ValidConnect(d) ==
  \/ d.family = "ipv4" /\ Is4(d.address)
  \/ d.family = "ipv6" /\ Is6(d.address)

ValidPtrace(d) == d.request \in {"PTRACE_ATTACH", "PTRACE_UNKNOWN"}

ValidData(d) ==
  CASE d.kind = "process_exec" -> ValidExec(d)
    [] d.kind = "file_open" -> ValidOpen(d)
    [] d.kind = "privilege_escalation" -> ValidEscalation(d)
    [] d.kind = "network_connect" -> ValidConnect(d)
    [] d.kind = "ptrace" -> ValidPtrace(d)
    [] OTHER -> FALSE

\* The ID and the pod's UID are of the form that is required: the two programs
\* look for the same characters.
ValidContainer(c) == c.runtime \in {"", "docker", "containerd", "cri-o", "podman"}

\* AuditEvent.Validate.
Valid(e) ==
  /\ Between(e.node, 1, 253)
  /\ Between(e.comm, 0, 64)
  /\ e.container # NoContainer => ValidContainer(e.container)
  /\ e.data.kind = e.kind
  /\ ValidData(e.data)

-----------------------------------------------------------------------------
MaxEventsBody == 4 * 1024 * 1024

MaxBatch == 1000

\* ingestEvents: the status of its reply.
Status(b) ==
  IF BodySize(b) > MaxEventsBody
    THEN 413
    ELSE IF Between(b.count, 1, MaxBatch) /\ b.valid THEN 202 ELSE 400

Empty == [count |-> 0, bytes |-> 0, valid |-> TRUE]

Init ==
  /\ node \in NodeNames
  /\ batchSize \in BatchSizes
  /\ batch = Empty
  /\ runs = 0
  /\ reply = 0

\* The forwarder receives n events of like records.
Receive(r, comm, c, n) ==
  /\ reply = 0
  /\ runs < MaxRuns
  /\ batch.count + n <= batchSize
  /\ Converts(r)
  /\ batch' = [count |-> batch.count + n,
               bytes |-> batch.bytes + n * EventSize(r, comm, c),
               valid |-> batch.valid /\ Valid(Event(r, comm, c))]
  /\ runs' = runs + 1
  /\ UNCHANGED <<node, batchSize, reply>>

\* It sends the batch, full or not, and the agent replies.
Send ==
  /\ reply = 0
  /\ batch.count > 0
  /\ reply' = Status(batch)
  /\ UNCHANGED <<node, batchSize, batch, runs>>

\* Whatever the reply is, the batch is cleared.
Clear ==
  /\ reply # 0
  /\ batch' = Empty
  /\ runs' = 0
  /\ reply' = 0
  /\ UNCHANGED <<node, batchSize>>

Next ==
  \/ \E r \in Records, comm \in Comms, c \in Containers, n \in Runs : Receive(r, comm, c, n)
  \/ Send
  \/ Clear

Spec == Init /\ [][Next]_vars

-----------------------------------------------------------------------------
DefaultBatch == 256

\* The agent stores every batch of the probe, whatever processes call and
\* whatever bytes their paths, arguments and names hold: no event that convert
\* lets through makes the agent refuse the others with it.  Only a batch of more
\* than the default --batch-size (main.rs:50) may be too large.
EveryBatchIsStored ==
  reply # 0 => reply = 202 \/ (reply = 413 /\ batch.count > DefaultBatch)
=============================================================================
