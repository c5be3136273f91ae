------------------------ MODULE EventContractProofs ------------------------
(***************************************************************************)
(* Theorems about EventContract: for every record a hook can submit, every *)
(* node name and every batch size.                                         *)
(***************************************************************************)
EXTENDS EventContract, TLAPS

\* A text takes at most six bytes of JSON for each of its own, and has at most one
\* character for each.
LEMMA TextSizes ==
  ASSUME NEW t \in Text
  PROVE  /\ Bytes(t) \in Nat /\ Json(t) \in Nat /\ Chars(t) \in Nat
         /\ Json(t) <= 6 * Bytes(t)
         /\ Chars(t) <= Bytes(t)
         /\ Bytes(t) # 0 => Chars(t) >= 1
  BY DEF Text, Bytes, Json, Chars

\* The size of the largest payload: an execve with every buffer full.
LargestData == 15352

IsRecord(r) == IsExec(r) \/ IsOpen(r) \/ IsConnect(r) \/ IsEscalation(r) \/ IsPtrace(r)

LEMMA JsonOf ==
  ASSUME NEW t \in Text, NEW n \in Nat, Bytes(t) <= n
  PROVE  Json(t) \in Nat /\ Json(t) <= 6 * n
<1>1. Bytes(t) \in Nat /\ Json(t) \in Nat /\ Json(t) <= 6 * Bytes(t)
  BY TextSizes
<1> QED
  BY <1>1

LEMMA DataSizes ==
  ASSUME NEW r, IsRecord(r)
  PROVE  DataSize(r) \in Nat /\ DataSize(r) <= LargestData
<1> USE DEF LargestData
<1>1. CASE IsExec(r)
  <2>1. /\ r.kind = "process_exec" /\ r.filename \in Text /\ Bytes(r.filename) < 512
        /\ r.argc \in 0..16 /\ r.args \in Text /\ Bytes(r.args) <= r.argc * 127
    BY <1>1 DEF IsExec, Captured, MAX_PATH_LEN, MAX_ARGV, ARG_LEN
  <2>2. Bytes(r.filename) <= 511 /\ Bytes(r.args) <= 2032
    BY <2>1, TextSizes
  <2>3. Json(r.filename) \in Nat /\ Json(r.filename) <= 3066
    BY <2>1, <2>2, JsonOf
  <2>4. Json(r.args) \in Nat /\ Json(r.args) <= 12192
    BY <2>1, <2>2, JsonOf
  <2>5. DataSize(r) = 15 + Json(r.filename)
                      + (IF r.argc = 0 THEN 0 ELSE 9 + 3 * r.argc + Json(r.args))
                      + (IF r.argv_truncated THEN 22 ELSE 0)
    BY <2>1 DEF DataSize
  <2> DEFINE arguments == IF r.argc = 0 THEN 0 ELSE 9 + 3 * r.argc + Json(r.args)
             truncated == IF r.argv_truncated THEN 22 ELSE 0
  <2>6. arguments \in Nat /\ arguments <= 12249
    BY <2>1, <2>4
  <2>7. truncated \in Nat /\ truncated <= 22
    OBVIOUS
  <2>8. DataSize(r) = 15 + Json(r.filename) + arguments + truncated
    BY <2>5
  <2> HIDE DEF arguments, truncated
  <2> QED
    BY <2>3, <2>6, <2>7, <2>8
<1>2. CASE IsOpen(r)
  <2>1. r.kind = "file_open" /\ r.path \in Text /\ Bytes(r.path) < 512
    BY <1>2 DEF IsOpen, Captured, MAX_PATH_LEN
  <2>2. Bytes(r.path) <= 511
    BY <2>1, TextSizes
  <2>3. Json(r.path) \in Nat /\ Json(r.path) <= 3066
    BY <2>1, <2>2, JsonOf
  <2>4. DataSize(r) = 22 + Json(r.path) + 11 * 4
    BY <2>1 DEF DataSize
  <2> QED
    BY <2>3, <2>4
<1>3. CASE IsConnect(r) \/ IsEscalation(r) \/ IsPtrace(r)
  <2>1. r.kind \in {"network_connect", "privilege_escalation", "ptrace"}
    BY <1>3 DEF IsConnect, IsEscalation, IsPtrace
  <2> QED
    BY <2>1 DEF DataSize
<1> QED
  BY <1>1, <1>2, <1>3 DEF IsRecord

\* What it is to add one flag to one, two or three.
LEMMA AddToOne ==
  ASSUME NEW a, NEW b
  PROVE  <<a>> \o <<b>> = <<a, b>>
<1> DEFINE S == {a, b}
           s == <<a>>
           u == <<b>>
           t == <<a>> \o <<b>>
<1>1. s \in Seq(S) /\ u \in Seq(S) /\ Len(s) = 1 /\ Len(u) = 1
  OBVIOUS
<1>2. s[1] = a /\ u[1] = b
  OBVIOUS
<1>3. t = s \o u
  OBVIOUS
<1>4. t \in Seq(S) /\ Len(t) = 2 /\ t[1] = a /\ t[2] = b
  <2>1. t = s \o u /\ Len(s) + Len(u) = Len(t)
    BY <1>1, <1>3
  <2> QED
    BY <1>1, <1>2, <1>3
<1> HIDE DEF t
<1>5. t = <<a, b>>
  BY <1>4
<1> QED
  BY <1>5 DEF t

LEMMA AddToTwo ==
  ASSUME NEW a, NEW b, NEW c
  PROVE  <<a, b>> \o <<c>> = <<a, b, c>>
<1> DEFINE S == {a, b, c}
           s == <<a, b>>
           u == <<c>>
           t == <<a, b>> \o <<c>>
<1>1. s \in Seq(S) /\ u \in Seq(S) /\ Len(s) = 2 /\ Len(u) = 1
  OBVIOUS
<1>2. s[1] = a /\ s[2] = b /\ u[1] = c
  OBVIOUS
<1>3. t = s \o u
  OBVIOUS
<1>4. t \in Seq(S) /\ Len(t) = 3 /\ t[1] = a /\ t[2] = b /\ t[3] = c
  <2>1. t = s \o u /\ Len(s) + Len(u) = Len(t)
    BY <1>1, <1>3
  <2> QED
    BY <1>1, <1>2, <1>3
<1> HIDE DEF t
<1>5. t = <<a, b, c>>
  BY <1>4
<1> QED
  BY <1>5 DEF t

LEMMA AddToThree ==
  ASSUME NEW a, NEW b, NEW c, NEW d
  PROVE  <<a, b, c>> \o <<d>> = <<a, b, c, d>>
<1> DEFINE S == {a, b, c, d}
           s == <<a, b, c>>
           u == <<d>>
           t == <<a, b, c>> \o <<d>>
<1>1. s \in Seq(S) /\ u \in Seq(S) /\ Len(s) = 3 /\ Len(u) = 1
  OBVIOUS
<1>2. s[1] = a /\ s[2] = b /\ s[3] = c /\ u[1] = d
  OBVIOUS
<1>3. t = s \o u
  OBVIOUS
<1>4. t \in Seq(S) /\ Len(t) = 4 /\ t[1] = a /\ t[2] = b /\ t[3] = c /\ t[4] = d
  <2>1. t = s \o u /\ Len(s) + Len(u) = Len(t)
    BY <1>1, <1>3
  <2> QED
    BY <1>1, <1>2, <1>3
<1> HIDE DEF t
<1>5. t = <<a, b, c, d>>
  BY <1>4
<1> QED
  BY <1>5 DEF t

\* The names of a record's flags are known to the agent, and none comes twice.
LEMMA FlagsAreNames ==
  ASSUME NEW r, IsOpen(r)
  PROVE  /\ FlagNames(r) # << >>
         /\ \A i \in DOMAIN FlagNames(r) : FlagNames(r)[i] \in OpenFlags
         /\ IsInjective(FlagNames(r))
<1> DEFINE mode == CASE r.accmode = 1 -> "O_WRONLY" [] r.accmode = 2 -> "O_RDWR" [] OTHER -> "O_RDONLY"
           set(f) == IF f \in r.others THEN <<f>> ELSE << >>
           names == <<mode>> \o set("O_CREAT") \o set("O_TRUNC") \o set("O_APPEND")
<1>1. mode \in {"O_WRONLY", "O_RDWR", "O_RDONLY"}
  OBVIOUS
<1>2. FlagNames(r) = names
  BY DEF FlagNames
<1>4. \/ names = <<mode>>
      \/ names = <<mode, "O_CREAT">>
      \/ names = <<mode, "O_TRUNC">>
      \/ names = <<mode, "O_APPEND">>
      \/ names = <<mode, "O_CREAT", "O_TRUNC">>
      \/ names = <<mode, "O_CREAT", "O_APPEND">>
      \/ names = <<mode, "O_TRUNC", "O_APPEND">>
      \/ names = <<mode, "O_CREAT", "O_TRUNC", "O_APPEND">>
  <2>1. \A f : set(f) = <<f>> \/ set(f) = << >>
    OBVIOUS
  <2>2. /\ \A m : <<m>> \o << >> = <<m>>
        /\ \A m, x : <<m, x>> \o << >> = <<m, x>>
        /\ \A m, x, y : <<m, x, y>> \o << >> = <<m, x, y>>
    OBVIOUS
  <2> HIDE DEF mode, set
  <2>5. \/ <<mode>> \o set("O_CREAT") = <<mode>>
        \/ <<mode>> \o set("O_CREAT") = <<mode, "O_CREAT">>
    BY <2>1, <2>2, AddToOne, Zenon
  <2> DEFINE two == <<mode>> \o set("O_CREAT") \o set("O_TRUNC")
  <2>6. two \in {<<mode>>, <<mode, "O_CREAT">>, <<mode, "O_TRUNC">>, <<mode, "O_CREAT", "O_TRUNC">>}
    <3>1. CASE set("O_TRUNC") = << >>
      <4>1. \/ two = <<mode>> \o << >>
            \/ two = <<mode, "O_CREAT">> \o << >>
        BY <2>5, <3>1
      <4> QED
        BY <2>2, <4>1
    <3>2. CASE set("O_TRUNC") = <<"O_TRUNC">>
      <4>1. \/ two = <<mode>> \o <<"O_TRUNC">>
            \/ two = <<mode, "O_CREAT">> \o <<"O_TRUNC">>
        BY <2>5, <3>2
      <4>2. <<mode>> \o <<"O_TRUNC">> = <<mode, "O_TRUNC">>
        BY AddToOne
      <4>3. <<mode, "O_CREAT">> \o <<"O_TRUNC">> = <<mode, "O_CREAT", "O_TRUNC">>
        BY AddToTwo
      <4> QED
        BY <4>1, <4>2, <4>3
    <3> QED
      BY <2>1, <3>1, <3>2
  <2>7. names = two \o set("O_APPEND")
    OBVIOUS
  <2> HIDE DEF two, names
  <2>8. CASE set("O_APPEND") = << >>
    <3>1. names = two \o << >>
      BY <2>7, <2>8
    <3> QED
      BY <2>2, <2>6, <3>1
  <2>9. CASE set("O_APPEND") = <<"O_APPEND">>
    <3>1. names = two \o <<"O_APPEND">>
      BY <2>7, <2>9
    <3>2. /\ <<mode>> \o <<"O_APPEND">> = <<mode, "O_APPEND">>
          /\ <<mode, "O_CREAT">> \o <<"O_APPEND">> = <<mode, "O_CREAT", "O_APPEND">>
          /\ <<mode, "O_TRUNC">> \o <<"O_APPEND">> = <<mode, "O_TRUNC", "O_APPEND">>
      BY AddToOne, AddToTwo
    <3>3. <<mode, "O_CREAT", "O_TRUNC">> \o <<"O_APPEND">> = <<mode, "O_CREAT", "O_TRUNC", "O_APPEND">>
      BY AddToThree
    <3> QED
      BY <2>6, <3>1, <3>2, <3>3, Zenon
  <2> QED
    BY <2>1, <2>8, <2>9
<1>5. names # << >>
  <2> HIDE DEF mode, names
  <2> QED
    BY <1>4
<1>6. \A i \in DOMAIN names : names[i] \in OpenFlags
  <2> HIDE DEF mode, names
  <2> QED
    BY <1>1, <1>4 DEF OpenFlags
<1>7. IsInjective(names)
  <2> HIDE DEF mode, names
  <2> QED
    BY <1>1, <1>4 DEF IsInjective
<1> QED
  BY <1>2, <1>5, <1>6, <1>7

-----------------------------------------------------------------------------
\* A record that convert lets through becomes an event that Validate accepts.
LEMMA EventIsValid ==
  ASSUME node \in NodeNames, NEW r \in Records, NEW comm \in Comms, NEW c \in Containers,
         Converts(r)
  PROVE  Valid(Event(r, comm, c))
<1> DEFINE e == Event(r, comm, c)
<1>1. e.node = node /\ e.comm = Chars(comm) /\ e.container = c /\ e.kind = r.kind /\ e.data = Data(r)
  BY DEF Event
<1>2. Between(node, 1, 253)
  BY EventContractAssumption DEF Between
<1>3. Between(Chars(comm), 0, 64)
  <2>1. comm \in Text /\ Bytes(comm) < 16
    BY EventContractAssumption DEF Captured, TASK_COMM_LEN
  <2> QED
    BY <2>1, TextSizes DEF Between
<1>4. c # NoContainer => ValidContainer(c)
  <2>1. c # NoContainer => c \in [runtime : Runtimes, pod : BOOLEAN]
    BY EventContractAssumption
  <2>2. c # NoContainer => c.runtime \in Runtimes
    BY <2>1
  <2> QED
    BY <2>2 DEF ValidContainer, Runtimes
<1>5. Data(r).kind = r.kind /\ ValidData(Data(r))
  <2>1. CASE IsExec(r)
    <3>1. /\ r.kind = "process_exec" /\ r.filename \in Text /\ Bytes(r.filename) < 512
          /\ r.argc \in 0..16
      BY <2>1 DEF IsExec, Captured, MAX_PATH_LEN, MAX_ARGV
    <3>2. Bytes(r.filename) # 0
      BY <3>1 DEF Converts, Readable
    <3>3. Data(r) = [kind |-> "process_exec", filename |-> Chars(r.filename), argv |-> r.argc]
      BY <3>1 DEF Data
    <3>4. Between(Chars(r.filename), 1, 4096)
      BY <3>1, <3>2, TextSizes DEF Between
    <3>5. r.argc <= 256
      BY <3>1
    <3> QED
      BY <3>1, <3>3, <3>4, <3>5 DEF ValidData, ValidExec
  <2>2. CASE IsOpen(r)
    <3>1. r.kind = "file_open" /\ r.path \in Text /\ Bytes(r.path) < 512
      BY <2>2 DEF IsOpen, Captured, MAX_PATH_LEN
    <3>2. Bytes(r.path) # 0
      BY <3>1 DEF Converts, Readable
    <3>3. Data(r) = [kind |-> "file_open", path |-> Chars(r.path), flags |-> FlagNames(r)]
      BY <3>1 DEF Data
    <3>4. Between(Chars(r.path), 1, 4096)
      BY <3>1, <3>2, TextSizes DEF Between
    <3>5. ValidOpen(Data(r))
      BY <2>2, <3>3, <3>4, FlagsAreNames DEF ValidOpen
    <3> QED
      BY <3>1, <3>3, <3>5 DEF ValidData
  <2>3. CASE IsConnect(r)
    <3>1. r.kind = "network_connect" /\ r.family \in {"AF_INET", "AF_INET6"}
      BY <2>3 DEF IsConnect
    <3>2. Data(r) = [kind |-> "network_connect", family |-> Address(r)[1], address |-> Address(r)[2]]
      BY <3>1 DEF Data
    <3>3. ValidConnect(Data(r))
      BY <3>1, <3>2 DEF Address, ValidConnect, Is4, Is6
    <3> QED
      BY <3>1, <3>2, <3>3 DEF ValidData
  <2>4. CASE IsEscalation(r)
    BY <2>4 DEF IsEscalation, Syscalls, Data, ValidData, ValidEscalation
  <2>5. CASE IsPtrace(r)
    BY <2>5 DEF IsPtrace, Data, ValidData, ValidPtrace
  <2> QED
    BY <2>1, <2>2, <2>3, <2>4, <2>5, EventContractAssumption
<1> HIDE DEF e
<1>6. Valid(e)
  BY <1>1, <1>2, <1>3, <1>4, <1>5 DEF Valid
<1> QED
  BY <1>6 DEF e

\* The size of the largest event: 214 and a node's name of 253, a task's name of 15
\* control characters, a container with a runtime and a pod, and the payload.
LargestEvent == 16071

LEMMA EventSizes ==
  ASSUME node \in NodeNames, NEW r \in Records, NEW comm \in Comms, NEW c \in Containers
  PROVE  EventSize(r, comm, c) \in Nat /\ EventSize(r, comm, c) <= LargestEvent
<1>1. node \in Nat /\ node <= 253
  BY EventContractAssumption
<1>2. Json(comm) \in Nat /\ Json(comm) <= 90
  <2>1. comm \in Text /\ Bytes(comm) < 16
    BY EventContractAssumption DEF Captured, TASK_COMM_LEN
  <2>2. Bytes(comm) <= 15
    BY <2>1, TextSizes
  <2> QED
    BY <2>1, <2>2, JsonOf
<1>3. ContainerSize(c) \in Nat /\ ContainerSize(c) <= 162
  <2>1. \A a, b \in BOOLEAN :
          LET n == 86 + (IF a THEN 0 ELSE 23) + (IF b THEN 53 ELSE 0) IN n \in Nat /\ n <= 162
    OBVIOUS
  <2>2. CASE c = NoContainer
    BY <2>2 DEF ContainerSize
  <2>3. CASE c # NoContainer
    <3>1. c.pod \in BOOLEAN
      BY <2>3, EventContractAssumption
    <3>2. ContainerSize(c) = 86 + (IF c.runtime = "" THEN 0 ELSE 23) + (IF c.pod THEN 53 ELSE 0)
      BY <2>3 DEF ContainerSize
    <3> QED
      BY <2>1, <3>1, <3>2, ZenonT(20)
  <2> QED
    BY <2>2, <2>3
<1>4. DataSize(r) \in Nat /\ DataSize(r) <= 15352
  BY EventContractAssumption, DataSizes DEF IsRecord, LargestData
<1> QED
  BY <1>1, <1>2, <1>3, <1>4 DEF EventSize, LargestEvent

-----------------------------------------------------------------------------
\* What a batch is at every moment: of at most batchSize events, all valid, none of
\* more than LargestEvent bytes; and the reply is the status of this very batch.
BatchInv ==
  /\ node \in NodeNames
  /\ batchSize \in BatchSizes
  /\ batch \in [count : Nat, bytes : Nat, valid : {TRUE}]
  /\ batch.count <= batchSize
  /\ batch.bytes <= batch.count * LargestEvent
  /\ reply # 0 => batch.count > 0 /\ reply = Status(batch)

\* A batch of the default size fits in the agent's limit.
LEMMA InvImpliesStored == BatchInv => EveryBatchIsStored
<1> SUFFICES ASSUME BatchInv, reply # 0
             PROVE  reply = 202 \/ (reply = 413 /\ batch.count > DefaultBatch)
  BY DEF EveryBatchIsStored
<1>1. batch.count \in Nat /\ batch.bytes \in Nat /\ batch.valid = TRUE /\ reply = Status(batch)
  BY DEF BatchInv
<1>2. Between(batch.count, 1, MaxBatch)
  <2>1. batchSize \in Nat /\ batchSize <= 1000
    BY EventContractAssumption DEF BatchInv
  <2> QED
    BY <1>1, <2>1 DEF BatchInv, Between, MaxBatch
<1>3. CASE BodySize(batch) > MaxEventsBody
  <2>1. batch.bytes > 4194291
    BY <1>1, <1>3 DEF BodySize, MaxEventsBody
  <2>2. batch.bytes <= batch.count * 16071
    BY DEF BatchInv, LargestEvent
  <2>3. batch.count > 256
    BY <1>1, <2>1, <2>2
  <2>4. reply = 413
    BY <1>1, <1>3 DEF Status
  <2> QED
    BY <2>3, <2>4 DEF DefaultBatch
<1>4. CASE ~(BodySize(batch) > MaxEventsBody)
  BY <1>1, <1>2, <1>4 DEF Status
<1> QED
  BY <1>3, <1>4

LEMMA InitBatch == Init => BatchInv
<1> SUFFICES ASSUME Init
             PROVE  BatchInv
  OBVIOUS
<1>1. batchSize \in Nat
  BY EventContractAssumption DEF Init
<1>2. batch = [count |-> 0, bytes |-> 0, valid |-> TRUE]
  BY DEF Init, Empty
<1>3. 0 <= 0 * LargestEvent
  BY DEF LargestEvent
<1> QED
  BY <1>1, <1>2, <1>3 DEF Init, BatchInv

LEMMA NextBatch == BatchInv /\ [Next]_vars => BatchInv'
<1> SUFFICES ASSUME BatchInv, [Next]_vars
             PROVE  BatchInv'
  OBVIOUS
<1>1. ASSUME NEW r \in Records, NEW comm \in Comms, NEW c \in Containers, NEW n \in Runs,
             Receive(r, comm, c, n)
      PROVE  BatchInv'
  <2>1. n \in Nat /\ batch.count \in Nat /\ batch.bytes \in Nat /\ batch.valid = TRUE
    <3>1. n \in Nat
      BY EventContractAssumption
    <3> QED
      BY <3>1 DEF BatchInv
  <2> DEFINE size == EventSize(r, comm, c)
  <2>2. size \in Nat /\ size <= LargestEvent
    BY EventSizes DEF BatchInv
  <2>3. Valid(Event(r, comm, c))
    BY <1>1, EventIsValid DEF BatchInv, Receive
  <2>4. batch' = [count |-> batch.count + n, bytes |-> batch.bytes + n * size, valid |-> TRUE]
    BY <1>1, <2>1, <2>3 DEF Receive
  <2>5. batch.count + n <= batchSize /\ reply' = 0 /\ UNCHANGED <<node, batchSize>>
    BY <1>1 DEF Receive
  <2> HIDE DEF size
  <2>6. n * size \in Nat /\ n * size <= n * LargestEvent
    BY <2>1, <2>2 DEF LargestEvent
  <2>7. batch.bytes + n * size <= (batch.count + n) * LargestEvent
    BY <2>1, <2>2, <2>6 DEF BatchInv, LargestEvent
  <2> QED
    BY <2>1, <2>2, <2>4, <2>5, <2>6, <2>7 DEF BatchInv, LargestEvent
<1>2. CASE Send
  <2>1. batch.count > 0 /\ reply' = Status(batch) /\ UNCHANGED <<node, batchSize, batch>>
    BY <1>2 DEF Send
  <2>2. Status(batch)' = Status(batch)
    BY <2>1 DEF Status, BodySize
  <2> QED
    BY <2>1, <2>2 DEF BatchInv
<1>3. CASE Clear
  <2>1. batch' = [count |-> 0, bytes |-> 0, valid |-> TRUE] /\ reply' = 0 /\ UNCHANGED <<node, batchSize>>
    BY <1>3 DEF Clear, Empty
  <2>2. batchSize \in Nat /\ 0 <= 0 * LargestEvent
    BY EventContractAssumption DEF BatchInv, LargestEvent
  <2> QED
    BY <2>1, <2>2 DEF BatchInv
<1>4. CASE UNCHANGED vars
  BY <1>4 DEF vars, BatchInv, Status, BodySize
<1> QED
  BY <1>1, <1>2, <1>3, <1>4 DEF Next

\* Whatever processes call, and whatever bytes their names, paths and arguments hold,
\* the agent stores every batch of the probe (http.go:ingestEvents, with event.rs,
\* main.rs and events.go), but for one of more events than the default batch has.
THEOREM EveryBatchStored == Spec => []EveryBatchIsStored
<1>1. Spec => []BatchInv
  BY InitBatch, NextBatch, PTL DEF Spec
<1> QED
  BY <1>1, InvImpliesStored, PTL
=============================================================================
