--------------------------- MODULE MCEventContract ---------------------------
\* The corners of every record: texts that are empty or as long as their buffer, of
\* the bytes that take most room, and each value that decides on validity.
EXTENDS EventContract

Of(class, n) ==
  [c \in {"plain", "escaped", "control", "wide", "broken"} |-> IF c = class THEN n ELSE 0]

NoText == Of("plain", 0)
Paths == {NoText, Of("broken", 1), Of("control", MAX_PATH_LEN - 1)}

Exec(path, argc, args) ==
  [kind |-> "process_exec", filename |-> path, argc |-> argc, args |-> args,
   argv_truncated |-> argc = MAX_ARGV]

MCRecords ==
  {Exec(p, 0, NoText) : p \in Paths}
  \cup {Exec(p, MAX_ARGV, Of("control", MAX_ARGV * (ARG_LEN - 1))) : p \in Paths}
  \cup {[kind |-> "file_open", path |-> p, accmode |-> 1, others |-> {}] : p \in Paths}
  \cup {[kind |-> "file_open", path |-> Of("wide", 127), accmode |-> a, others |-> s] :
          a \in 1..3, s \in SUBSET {"O_CREAT", "O_TRUNC", "O_APPEND"}}
  \cup {[kind |-> "file_open", path |-> Of("wide", 127), accmode |-> 0, others |-> s] :
          s \in {{"O_CREAT"}, {"O_TRUNC", "O_APPEND"}, {"O_CREAT", "O_TRUNC", "O_APPEND"}}}
  \cup {[kind |-> "network_connect", family |-> f, mapped |-> m] :
          <<f, m>> \in {<<"AF_INET", FALSE>>, <<"AF_INET6", FALSE>>, <<"AF_INET6", TRUE>>}}
  \cup [kind : {"privilege_escalation"}, syscall_nr : Syscalls]
  \cup [kind : {"ptrace"}, known : BOOLEAN]

MCComms == {NoText, Of("control", TASK_COMM_LEN - 1)}

MCContainers == {NoContainer, [runtime |-> "containerd", pod |-> TRUE]}
=============================================================================
