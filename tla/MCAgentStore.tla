---------------------------- MODULE MCAgentStore ----------------------------
(***************************************************************************)
(* A small instance of AgentReaders: two requests at a time, two          *)
(* containers, a ring of two slots, and three rules.                       *)
(***************************************************************************)
EXTENDS AgentReaders, TLC

CONSTANTS c1, c2

\* The rules of rules.go, AEG-001 (medium), AEG-002 (critical) and AEG-003 (high),
\* the last of which matches what the first does as well: rules are a parameter of
\* the agent (Config.Rules), and so an event may match two.
MCRuleClasses == <<{"exec as root"}, {"escalation"}, {"system write", "exec as root"}>>
MCRuleSeverity == <<2, 4, 3>>

Ev(class, c, t) == [class |-> class, container |-> c, time |-> t, named |-> FALSE, valid |-> TRUE]

\* Times arrive out of order.  No rule matches the event of the host; the last one is
\* invalid.
MCInputs ==
  {Ev("exec as root", c1, 2), Ev("exec as root", c2, 1),
   Ev("system write", c1, 3), Ev("connect", NoContainer, 1),
   [Ev("connect", NoContainer, 1) EXCEPT !.valid = FALSE]}

MCKindOf ==
  [c \in Classes |-> CASE c = "exec as root" -> "process_exec"
                       [] c = "escalation" -> "privilege_escalation"
                       [] c = "system write" -> "file_open"
                       [] c = "connect" -> "network_connect"]

\* Every parameter left out, and one or all given; the last two are refused.
All == [kind |-> {}, min_severity |-> {}, container_id |-> {}, limit |-> {}]
MCQueries ==
  {All, [All EXCEPT !.limit = {2}], [All EXCEPT !.kind = {"process_exec"}],
   [All EXCEPT !.min_severity = {3}, !.limit = {2}], [All EXCEPT !.container_id = {c1}, !.limit = {2}],
   [kind |-> {"file_open"}, min_severity |-> {2}, container_id |-> {c1}, limit |-> {1}],
   [All EXCEPT !.limit = {0}], [All EXCEPT !.limit = {3}]}

\* The requests are interchangeable.
Symmetry == Permutations(Ingesters)
=============================================================================
