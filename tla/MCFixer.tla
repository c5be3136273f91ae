------------------------------ MODULE MCFixer ------------------------------
EXTENDS Fixer

MCTexts == STRING

\* A tree whose root is a mapping of these keys to trees.
Map(f) ==
  [p \in {<< >>} \cup UNION {{<<k>> \o q : q \in DOMAIN f[k]} : k \in DOMAIN f} |->
     IF p = << >> THEN Node("map") ELSE f[p[1]][Tail(p)]]

\* A tree whose root is a list of trees.
List(s) ==
  [p \in {<< >>} \cup UNION {{<<ToString(i - 1)>> \o q : q \in DOMAIN s[i]} : i \in DOMAIN s} |->
     IF p = << >> THEN Node("list")
     ELSE LET i == CHOOSE i \in DOMAIN s : ToString(i - 1) = p[1] IN s[i][Tail(p)]]

Str(value) == << >> :> Scalar(value)
Null == << >> :> Node("null")
One(key, t) == Map(key :> t)
Drops(t) == One("capabilities", One("drop", t))
Flag(t) == One("allowPrivilegeEscalation", t)

\* Contexts a container may have; Str("'false'") is a string, not a boolean.
Contexts ==
  {Null, Str("x"), One("runAsUser", Str("1")), One("runAsNonRoot", Str("true")),
   One("runAsNonRoot", Null), Flag(Str("true")), Flag(Str("'false'")), Flag(List(<< >>)),
   One("capabilities", Null), Drops(Null), Drops(List(<< >>)), Drops(List(<<Str("NET_RAW"), Str("ALL")>>)),
   Drops(List(<<Str("NET_RAW")>>)), Drops(Str("ALL")),
   Map(("allowPrivilegeEscalation" :> Str("false")) @@ ("capabilities" :> One("drop", List(<<Str("ALL")>>))))}

Container(name, context) == Map(("name" :> Str(name)) @@ ("securityContext" :> context))

\* The container that is first in its list, and its neighbours: one of these
\* has no name, one is no mapping, one shares the first one's context.
FirstContainers == {Container("web", c) : c \in Contexts} \cup {One("name", Str("web"))}
Neighbours ==
  {One("name", Str("web")), One("image", Str("web")), Str("web"),
   Container("sidecar", Drops(List(<<Str("NET_RAW")>>))), Container("sidecar", Str("x")),
   Container("sidecar", Flag(Null))}
Sharing(at) == Container("sidecar", << >> :> Alias(at \o <<"spec", "containers", "0", "securityContext">>))

Pod(containers) == Map(("kind" :> Str("Pod")) @@ ("spec" :> One("containers", containers)))
CronJob(containers) ==
  Map(("kind" :> Str("CronJob")) @@
      ("spec" :> One("jobTemplate", One("spec", One("template", One("spec", One("containers", containers)))))))
Service == Map(("kind" :> Str("Service")) @@ ("spec" :> Map([k \in {} |-> Null])))
NoSpec == One("kind", Str("Pod"))

MCManifests ==
  {<<Service, CronJob(List(<<n, c>>)), Pod(List(<<Container("sidecar", Null)>>))>> :
     n \in Neighbours, c \in FirstContainers} \cup
  {<<Pod(List(<<c, Sharing(<< >>)>>))>> : c \in {Container("web", x) : x \in Contexts}} \cup
  {<<Pod(Null), Pod(List(<< >>))>>, <<Pod(Str("x"))>>, <<Service, NoSpec>>}

\* How up to three rows may lie, and four of the texts that divide bare documents:
\* one row at most ends otherwise than by a line feed.
RowTexts(n) == {"---", "...", "a"} \cup (IF n < 4 THEN {"--- x", "%", "", "#"} ELSE {})
MCStreams ==
  {s \in UNION {{[p \in 1..n |-> [text |-> t[p], lf |-> p # q, of |-> p]] :
                   t \in [1..n -> RowTexts(n)], q \in 0..n} : n \in 1..4} : IsStream(s)}
=============================================================================
