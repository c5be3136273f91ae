-------------------------------- MODULE Fixer --------------------------------
(***************************************************************************)
(* The manifest fixer, internal/fixer: Apply edits the syntax trees of a   *)
(* YAML stream by the plan of a rule, and reports each edit as a JSON      *)
(* Patch.  walk is recursive: its calls are the frames of a stack.  A tree *)
(* maps positions, sequences of keys and list indices, to nodes.  Its      *)
(* mappings have no key twice.  The style, comments and order of keys are  *)
(* left out; how the documents lie in the stream is that of module Render. *)
(***************************************************************************)
EXTENDS Integers, Sequences, FiniteSets, SequencesExt, TLC, Render

CONSTANTS
  Texts,       \* texts of keys, names and values
  Manifests,   \* streams to patch: sequences of trees
  Streams,     \* how documents may lie in a stream (module Render)
  Names,       \* names of offending containers, "" when the agent knows none
  MaxItems     \* bound on the items of a list

-----------------------------------------------------------------------------
\* The keys of a list are the texts of 0, 1, ..., which are all different.
IndexTexts ==
  /\ MaxItems \in Nat \ {0}
  /\ \A i \in 0..MaxItems : ToString(i) \in Texts
  /\ \A i, j \in 0..MaxItems : ToString(i) = ToString(j) => i = j
ASSUME IndexTextsAssumption == IndexTexts

\* Nodes of a tree, and the tree of just one.  An alias stands for the node at its
\* target, its anchor.
Node(kind) == [kind |-> kind, value |-> "", target |-> << >>]
Scalar(value) == [kind |-> "scalar", value |-> value, target |-> << >>]
Sole(node) == [p \in {<< >>} |-> node]
Alias(target) == [kind |-> "alias", value |-> "", target |-> target]

Below(at, p) == SubSeq(p, Len(at) + 1, Len(p))

\* t with sub in the place of what is at the position at.
Graft(t, at, sub) ==
  [p \in {q \in DOMAIN t : ~IsPrefix(at, q)} \cup {at \o q : q \in DOMAIN sub} |->
     IF IsPrefix(at, p) THEN sub[Below(at, p)] ELSE t[p]]

Children(t, at) == {p \in DOMAIN t : Len(p) = Len(at) + 1 /\ IsPrefix(at, p)}
Length(t, at) == Cardinality(Children(t, at))

Aliases(t) == {p \in DOMAIN t : t[p].kind = "alias"}

\* t is a tree: every node but the root is in a mapping, or in a list with just the
\* items before it; an alias stands for a part of the tree without aliases.
IsTree(t) ==
  /\ t = [p \in DOMAIN t |-> t[p]]
  /\ DOMAIN t \subseteq Seq(Texts)
  /\ << >> \in DOMAIN t
  /\ \A p \in DOMAIN t :
       /\ t[p].kind \in {"map", "list", "scalar", "null", "alias"}
       /\ p # << >> => Front(p) \in DOMAIN t /\ t[Front(p)].kind \in {"map", "list"}
       /\ t[p].kind = "list" =>
            \E n \in 0..MaxItems : Children(t, p) = {p \o <<ToString(i)>> : i \in 0..n - 1}
       /\ t[p].kind = "scalar" => t[p] = Scalar(t[p].value)
  /\ \A a, b \in Aliases(t) : t[a].target \in DOMAIN t /\ ~IsPrefix(t[a].target, b)

ManifestsAreTrees ==
  \A m \in Manifests : m \in Seq(ToSet(m)) /\ \A d \in DOMAIN m : IsTree(m[d])
ASSUME ManifestsAssumption == ManifestsAreTrees

StreamsAreRead == \A s \in Streams : s \in Seq(ToSet(s)) /\ IsStream(s)
ASSUME StreamsAssumption == StreamsAreRead

-----------------------------------------------------------------------------
\* Segments of a Path, and its text, a sequence of names and punctuation.
NoSelector == [kind |-> "none", index |-> 0, field |-> "", value |-> ""]
Segment(key, sel) == [key |-> key, sel |-> sel]
Punctuation == {".", "[", "]", "*", "="}
Index(token) ==
  IF \E i \in 0..MaxItems : ToString(i) = token
    THEN CHOOSE i \in 0..MaxItems : ToString(i) = token ELSE -1

InvalidPath == << >>

\* pathParser.segment at the tokens from p on: the segment, and where it ends.
\* There is no segment where it ends at p.
ParseSegment(s, p) ==
  LET at(i) == IF i \in DOMAIN s THEN s[i] ELSE ""
      name(i) == at(i) \notin Punctuation \cup {""}
      found(sel, n) == [seg |-> Segment(at(p), sel), end |-> p + n]
  IN  CASE name(p) /\ at(p + 1) # "[" -> found(NoSelector, 1)
        [] name(p) /\ at(p + 1) = "[" /\ at(p + 2) = "*" /\ at(p + 3) = "]" ->
             found([NoSelector EXCEPT !.kind = "all"], 4)
        [] name(p) /\ at(p + 1) = "[" /\ Index(at(p + 2)) >= 0 /\ at(p + 3) = "]" ->
             found([NoSelector EXCEPT !.kind = "index", !.index = Index(at(p + 2))], 4)
        [] name(p) /\ at(p + 1) = "[" /\ name(p + 2) /\ Index(at(p + 2)) = -1 /\ at(p + 3) = "="
             /\ at(p + 4) \notin {"]", ""} /\ at(p + 5) = "]" ->
             found([NoSelector EXCEPT !.kind = "match", !.field = at(p + 2), !.value = at(p + 4)], 6)
        [] OTHER -> [seg |-> Segment("", NoSelector), end |-> p]

\* ParsePath: segments with dots between them, up to the end of the text.
ParsePath(s) ==
  LET path[p \in 1..Len(s) + 1] ==
        LET first == ParseSegment(s, p)
            rest == path[first.end + 1]
        IN  CASE first.end = p -> InvalidPath
              [] first.end = Len(s) + 1 -> <<first.seg>>
              [] OTHER -> IF s[first.end] = "." /\ first.end < Len(s) /\ rest # InvalidPath
                            THEN <<first.seg>> \o rest ELSE InvalidPath
  IN  path[1]

\* DefaultRules, the fix of each.
Fixes ==
  << << [op |-> "set", path |-> <<"securityContext", ".", "runAsNonRoot">>, value |-> "true"] >>,
     << [op |-> "set", path |-> <<"securityContext", ".", "allowPrivilegeEscalation">>, value |-> "false"],
        [op |-> "add", path |-> <<"securityContext", ".", "capabilities", ".", "drop">>, value |-> "ALL"] >>,
     << [op |-> "set", path |-> <<"securityContext", ".", "readOnlyRootFilesystem">>, value |-> "true"] >> >>

\* Rule.Plan: what is to be patched, every container when it has no name, and the path
\* of each operation below that.
AllContainers == <<"containers", "[", "*", "]">>
PlanTarget(name) ==
  IF name # "" THEN <<"containers", "[", "name", "=", name, "]">> ELSE AllContainers
Plan(rule, name) ==
  [i \in DOMAIN Fixes[rule] |->
     [Fixes[rule][i] EXCEPT !.path = PlanTarget(name) \o <<".">> \o @]]

\* compile.
Compiled(ops) == [i \in DOMAIN ops |-> [ops[i] EXCEPT !.path = ParsePath(@)]]
IsPlan(compiled) ==
  \A i \in DOMAIN compiled :
    compiled[i].path # InvalidPath /\ Last(compiled[i].path).sel.kind = "none"

\* podSpecPaths.
Kinds == {"Pod", "Deployment", "ReplicaSet", "ReplicationController", "StatefulSet", "DaemonSet",
          "Job", "CronJob"}
PodSpecPath(kind) ==
  CASE kind = "Pod" -> <<"spec">>
    [] kind = "CronJob" -> <<"spec", "jobTemplate", "spec", "template", "spec">>
    [] OTHER -> <<"spec", "template", "spec">>

\* Texts has the tokens of the paths, which are no texts of indices, and "-", which
\* points behind a list's last item; a name is text in which no selector ends.
Tokens ==
  ToSet(AllContainers) \cup {"name", "=", "-"} \cup
    UNION {UNION {ToSet(Fixes[rule][i].path) : i \in DOMAIN Fixes[rule]} : rule \in DOMAIN Fixes}
TextsOfPaths ==
  /\ Tokens \subseteq Texts \ {ToString(i) : i \in 0..MaxItems}
  /\ \A kind \in Kinds : ToSet(PodSpecPath(kind)) \subseteq Texts
  /\ Names \subseteq Texts \ {"]"}
ASSUME PathsAssumption == TextsOfPaths

-----------------------------------------------------------------------------
VARIABLES
  container,  \* the name of the container that the remediation is for
  plan,       \* the compiled operations
  given,      \* the documents as they were decoded
  tree,       \* the documents as edited so far
  doc,        \* the document Apply is at
  op,         \* the operation it is at, or 0 when it has yet to inspect the document
  stack,      \* the calls of walk under way, innermost first
  workloads,  \* workload documents so far
  patches,    \* document -> its JSON Patch
  outcome,    \* how Apply ended
  round,      \* 1, and 2 when Apply is applied to its own output
  original    \* history: the documents of the first round

progress == <<doc, op, stack, workloads>>
input    == <<container, plan, given, round, original>>
vars     == <<progress, input, tree, patches, outcome>>

NotAList == -1
Frame(n, ptr, path, next) == [n |-> n, ptr |-> ptr, path |-> path, next |-> next]

Init ==
  /\ container \in Names
  /\ \E rule \in DOMAIN Fixes : plan = Compiled(Plan(rule, container))
  /\ given \in Manifests
  /\ tree = given
  /\ doc = 1
  /\ op = 0
  /\ stack = << >>
  /\ workloads = 0
  /\ patches = [d \in DOMAIN given |-> << >>]
  /\ outcome = IF IsPlan(plan) THEN "running" ELSE "invalid plan"
  /\ round = 1
  /\ original = given

Running == outcome = "running"
T == tree[doc]

\* inspect: the pod spec of a workload, or none.
KindOf(t) == IF <<"kind">> \in DOMAIN t THEN t[<<"kind">>].value ELSE ""
PodSpec(t) == PodSpecPath(KindOf(t))
IsWorkload(t) ==
  /\ t[<< >>].kind = "map"
  /\ KindOf(t) \in Kinds
  /\ \A i \in DOMAIN PodSpec(t) :
       LET at == SubSeq(PodSpec(t), 1, i)
       IN  at \in DOMAIN t /\ t[at].kind = "map"

Inspect ==
  /\ Running
  /\ doc \in DOMAIN tree
  /\ op = 0
  /\ IF IsWorkload(T)
       THEN /\ workloads' = workloads + 1
            /\ op' = 1
            /\ stack' = <<Frame(PodSpec(T), PodSpec(T), plan[1].path, NotAList)>>
            /\ UNCHANGED doc
       ELSE /\ doc' = doc + 1
            /\ UNCHANGED <<op, stack, workloads>>
  /\ UNCHANGED <<input, tree, patches, outcome>>

\* walk returned: the next operation, or the next document.
NextOperation ==
  /\ Running
  /\ op # 0
  /\ stack = << >>
  /\ IF op < Len(plan)
       THEN /\ op' = op + 1
            /\ stack' = <<Frame(PodSpec(T), PodSpec(T), plan[op + 1].path, NotAList)>>
            /\ UNCHANGED doc
       ELSE /\ doc' = doc + 1
            /\ op' = 0
            /\ UNCHANGED stack
  /\ UNCHANGED <<input, workloads, tree, patches, outcome>>

-----------------------------------------------------------------------------
\* The call under way, the segment it looks at and what is under its key.
Top == Head(stack)
Seg == Top.path[1]
Rest == Tail(Top.path)
V == Top.n \o <<Seg.key>>
Ptr == Top.ptr \o <<Seg.key>>
Missing == V \in DOMAIN T => T[V].kind = "null"

Walking == Running /\ stack # << >> /\ Top.next = NotAList
OnMapping == Walking /\ T[Top.n].kind = "map"

\* Apply returns the error of a walk, and no manifest.
Conflict ==
  /\ outcome' = "conflict"
  /\ UNCHANGED <<progress, input, tree, patches>>

\* The call returns with nothing done.
Return ==
  /\ stack' = Tail(stack)
  /\ UNCHANGED <<doc, op, workloads, input, tree, patches, outcome>>

\* The call goes on as another one.
Continue(frame) ==
  /\ stack' = <<frame>> \o Tail(stack)
  /\ UNCHANGED <<doc, op, workloads, input, tree, patches, outcome>>

NotAMapping ==
  /\ Walking
  /\ T[Top.n].kind # "map"
  /\ Conflict

\* A segment with a selector: its list is traversed, if there is one.
Select ==
  /\ OnMapping
  /\ Seg.sel.kind # "none"
  /\ \/ Missing /\ Return
     \/ ~Missing /\ T[V].kind # "list" /\ Conflict
     \/ ~Missing /\ T[V].kind = "list" /\ Continue(Frame(V, Ptr, Top.path, 0))

\* Mutation: the selector's field is not compared.
SelectsAny(sel, i, item) == T[item].kind = "map"

\* Selector.selects.
Selects(sel, i, item) ==
  \/ sel.kind = "all"
  \/ sel.kind = "index" /\ i = sel.index
  \/ /\ sel.kind = "match"
     /\ T[item].kind = "map"
     /\ LET f == item \o <<sel.field>>
        IN  f \in DOMAIN T /\ T[f].kind = "scalar" /\ T[f].value = sel.value

\* The pointer to an item, and one that leaves out the index.
ListPtr(ptr, i) == ptr
ItemPtr(ptr, i) == ptr \o <<ToString(i)>>

\* The next item of a list.
Item ==
  /\ Running
  /\ stack # << >>
  /\ Top.next # NotAList
  /\ LET item == Top.n \o <<ToString(Top.next)>>
         rest == <<[Top EXCEPT !.next = @ + 1]>> \o Tail(stack)
     IN  stack' = IF item \notin DOMAIN T THEN Tail(stack)
                  ELSE IF Selects(Seg.sel, Top.next, item)
                    THEN <<Frame(item, ItemPtr(Top.ptr, Top.next), Rest, NotAList)>> \o rest
                    ELSE rest
  /\ UNCHANGED <<doc, op, workloads, input, tree, patches, outcome>>

Descend ==
  /\ OnMapping
  /\ Seg.sel.kind = "none"
  /\ Rest # << >>
  /\ ~Missing
  /\ Continue(Frame(V, Ptr, Rest, NotAList))

-----------------------------------------------------------------------------
\* compiled.leaf: what the operation stores where its target is missing.
Leaf ==
  LET c == Scalar(plan[op].value)
  IN  IF plan[op].op = "add" THEN Graft(Sole(Node("list")), <<ToString(0)>>, Sole(c)) ELSE Sole(c)

\* The mappings under the keys, down to leaf.
Nested(keys, leaf) ==
  Graft([p \in {SubSeq(keys, 1, i) : i \in 0..Len(keys) - 1} |-> Node("map")], keys, leaf)

Report(kind, ptr, value) ==
  patches' = [patches EXCEPT ![doc] = Append(@, [op |-> kind, path |-> ptr, value |-> value])]

\* put: sub is stored under the key, in place of what is there.
Put(sub) ==
  /\ tree' = [tree EXCEPT ![doc] = Graft(@, V, sub)]
  /\ Report(IF V \in DOMAIN T THEN "replace" ELSE "add", Ptr, sub)
  /\ stack' = Tail(stack)
  /\ UNCHANGED <<doc, op, workloads, input, outcome>>

\* A missing mapping on the way is created, with all below it, unless a list
\* would have to be.
Create ==
  /\ OnMapping
  /\ Seg.sel.kind = "none"
  /\ Rest # << >>
  /\ Missing
  /\ IF \E i \in DOMAIN Rest : Rest[i].sel.kind # "none"
       THEN Return
       ELSE Put(Nested([i \in DOMAIN Rest |-> Rest[i].key], Leaf))

\* compiled.holds
Holds(n) == T[n].kind = "scalar" /\ T[n].value = plan[op].value

\* Whether a list has the value, and a look at its first item only.
FirstHolds == Length(T, V) > 0 /\ Holds(V \o <<ToString(0)>>)
ListHolds == \E i \in 0..Length(T, V) - 1 : Holds(V \o <<ToString(i)>>)

\* The index of a new item.
NextIndex == ToString(Length(T, V))

\* The value is appended to the list.
AppendItem ==
  /\ Length(T, V) < MaxItems
  /\ tree' = [tree EXCEPT ![doc] =
                Graft(@, V \o <<NextIndex>>, Sole(Scalar(plan[op].value)))]
  /\ Report("add", Ptr \o <<"-">>, Sole(Scalar(plan[op].value)))
  /\ stack' = Tail(stack)
  /\ UNCHANGED <<doc, op, workloads, input, outcome>>

\* edit: the last segment.
Edit ==
  /\ OnMapping
  /\ Seg.sel.kind = "none"
  /\ Rest = << >>
  /\ \/ Missing /\ Put(Leaf)
     \/ /\ ~Missing
        /\ plan[op].op = "set"
        /\ \/ T[V].kind # "scalar" /\ Conflict
           \/ T[V].kind = "scalar" /\ Holds(V) /\ Return
           \/ T[V].kind = "scalar" /\ ~Holds(V) /\ Put(Leaf)
     \/ /\ ~Missing
        /\ plan[op].op = "add"
        /\ \/ T[V].kind # "list" /\ Conflict
           \/ T[V].kind = "list" /\ ListHolds /\ Return
           \/ T[V].kind = "list" /\ ~ListHolds /\ AppendItem

-----------------------------------------------------------------------------
\* All documents are done.
Finish ==
  /\ Running
  /\ doc \notin DOMAIN tree
  /\ outcome' = IF workloads = 0 THEN "no workload" ELSE "patched"
  /\ UNCHANGED <<progress, input, tree, patches>>

\* The documents that changed, and Result.Manifest when they lie as in s.
Changed == {d \in DOMAIN tree : patches[d] # << >>}
Output(s) == IF Changed = {} THEN s ELSE Rendered(s, Changed)

\* The status of the reply to the request for the patch.
PatchStatus ==
  CASE outcome = "patched" -> 200
    [] outcome \in {"no workload", "conflict"} -> 422
    [] OTHER -> 500

\* The caller applies the plan to the manifest that Apply returned.
ApplyAgain ==
  /\ outcome = "patched"
  /\ round = 1
  /\ round' = 2
  /\ given' = tree
  /\ doc' = 1
  /\ op' = 0
  /\ workloads' = 0
  /\ patches' = [d \in DOMAIN tree |-> << >>]
  /\ outcome' = "running"
  /\ UNCHANGED <<container, plan, tree, stack, original>>

Next ==
  \/ Inspect \/ NextOperation \/ NotAMapping \/ Select \/ Item \/ Descend
  \/ Create \/ Edit \/ Finish \/ ApplyAgain

Spec == Init /\ [][Next]_vars

-----------------------------------------------------------------------------
\* Every variable is in its type, and the edited documents are trees.
TypeOK ==
  /\ doc \in 1..Len(tree) + 1
  /\ op \in 0..Len(plan)
  /\ workloads \in 0..Len(tree)
  /\ outcome \in {"running", "patched", "conflict", "no workload", "invalid plan"}
  /\ round \in 1..2
  /\ \A i \in DOMAIN stack : stack[i].n \in DOMAIN T
  /\ \A d \in DOMAIN tree : IsTree(tree[d])

\* The node of t that is at p once each alias is read as what it stands for.
Home(t, p) ==
  IF \E a \in Aliases(t) : IsPrefix(a, p)
    THEN LET a == CHOOSE a \in Aliases(t) : IsPrefix(a, p)
         IN  t[a].target \o Below(a, p)
    ELSE p

\* The JSON value of a document: each alias is a copy of what it stands for.
Json(t) ==
  LET copy(a) == {a \o Below(t[a].target, q) : q \in {x \in DOMAIN t : IsPrefix(t[a].target, x)}}
  IN  [p \in (DOMAIN t \ Aliases(t)) \cup UNION {copy(a) : a \in Aliases(t)} |-> t[Home(t, p)]]

\* RFC 6902, as far as patches use it; an operation without its target makes
\* the patch invalid.
Invalid == [p \in {} |-> << >>]
ApplyPatchOp(v, patch) ==
  LET parent == Front(patch.path)
      list == v[parent].kind = "list"
      at == IF list THEN parent \o <<ToString(Length(v, parent))>> ELSE patch.path
      legal == /\ parent \in DOMAIN v
               /\ IF list THEN Last(patch.path) = "-" ELSE v[parent].kind = "map"
               /\ patch.op = "replace" => at \in DOMAIN v
  IN  IF legal THEN Graft(v, at, patch.value) ELSE Invalid

\* An edit below an anchor also changes what its aliases stand for.
EditsShared(d) ==
  \E a \in Aliases(given[d]), i \in DOMAIN patches[d] :
    IsPrefix(given[d][a].target, patches[d][i].path)

ApplyPatch(v, ops) ==
  LET after[i \in 0..Len(ops)] == IF i = 0 THEN v ELSE ApplyPatchOp(after[i - 1], ops[i])
  IN  after[Len(ops)]

\* What the JSON Patch makes of the document that was given.
Patched(d) == ApplyPatch(Json(given[d]), patches[d])

\* The JSON Patch of a document turns the document that was given into the one
\* edited so far, also half-way (fixer.go:10-12, fixer_test.go:298-299), unless it
\* edits something that another part of the document shares by an alias.
PatchIsTheEdit == \A d \in DOMAIN tree : EditsShared(d) \/ Patched(d) = Json(tree[d])

\* The containers a plan is for, in the manifest first given.
Targeted(t) ==
  LET list == PodSpec(t) \o <<"containers">>
      named(c) == c \o <<"name">> \in DOMAIN t /\ t[c \o <<"name">>] = Scalar(container)
  IN  {c \in DOMAIN t : Len(c) = Len(list) + 1 /\ IsPrefix(list, c) /\ (container = "" \/ named(c))}

\* Where the i-th operation applies in container c.
Target(c, i) == c \o [j \in DOMAIN Tail(plan[i].path) |-> Tail(plan[i].path)[j].key]

Absent(v, p) == p \notin DOMAIN v \/ v[p].kind = "null"

\* What the plan asks of v.
Hardened(v, at, o) ==
  /\ at \in DOMAIN v
  /\ o.op = "set" => v[at] = Scalar(o.value)
  /\ o.op = "add" => \E k \in 0..Length(v, at) - 1 : v[at \o <<ToString(k)>>] = Scalar(o.value)

\* When Apply succeeds, every container the plan is for is hardened as the rule
\* says, and nothing else of the manifest has changed but what shares it by an
\* alias: not another container (rules.go:28-29), not another document, not an
\* item of a list the plan adds to.  No plan of a rule is refused.
HardensExactlyTheTargets ==
  /\ outcome # "running" => PatchStatus # 500
  /\ outcome = "patched" => \A d \in DOMAIN tree :
       LET before == Json(original[d])
           after == Json(tree[d])
           targets == IF IsWorkload(original[d])
                        THEN {<<Target(c, i), plan[i]>> : c \in Targeted(original[d]), i \in DOMAIN plan}
                        ELSE {}
           mayChange(p) == \E t \in targets :
                             \/ IsPrefix(p, t[1]) /\ Absent(before, p)
                             \/ t[2].op = "set" /\ p = t[1]
                             \/ t[2].op = "add" /\ IsPrefix(t[1], p) /\ p \notin DOMAIN before
       IN  /\ \A t \in targets : Hardened(after, t[1], t[2])
           /\ \A p \in DOMAIN before \cup DOMAIN after :
                ~mayChange(Home(original[d], p)) =>
                  p \in DOMAIN before /\ p \in DOMAIN after /\ before[p] = after[p]

\* The manifest that is returned is the stream of the edited documents, and the
\* documents of an ordinary stream that did not change "survive byte for byte"
\* (fixer.go:9-10), wherever the decoder sees lines end and however the documents
\* are divided.
ManifestIsTheEdit ==
  outcome = "patched" /\ round = 1 =>
    \A s \in Streams :
      Count(s) = Len(tree) => IsTheEdited(Output(s), s, Changed)

\* Applying the plan to what Apply returned changes nothing and finds no
\* conflict (fixer.go:94-95, api/openapi.yaml:193-194).
SecondApplyChangesNothing ==
  round = 2 =>
    /\ outcome \notin {"conflict", "no workload"}
    /\ \A d \in DOMAIN patches : patches[d] = << >>

-----------------------------------------------------------------------------
\* fixer_test.go:298-299 "verifies that the JSON Patch of every changed document
\* turns the original document into the patched one", and rules.go:28-29 says that
\* a plan targets one container when its name is known.
PatchGivesTheManifest == outcome = "patched" => \A d \in DOMAIN tree : Patched(d) = Json(tree[d])
=============================================================================
