------------------------------ MODULE Planning ------------------------------
(***************************************************************************)
(* Planning a task: POST /api/warrant/tasks, WarrantPlane.planAllocated,   *)
(* Orchestrator.plan, the splitters and the model policy. Requests to plan *)
(* run beside each other and beside everybody who commits to the shared    *)
(* document; each is a handler of several awaits, and a step is what it    *)
(* does between two of them.                                               *)
(*                                                                         *)
(* A title is the sequence of its words, a path that of its parts. A line  *)
(* of the document is one too, its mark at the front.                      *)
(***************************************************************************)
EXTENDS Integers, Sequences, SequencesExt, FiniteSetsExt, TLC

CONSTANTS
  Plans,      \* the requests
  Request,    \* the title, owners, maxSubtasks and sharedPaths of each
  Replies,    \* the lists of items the model may propose for each
  Fast, Deep, \* words that ask for a fast or a deep model
  Punctuation,\* words with no letter or digit in them
  MaxVersion  \* bound on the versions of the document

ASSUME PlanningAssumption ==
  /\ \A p \in Plans :
       /\ Request[p].owners # <<>> /\ Request[p].maxSubtasks \in Nat \ {0}
       /\ Request[p].shared \in BOOLEAN
       /\ Request[p].title \in Seq(STRING)
       /\ \A items \in Replies[p] :
            items \in Seq([title : Seq(STRING), description : Seq(STRING),
                           paths : SUBSET Seq(STRING)])
  /\ MaxVersion \in Nat

\* Numbers are written differently.
ASSUME NumeralAssumption ==
  \A p \in Plans : \A m, n \in 1 .. Request[p].maxSubtasks : ToString(m) = ToString(n) => m = n

VARIABLES
  plan,        \* each request: its stage, its subtasks and what it has read
  lastSource,  \* what produced the splitter's last split
  tasks,       \* the tasks the orchestrator lists
  doc,         \* the shared document and its version
  leased,      \* whether an agent holds the document's lease
  sections     \* the allocations: which agent holds which heading

planVars == << plan, lastSource, tasks, doc, leased, sections >>

-----------------------------------------------------------------------------
(* Splitting. *)

normalisePath(path) ==
  FoldLeft(LAMBDA out, part :
             IF part \in {"", "."} THEN out
             ELSE IF part # ".." THEN Append(out, part)
             ELSE IF out = <<>> THEN <<>> ELSE Front(out),
           <<>>, path)

slug(title) ==
  LET words == FoldLeft(LAMBDA kept, word : IF word \in Punctuation THEN kept
                                            ELSE Append(kept, word),
                        <<>>, title)
  IN  IF words = <<>> THEN << "work" >> ELSE words

\* What the rules say of a phase names the title again.
RuleSplit(title, max) ==
  LET phase(verb, says, place) ==
        [title |-> << verb >> \o title, description |-> << says >> \o title,
         paths |-> {place \o slug(title)}]
      phases == << phase("implement", "write", << "src" >>),
                   phase("configure", "add", << "src", "config" >>),
                   phase("test", "cover", << "tests" >>),
                   phase("document", "readme", << "docs" >>) >>
  IN  SubSeq(phases, 1, Min({max, Len(phases)}))

\* What an item may still have: a path claimed by an earlier one is dropped.
Claims(item, out) ==
  {normalisePath(path) : path \in item.paths}
    \ ({<<>>} \cup UNION {proposal.paths : proposal \in ToSet(out)})

parseArkProposals(items, max) ==
  FoldLeft(LAMBDA out, item :
             IF item.title = <<>> \/ Claims(item, out) = {} \/ Len(out) >= max THEN out
             ELSE Append(out, [title |-> item.title, description |-> item.description,
                               paths |-> Claims(item, out)]),
           <<>>, items)

selectTier(text, pathCount, dependencyCount) ==
  IF ToSet(text) \cap Fast # {} /\ pathCount <= 2 THEN "fast"
  ELSE IF ToSet(text) \cap Deep # {} \/ dependencyCount > 0 \/ pathCount >= 4 THEN "deep"
  ELSE "balanced"

HeadingLine(title) == << "##" >> \o title

\* Mutant: the second of a title gets a number, the third the same.
HeadingNumberedOnce(title, taken) ==
  IF HeadingLine(title) \in taken THEN Append(HeadingLine(title), ToString(2))
                                  ELSE HeadingLine(title)

Numbered(title, n) ==
  IF n = 1 THEN HeadingLine(title) ELSE Append(HeadingLine(title), ToString(n))

\* The heading of a subtask has its title, numbered while that one is taken.
Heading(title, taken) ==
  Numbered(title, Min({n \in 1 .. Cardinality(taken) + 1 : Numbered(title, n) \notin taken}))

Headings(proposals) ==
  FoldLeft(LAMBDA names, proposal : Append(names, Heading(proposal.title, ToSet(names))),
           <<>>, proposals)

\* Owners take turns. The warrant issued with each subtask names its paths.
Subtasks(p, proposals) ==
  LET owners   == Request[p].owners
      headings == Headings(proposals)
  IN  [i \in DOMAIN proposals |->
         [title   |-> proposals[i].title,
          paths   |-> proposals[i].paths,
          agentId |-> << p, i >>,
          ownerId |-> owners[((i - 1) % Len(owners)) + 1],
          model   |-> selectTier(proposals[i].title \o proposals[i].description,
                                 Cardinality(proposals[i].paths), 0),
          section |-> headings[i]]]

-----------------------------------------------------------------------------
(* The handler. *)

Placeholder == << "- (not started)" >>
Empty       == <<>>
TitleLine(p) == << "#" >> \o Request[p].title

\* The headings the lines lack, each with something an agent can append to.
Additions(p, lines, subtasks) ==
  FoldLeft(LAMBDA added, s : IF s.section \in ToSet(lines) THEN added
                             ELSE added \o << s.section, Placeholder, Empty >>,
           IF lines = <<>> THEN << TitleLine(p), Empty >> ELSE <<>>,
           subtasks)

Allocations(p) ==
  {[agentId |-> s.agentId, heading |-> s.section] : s \in ToSet(plan[p].subtasks)}

NoDocument == [lines |-> <<>>, version |-> 0]

PlanningInit ==
  /\ plan = [p \in Plans |-> [stage |-> "new", subtasks |-> <<>>, made |-> 0,
                              read |-> NoDocument, from |-> "none", splitter |-> "none"]]
  /\ lastSource = "ark"
  /\ tasks = {} /\ sections = {}
  /\ doc = NoDocument /\ leased = FALSE

\* ArkSplitter.split, up to the answer of the model.
Ask(p) ==
  /\ plan[p].stage = "new"
  /\ plan' = [plan EXCEPT ![p].stage = "splitting"]
  /\ lastSource' = "ark"
  /\ UNCHANGED << tasks, doc, leased, sections >>

\* What the model may make of each request, and what the rules make of it.
ArkSplits == [p \in Plans |->
  {Subtasks(p, parseArkProposals(items, Request[p].maxSubtasks)) : items \in Replies[p]}]

RuleSplits == [p \in Plans |->
  Subtasks(p, RuleSplit(Request[p].title, Request[p].maxSubtasks))]

Divide(p, subtasks, source) ==
  plan' = [plan EXCEPT ![p].stage = "workspaces", ![p].from = source, ![p].subtasks = subtasks]

Answered(p) ==
  /\ plan[p].stage = "splitting"
  /\ \E subtasks \in ArkSplits[p] \ {<<>>} : Divide(p, subtasks, "ark")
  /\ UNCHANGED << lastSource, tasks, doc, leased, sections >>

\* An outage, a reply nothing can be read from, or none for timeoutMs.
Fell(p) ==
  /\ plan[p].stage = "splitting"
  /\ lastSource' = "rule"
  /\ Divide(p, RuleSplits[p], "rule")
  /\ UNCHANGED << tasks, doc, leased, sections >>

MakeWorkspace(p) ==
  /\ plan[p].stage = "workspaces" /\ plan[p].made < Len(plan[p].subtasks)
  /\ plan' = [plan EXCEPT ![p].made = @ + 1]
  /\ UNCHANGED << lastSource, tasks, doc, leased, sections >>

\* A directory or a brief cannot be written: the request fails, and the
\* subtasks and warrants made so far stay, of a task that will never be.
WorkspaceFails(p) ==
  /\ plan[p].stage = "workspaces" /\ plan[p].made < Len(plan[p].subtasks)
  /\ plan' = [plan EXCEPT ![p].stage = "failed"]
  /\ UNCHANGED << lastSource, tasks, doc, leased, sections >>

\* The task is listed, and the document looked at for headings it lacks.
List(p) ==
  /\ plan[p].stage = "workspaces" /\ plan[p].made = Len(plan[p].subtasks)
  /\ tasks' = tasks \cup {p}
  /\ LET lacking == Request[p].shared /\ Additions(p, doc.lines, plan[p].subtasks) # <<>>
     IN  /\ plan' = [plan EXCEPT ![p].stage = IF lacking THEN "seeding" ELSE "done",
                                 ![p].splitter = lastSource, ![p].read = doc]
         /\ sections' = IF Request[p].shared /\ ~lacking THEN sections \cup Allocations(p)
                        ELSE sections
  /\ UNCHANGED << lastSource, doc, leased >>

\* Mutant: the seed is written over whatever the document has become.
SeedOver(p) ==
  /\ plan[p].stage = "seeding"
  /\ doc' = [lines   |-> plan[p].read.lines
                           \o Additions(p, plan[p].read.lines, plan[p].subtasks),
             version |-> doc.version + 1]
  /\ plan' = [plan EXCEPT ![p].stage = "saving"]
  /\ UNCHANGED << lastSource, tasks, leased, sections >>

(***************************************************************************)
(* writeAsHuman with the headings that were missing when it was read.      *)
(* Under a lease the request fails after its task was listed; a document   *)
(* that has moved on is left alone, and the headings allocated all the     *)
(* same.                                                                   *)
(***************************************************************************)
Seed(p) ==
  /\ plan[p].stage = "seeding"
  /\ \A q \in Plans : plan[q].stage # "saving"
  /\ \/ /\ leased
        /\ plan' = [plan EXCEPT ![p].stage = "failed"]
        /\ UNCHANGED << doc, sections >>
     \/ /\ ~leased /\ plan[p].read.version # doc.version
        /\ plan' = [plan EXCEPT ![p].stage = "done"]
        /\ sections' = sections \cup Allocations(p)
        /\ UNCHANGED doc
     \/ /\ ~leased /\ plan[p].read.version = doc.version
        /\ doc' = [lines   |-> plan[p].read.lines
                                 \o Additions(p, plan[p].read.lines, plan[p].subtasks),
                   version |-> doc.version + 1]
        /\ plan' = [plan EXCEPT ![p].stage = "saving"]
        /\ UNCHANGED sections
  /\ UNCHANGED << lastSource, tasks, leased >>

Saved(p) ==
  /\ plan[p].stage = "saving"
  /\ plan' = [plan EXCEPT ![p].stage = "done"]
  /\ sections' = sections \cup Allocations(p)
  /\ UNCHANGED << lastSource, tasks, doc, leased >>

SaveFails(p) ==
  /\ plan[p].stage = "saving"
  /\ plan' = [plan EXCEPT ![p].stage = "failed"]
  /\ UNCHANGED << lastSource, tasks, doc, leased, sections >>

\* Somebody else commits, in their turn: a line more, or any line less.
Edit ==
  /\ \A p \in Plans : plan[p].stage # "saving"
  /\ doc.version < MaxVersion
  /\ \E lines \in {Append(doc.lines, << "work" >>)}
                  \cup {RemoveAt(doc.lines, i) : i \in DOMAIN doc.lines} :
       doc' = [lines |-> lines, version |-> doc.version + 1]
  /\ UNCHANGED << plan, lastSource, tasks, leased, sections >>

\* An agent takes the lease, gives it back or lets it expire.
Lease ==
  /\ \A p \in Plans : plan[p].stage # "saving"
  /\ leased' = ~leased
  /\ UNCHANGED << plan, lastSource, tasks, doc, sections >>

Step(p) ==
  \/ Fell(p) \/ MakeWorkspace(p) \/ WorkspaceFails(p) \/ List(p)
  \/ Seed(p) \/ Saved(p) \/ SaveFails(p)

PlanningNext ==
  \/ \E p \in Plans : Ask(p) \/ Answered(p) \/ Step(p)
  \/ Edit \/ Lease

PlanningSpec == PlanningInit /\ [][PlanningNext]_planVars

\* The model is asked with a timer, files are written or cannot be, and the
\* section of a document is entered in turn: a request goes on by itself.
FairPlanning == PlanningSpec /\ \A p \in Plans : WF_planVars(Step(p))

-----------------------------------------------------------------------------
(* Properties. *)

PlanningTypeOK ==
  /\ \A p \in Plans :
       /\ plan[p].stage \in {"new", "splitting", "workspaces", "seeding", "saving",
                             "done", "failed"}
       /\ plan[p].made \in 0 .. Len(plan[p].subtasks)
  /\ lastSource \in {"ark", "rule"}
  /\ tasks \subseteq Plans
  /\ doc.version \in Nat /\ leased \in BOOLEAN

(***************************************************************************)
(* A split repeats nothing: no path, however it is spelled, and no section *)
(* is given to two subtasks of a task, each has a path of its own, and     *)
(* there are no more of them than were asked for - whatever the model      *)
(* proposes (parseArkProposals, Orchestrator.plan takenSections). A path   *)
(* beneath another is a path of its own here: see FilesHaveOneOwner.       *)
(***************************************************************************)
SplitRepeatsNothing ==
  \A p \in Plans :
    LET subtasks == plan[p].subtasks
    IN  /\ Len(subtasks) <= Request[p].maxSubtasks
        /\ plan[p].stage \notin {"new", "splitting"} => subtasks # <<>>
        /\ \A i, k \in DOMAIN subtasks :
             /\ subtasks[i].paths # {}
             /\ i # k => /\ subtasks[i].paths \cap subtasks[k].paths = {}
                         /\ subtasks[i].section # subtasks[k].section

(***************************************************************************)
(* Planning only adds to a document: what a step of it does to the lines   *)
(* leaves those that are there in place, whoever wrote them and whenever,  *)
(* and repeats no heading ("The seeding is additive", planAllocated).      *)
(***************************************************************************)
SeedLosesNothing ==
  [][plan' # plan =>
       /\ IsPrefix(doc.lines, doc'.lines)
       /\ \A i, k \in DOMAIN doc'.lines :
            /\ doc'.lines[i] \in {a.heading : a \in UNION {Allocations(p) : p \in Plans}}
            /\ i > Len(doc.lines) /\ doc'.lines[k] = doc'.lines[i]
            => k = i]_planVars

(***************************************************************************)
(* Every request to plan is answered, with a task or an error: a model     *)
(* that never answers, a lease and a lost race do not hold it up ("a       *)
(* planner outage must not take the platform down", ArkSplitter).          *)
(***************************************************************************)
PlansEnd ==
  \A p \in Plans : plan[p].stage # "new" ~> plan[p].stage \in {"done", "failed"}

(* What comments of the code say of planning, and it does not do. *)

\* "Overlapping paths would put two owners on one file ... Drop the later
\* claim" (splitter.ts:190-191). Equal ones are dropped; a grant covers what
\* is beneath it as well (resources.ts:51-60).
FilesHaveOneOwner ==
  \A p \in Plans : \A i, k \in DOMAIN plan[p].subtasks :
    i # k => \A a \in plan[p].subtasks[i].paths, b \in plan[p].subtasks[k].paths : ~IsPrefix(a, b)

\* "seeded so that every allocated section actually exists", and after a lost
\* race "The allocations below still hold" (warrant/index.ts).
AllocatedSectionsExist ==
  [][\A p \in Plans :
       plan[p].stage # "done" /\ plan'[p].stage = "done" /\ Request[p].shared =>
         \A a \in Allocations(p) : a.heading \in ToSet(doc'.lines)]_planVars

\* "The source of THIS split" (orchestrator.ts).
SourceIsOfThisSplit ==
  \A p \in Plans : plan[p].splitter \in {"none", plan[p].from}

\* "Exclusive by construction: the heading carries the subtask id's prefix"
\* (orchestrator.ts). It carries the title alone.
SectionsAreExclusive ==
  \A a, b \in sections : a.heading = b.heading => a.agentId = b.agentId

=============================================================================
