------------------------------- MODULE Turns -------------------------------
(***************************************************************************)
(* The turns of the agents of one task: work turns (warrant/routes.ts),    *)
(* consultations and re-iterations (review/*.ts), around the runner and    *)
(* the workspace reconciler, with the owner's stop, submit, approve and    *)
(* the integration of the task.                                            *)
(*                                                                         *)
(* A job is one request that runs an agent. Its handler is cut at its      *)
(* awaits: an action is what happens between two of them. A text is the    *)
(* set of the jobs whose edits are in it, so merge3 is set arithmetic.     *)
(***************************************************************************)
EXTENDS Naturals, FiniteSets

CONSTANTS
  Agents,            \* agents, each with the one subtask it was planned for
  Jobs,              \* requests that may run an agent
  AgentOf,           \* the agent of each job
  PurposeOf,         \* what each job runs it for
  Days,              \* sets of jobs: which requests are made at all
  Patient,           \* agents whose people wait for each answer before the next request
  Revocable,         \* agents whose warrant may end
  Failing,           \* what may throw for an agent: the materialize of a purpose, "reconcile"
  None               \* null

Purposes == {"turn", "consultation", "reiteration"}

ASSUME JobAssumption ==
  /\ AgentOf \in [Jobs -> Agents] /\ PurposeOf \in [Jobs -> Purposes]
  /\ None \notin Jobs
  /\ Patient \subseteq Agents /\ Days \subseteq SUBSET Jobs

VARIABLES
  state,      \* Subtask.state
  task,       \* Task.state
  version,    \* SharedDoc.version of the task's shared document
  canonical,  \* SharedDoc.content
  bases,      \* the store's merge base of each agent
  disk,       \* the document's file in each agent's workspace
  checkout,   \* WorkspaceReconciler.checkouts
  active,     \* the runner's active process of each agent
  job,        \* where the handler of each job is
  warranted,  \* whether each agent has a live warrant
  approved,   \* the own edits in the text each owner approved, or None (approvedBy)
  up          \* the server process

store == << version, canonical, bases >>
plan  == << task, warranted, approved, up >>
vars  == << state, store, disk, checkout, active, job, plan >>

States   == {"assigned", "in_progress", "submitted", "approved", "integrated"}
Places   == {"none", "never", "reading", "placing", "admitting", "running", "settling",
             "reconciling", "submitting", "returning", "restoring", "replacing", "done"}

Text     == SUBSET Jobs
Checkout == [version : Nat, content : Text]
NoText   == [version |-> 0, content |-> {}]

\* inside: whether the handler is in its try or in its catch. auto: nobody
\* awaits it. record: the consultation or re-iteration run of the reviewer.
Job == [at : Places, inside : {"try", "catch"}, marks : SUBSET {"auto", "cancelled"},
        seen : Checkout, record : {"none", "open", "closed"}]

NoJob == [at |-> "none", inside |-> "try", marks |-> {}, seen |-> NoText, record |-> "none"]

-----------------------------------------------------------------------------
Init ==
  /\ state = [a \in Agents |-> "assigned"]
  /\ task = "planned"
  /\ version = 0 /\ canonical = {}
  /\ bases = [a \in Agents |-> {}]
  /\ disk = [a \in Agents |-> {}]
  /\ checkout = [a \in Agents |-> NoText]
  /\ active = [a \in Agents |-> None]
  /\ \E made \in Days :
       job = [j \in Jobs |-> IF j \in made THEN NoJob ELSE [NoJob EXCEPT !.at = "never"]]
  /\ warranted = [a \in Agents |-> TRUE]
  /\ approved = [a \in Agents |-> None]
  /\ up = TRUE

setState(a, s) == state' = [state EXCEPT ![a] = s]

\* The handler of j is now as record r says.
Moves(j, r) == job' = [job EXCEPT ![j] = r]

Goes(j, place) == Moves(j, [job[j] EXCEPT !.at = place])

\* Enters the catch of the handler, which goes on at place.
Caught(j, place) == Moves(j, [job[j] EXCEPT !.at = place, !.inside = "catch"])

Closed(j) ==
  Moves(j, [job[j] EXCEPT !.at = "done",
                          !.record = IF @ = "open" THEN "closed" ELSE @])

\* Bound: people act on the agents of this day's requests only.
Today(a) == \E j \in Jobs : AgentOf[j] = a /\ job[j].at # "never"

UnderWay(j) == job[j].at \notin {"none", "never", "done"}

Ready(a) == a \in Patient => \A j \in Jobs : AgentOf[j] = a => ~UnderWay(j)

Opened(j, marks, record) ==
  [job[j] EXCEPT !.at = "reading", !.marks = marks, !.record = record]

(***************************************************************************)
(* startTurn up to its first await: the warrant is bound and the state is  *)
(* tested, but not claimed. A turn that is refused here answers with an    *)
(* error and is no action, unless autorun started it.                      *)
(***************************************************************************)
StartTurn(j) ==
  LET a == AgentOf[j]
  IN  /\ PurposeOf[j] = "turn" /\ job[j].at = "none" /\ Ready(a)
      /\ warranted[a]
      /\ state[a] # "in_progress"
      /\ Moves(j, Opened(j, {}, "none"))
      /\ UNCHANGED << state, store, disk, checkout, active, plan >>

\* autorun: every idle agent at once, and nobody awaits the promises. When
\* one is refused its rejection is unhandled, and Node ends the process.
Autorun ==
  LET worked == {AgentOf[j] : j \in {i \in Jobs : PurposeOf[i] = "turn"}}
      idle   == {a \in worked : state[a] = "assigned"}
  IN  /\ idle # {} /\ \A a \in idle : Ready(a)
      /\ \E start \in [idle -> Jobs] :
           /\ \A a \in idle : /\ AgentOf[start[a]] = a /\ PurposeOf[start[a]] = "turn"
                               /\ job[start[a]].at = "none"
           /\ job' = [j \in Jobs |-> IF j \in {start[a] : a \in idle} /\ warranted[AgentOf[j]]
                                     THEN Opened(j, {"auto"}, "none") ELSE job[j]]
      /\ up' = \A a \in idle : warranted[a]
      /\ UNCHANGED << state, store, disk, checkout, active, task, warranted, approved >>

\* Mutant: the state is tested but not claimed.
ClaimNothing(j, purpose) ==
  LET a == AgentOf[j]
  IN  /\ PurposeOf[j] = purpose /\ job[j].at = "none" /\ Ready(a)
      /\ warranted[a] /\ state[a] # "in_progress"
      /\ Moves(j, Opened(j, {}, "open"))
      /\ UNCHANGED << state, store, disk, checkout, active, plan >>

(***************************************************************************)
(* ask and runReiteration up to the first await: tested and claimed in one *)
(* step. When the binder refuses, the claim is given back and the record   *)
(* closed in the same step.                                                *)
(***************************************************************************)
Claim(j, purpose) ==
  LET a == AgentOf[j]
  IN  /\ PurposeOf[j] = purpose /\ job[j].at = "none" /\ Ready(a)
      /\ state[a] # "in_progress"
      /\ IF warranted[a]
         THEN /\ setState(a, "in_progress")
              /\ Moves(j, Opened(j, {}, "open"))
         ELSE /\ setState(a, "assigned")
              /\ Moves(j, [job[j] EXCEPT !.at = "done", !.record = "closed"])
      /\ UNCHANGED << store, disk, checkout, active, plan >>

Ask(j)       == Claim(j, "consultation")
Reiterate(j) == Claim(j, "reiteration")

-----------------------------------------------------------------------------
\* materialize: store.read in the document's chain, then the file. A read
\* the warrant does not cover leaves file and checkout as they are.
MaterializeRead(j) ==
  LET a == AgentOf[j]
  IN  /\ job[j].at \in {"reading", "restoring"}
      /\ warranted[a]
      /\ bases' = [bases EXCEPT ![a] = canonical]
      /\ Moves(j, [job[j] EXCEPT !.at = IF @ = "reading" THEN "placing" ELSE "replacing",
                                 !.seen = [version |-> version, content |-> canonical]])
      /\ UNCHANGED << state, version, canonical, disk, checkout, active, plan >>

Place(a, text) ==
  /\ disk' = [disk EXCEPT ![a] = text.content]
  /\ checkout' = [checkout EXCEPT ![a] = text]

\* What follows materialize: a turn claims its agent only now.
Materialized(j) ==
  /\ IF PurposeOf[j] = "turn"
     THEN setState(AgentOf[j], "in_progress") ELSE UNCHANGED state
  /\ Goes(j, "admitting")

MaterializeWrite(j) ==
  /\ job[j].at = "placing"
  /\ Place(AgentOf[j], job[j].seen)
  /\ Materialized(j)
  /\ UNCHANGED << store, active, plan >>

MaterializeDenied(j) ==
  /\ job[j].at = "reading"
  /\ ~warranted[AgentOf[j]]
  /\ Materialized(j)
  /\ UNCHANGED << store, disk, checkout, active, plan >>

\* Mutant: the catch of a consultation reconciles like the others.
FailsReconciles(j) ==
  /\ setState(AgentOf[j], "assigned")
  /\ Caught(j, "reconciling")

\* The catch of the handler: the claim is given back, and then the workspace
\* is restored (a consultation) or reconciled (a turn, a re-iteration).
Fails(j) ==
  /\ setState(AgentOf[j], "assigned")
  /\ Caught(j, IF PurposeOf[j] = "consultation" THEN "restoring" ELSE "reconciling")

\* Out of the catch: a turn rejects, and nobody is there when autorun
\* started it; the other two close their record.
Rejects(j) ==
  /\ Closed(j)
  /\ up' = ~(PurposeOf[j] = "turn" /\ "auto" \in job[j].marks)

\* A file operation of the first materialize throws. A turn has not claimed
\* anything; a consultation is inside its try; a re-iteration is not.
MaterializeFails(j) ==
  /\ job[j].at \in {"reading", "placing"}
  /\ PurposeOf[j] \in Failing[AgentOf[j]]
  /\ CASE PurposeOf[j] = "turn" ->
            /\ Rejects(j) /\ UNCHANGED state
       [] PurposeOf[j] = "consultation" ->
            /\ Fails(j) /\ UNCHANGED up
       [] PurposeOf[j] = "reiteration" ->
            /\ Goes(j, "done") /\ UNCHANGED << state, up >>
  /\ UNCHANGED << store, disk, checkout, active, task, warranted, approved >>

-----------------------------------------------------------------------------
(***************************************************************************)
(* The runner: one process per agent. A second one is refused, and so is   *)
(* what containment does not admit.                                        *)
(***************************************************************************)
Admit(j) ==
  /\ job[j].at = "admitting"
  /\ active[AgentOf[j]] = None
  /\ active' = [active EXCEPT ![AgentOf[j]] = j]
  /\ Goes(j, "running")
  /\ UNCHANGED << state, store, disk, checkout, plan >>

AdmitRefused(j) ==
  /\ job[j].at = "admitting"
  /\ Fails(j)
  /\ UNCHANGED << store, disk, checkout, active, plan >>

\* The process writes into the workspace; what it writes is named j.
Edit(j) ==
  /\ job[j].at = "running"
  /\ disk' = [disk EXCEPT ![AgentOf[j]] = @ \cup {j}]
  /\ UNCHANGED << state, store, checkout, active, job, plan >>

\* It ends, is killed by its timeout, or is killed by cancel; the runner
\* forgets it, and the handler hears of it later.
ProcessEnds(j) ==
  /\ job[j].at = "running"
  /\ active' = [active EXCEPT ![AgentOf[j]] = None]
  /\ \E inside \in IF "cancelled" \in job[j].marks THEN {"catch"} ELSE {"try", "catch"} :
       Moves(j, [job[j] EXCEPT !.at = "settling", !.inside = inside])
  /\ UNCHANGED << state, store, disk, checkout, plan >>

Settled(j) ==
  /\ job[j].at = "settling"
  /\ CASE job[j].inside = "catch" -> Fails(j)
       [] job[j].inside = "try" /\ PurposeOf[j] = "consultation" ->
            /\ setState(AgentOf[j], "assigned") /\ Goes(j, "restoring")
       [] job[j].inside = "try" /\ PurposeOf[j] # "consultation" ->
            /\ Goes(j, "reconciling") /\ UNCHANGED state
  /\ UNCHANGED << store, disk, checkout, active, plan >>

-----------------------------------------------------------------------------
\* Mutant: only the failure path gives the claim back.
FinishClaimed(j) == UNCHANGED state /\ Closed(j)

\* What follows reconcile: the end of the try gives the claim back, the end
\* of the catch has done so already.
Finish(j) ==
  /\ IF job[j].inside = "try" THEN setState(AgentOf[j], "assigned") ELSE UNCHANGED state
  /\ Closed(j)

\* reconcile: the file against the checkout. Where they agree nothing is
\* offered.
ReconcileRead(j) ==
  LET a == AgentOf[j]
  IN  /\ job[j].at = "reconciling"
      /\ IF disk[a] = checkout[a].content
         THEN Finish(j)
         ELSE /\ Moves(j, [job[j] EXCEPT !.at = "submitting",
                              !.seen = [version |-> checkout[a].version, content |-> disk[a]]])
              /\ UNCHANGED state
      /\ UNCHANGED << store, disk, checkout, active, plan >>

\* Mutant: the offer replaces the document.
Merge3Offer(base, theirs, mine) == mine

\* merge3 with base, of a document and an offer that differ in edits.
Merge3(base, theirs, mine) == (theirs \ (base \ mine)) \cup (mine \ base)

\* store.write in the document's chain: committed as it is or merged.
ReconcileWrite(j) ==
  LET a    == AgentOf[j]
      mine == job[j].seen.content
      text == IF job[j].seen.version = version
              THEN mine ELSE Merge3(bases[a], canonical, mine)
  IN  /\ job[j].at = "submitting"
      /\ warranted[a]
      /\ version' = version + 1
      /\ canonical' = text
      /\ bases' = [bases EXCEPT ![a] = text]
      /\ Moves(j, [job[j] EXCEPT !.at = "returning",
                                 !.seen = [version |-> version + 1, content |-> text]])
      /\ UNCHANGED << state, disk, checkout, active, plan >>

\* Denied, leased, outside of the section or in conflict.
ReconcileRefused(j) ==
  /\ job[j].at = "submitting"
  /\ Finish(j)
  /\ UNCHANGED << store, disk, checkout, active, plan >>

ReconcileReturn(j) ==
  /\ job[j].at = "returning"
  /\ Place(AgentOf[j], job[j].seen)
  /\ Finish(j)
  /\ UNCHANGED << store, active, plan >>

\* Writing the merged text back throws: from the try into the catch, which
\* reconciles once more, and out of the catch.
ReconcileFails(j) ==
  /\ job[j].at = "returning"
  /\ "reconcile" \in Failing[AgentOf[j]]
  /\ IF job[j].inside = "try"
     THEN Fails(j) /\ UNCHANGED up
     ELSE Rejects(j) /\ UNCHANGED state
  /\ UNCHANGED << store, disk, checkout, active, task, warranted, approved >>

\* The second materialize of a consultation, which discards what it wrote.
RestoreWrite(j) ==
  /\ job[j].at = "replacing"
  /\ Place(AgentOf[j], job[j].seen)
  /\ Closed(j)
  /\ UNCHANGED << state, store, active, plan >>

RestoreDenied(j) ==
  /\ job[j].at = "restoring"
  /\ ~warranted[AgentOf[j]]
  /\ Closed(j)
  /\ UNCHANGED << state, store, disk, checkout, active, plan >>

\* Mutant: a restore that fails leaves the record open.
RestoreFailsOpen(j) ==
  /\ job[j].at \in {"restoring", "replacing"}
  /\ "consultation" \in Failing[AgentOf[j]]
  /\ IF job[j].inside = "try" THEN Fails(j) ELSE Goes(j, "done") /\ UNCHANGED state
  /\ UNCHANGED << store, disk, checkout, active, plan >>

RestoreFails(j) ==
  /\ job[j].at \in {"restoring", "replacing"}
  /\ "consultation" \in Failing[AgentOf[j]]
  /\ IF job[j].inside = "try" THEN Fails(j) ELSE Closed(j) /\ UNCHANGED state
  /\ UNCHANGED << store, disk, checkout, active, plan >>

-----------------------------------------------------------------------------
(***************************************************************************)
(* The owner. Submit and stop ask for no state of the subtask.             *)
(***************************************************************************)
\* cancel kills the process when there is one. When there is none, a claim
\* that is seen is reset.
Stop(a) ==
  /\ a \notin Patient
  /\ IF active[a] # None
     THEN /\ Moves(active[a], [job[active[a]] EXCEPT !.marks = @ \cup {"cancelled"}])
          /\ UNCHANGED state
     ELSE /\ state[a] = "in_progress"
          /\ setState(a, "assigned")
          /\ UNCHANGED job
  /\ UNCHANGED << store, disk, checkout, active, plan >>

Submit(a) ==
  /\ Today(a) /\ Ready(a) /\ warranted[a]
  /\ setState(a, "submitted")
  /\ UNCHANGED << store, disk, checkout, active, job, plan >>

Approve(a) ==
  /\ state[a] = "submitted"
  /\ setState(a, "approved")
  /\ approved' = [approved EXCEPT ![a] = {j \in canonical : AgentOf[j] = a}]
  /\ UNCHANGED << store, disk, checkout, active, job, task, warranted, up >>

pendingApprovals == {a \in Agents : state[a] \notin {"approved", "integrated"}}

\* The policy allows it when allApproved; then markIntegrated.
Integrate ==
  /\ pendingApprovals = {}
  /\ state' = [a \in Agents |-> "integrated"]
  /\ task' = "integrated"
  /\ UNCHANGED << store, disk, checkout, active, job, warranted, approved, up >>

\* A warrant is revoked or expires.
EndWarrant(a) ==
  /\ Today(a) /\ a \in Revocable /\ warranted[a]
  /\ warranted' = [warranted EXCEPT ![a] = FALSE]
  /\ UNCHANGED << state, store, disk, checkout, active, job, task, approved, up >>

-----------------------------------------------------------------------------
\* What a handler that was started does, whatever the owner does.
Handler(j) ==
  \/ MaterializeRead(j) \/ MaterializeWrite(j) \/ MaterializeDenied(j)
  \/ MaterializeFails(j)
  \/ Admit(j) \/ AdmitRefused(j) \/ ProcessEnds(j) \/ Settled(j)
  \/ ReconcileRead(j) \/ ReconcileWrite(j) \/ ReconcileRefused(j)
  \/ ReconcileReturn(j) \/ ReconcileFails(j)
  \/ RestoreWrite(j) \/ RestoreDenied(j) \/ RestoreFails(j)

Request(j) == StartTurn(j) \/ Ask(j) \/ Reiterate(j)

Owner(a) == Stop(a) \/ Submit(a) \/ Approve(a) \/ EndWarrant(a)

Next ==
  /\ up
  /\ \/ \E j \in Jobs : Request(j) \/ Handler(j) \/ Edit(j)
     \/ Autorun \/ Integrate
     \/ \E a \in Agents : Owner(a)

Spec == Init /\ [][Next]_vars

\* File operations and writes to the store end, and a process ends by itself
\* or by the timeout of its runner.
Fairness == \A j \in Jobs : WF_vars(up /\ Handler(j))

FairSpec == Spec /\ Fairness

-----------------------------------------------------------------------------
TypeOK ==
  /\ state \in [Agents -> States] /\ task \in {"planned", "integrated"}
  /\ version \in Nat /\ canonical \in Text
  /\ bases \in [Agents -> Text] /\ disk \in [Agents -> Text]
  /\ checkout \in [Agents -> Checkout]
  /\ active \in [Agents -> Jobs \cup {None}]
  /\ job \in [Jobs -> Job]
  /\ warranted \in [Agents -> BOOLEAN]
  /\ approved \in [Agents -> Text \cup {None}]
  /\ up \in BOOLEAN

\* The stretches of a handler between taking the claim and giving it back.
Holds(j) ==
  \/ job[j].at \in {"admitting", "running", "settling"}
  \/ job[j].at \in {"reading", "placing"} /\ PurposeOf[j] # "turn"
  \/ job[j].at \in {"reconciling", "submitting", "returning"} /\ job[j].inside = "try"

\* A re-iteration whose materialize threw, outside of its try: nothing gives
\* its claim back and nothing closes its record (reiteration.ts:166).
Stranded(j) ==
  PurposeOf[j] = "reiteration" /\ job[j].at = "done" /\ job[j].record = "open"

(***************************************************************************)
(* An agent that reads "in progress" is held by a request that will give   *)
(* it back: no throw, stop, submission or overlap with another request of  *)
(* the agent leaves it claimed (the comments at consultation.ts:167 and    *)
(* routes.ts:333) - but for one path, the materialize of a re-iteration.   *)
(* The claim that path leaves is the only kind there is.                   *)
(***************************************************************************)
NoStuckClaim ==
  \A a \in Agents : state[a] = "in_progress" =>
    \E j \in Jobs : AgentOf[j] = a /\ (Holds(j) \/ Stranded(j))

(***************************************************************************)
(* What an agent wrote while it answered a question never reaches the      *)
(* shared document (consultation.ts:62, 187), also when its restore is     *)
(* denied or fails and the next request of the agent reconciles. Stated    *)
(* for the agents whose people wait for each answer.                       *)
(***************************************************************************)
ConsultationChangesNothing ==
  \A j \in Jobs : PurposeOf[j] = "consultation" /\ AgentOf[j] \in Patient
                  => j \notin canonical

(***************************************************************************)
(* What the reconciler submits after a turn undoes nothing that was        *)
(* committed since its agent read the document: file, checkout and merge   *)
(* base of the agent go together (reconcile.ts:150, store.ts:668).         *)
(***************************************************************************)
TurnsUndoNothing ==
  [][\A j \in Jobs : job[j].at = "submitting" /\ job'[j].at = "returning"
                     /\ AgentOf[j] \in Patient
                     => canonical \subseteq canonical']_vars

(***************************************************************************)
(* When the task is integrated, the document holds no work of an agent     *)
(* that its owner had not seen when approving (orchestrator.ts:10), for    *)
(* owners who submit when nothing of the agent is under way, on days when  *)
(* no other agent has two overlapping requests.                            *)
(***************************************************************************)
IntegratedWorkIsApproved ==
  [][task = "planned" /\ task' = "integrated" =>
       \A a \in Patient : {j \in canonical : AgentOf[j] = a} \subseteq approved[a]]_vars

(***************************************************************************)
(* Every claim is given back and every record that a reviewer watches is   *)
(* closed: again and again all is quiet, unless the server went down, or a *)
(* re-iteration died in its materialize, whose agent and record stay       *)
(* behind.                                                                 *)
(***************************************************************************)
RunsEnd ==
  []<>(up => /\ \A a \in Agents : state[a] = "in_progress" =>
                  \E j \in Jobs : AgentOf[j] = a /\ Stranded(j)
             /\ \A j \in Jobs : job[j].record = "open" => Stranded(j))

(***************************************************************************)
(* The same without the exception, which is what the comments at           *)
(* consultation.ts:167, routes.ts:333 and reiteration.ts:140 promise: an   *)
(* agent in progress is at work, and a run that was opened is closed.      *)
(***************************************************************************)
ClaimsAreGivenBack ==
  \A a \in Agents : state[a] = "in_progress" => \E j \in Jobs : AgentOf[j] = a /\ Holds(j)

EveryRunEnds == []<>(up => \A j \in Jobs : job[j].record # "open")

(***************************************************************************)
(* No consultation changes anything, of no agent: "no path from here to    *)
(* consultation" is what consultation.ts:62 says of the code.              *)
(***************************************************************************)
ConsultationsChangeNothing ==
  \A j \in Jobs : PurposeOf[j] = "consultation" => j \notin canonical

=============================================================================
