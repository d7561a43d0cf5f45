---------------------------- MODULE TurnsProofs ----------------------------
(***************************************************************************)
(* What holds of the turns for any agents, jobs, purposes and people: the  *)
(* type invariant; every claim is held, or left by a re-iteration that     *)
(* died; what consultations wrote stays out of the document; what a        *)
(* patient agent submits undoes nothing; what is integrated was approved.  *)
(***************************************************************************)
EXTENDS Turns, TLAPS

USE JobAssumption

\* Moving a job changes the record of that job only.
LEMMA MovesOne ==
  ASSUME TypeOK, NEW j \in Jobs, NEW r \in Job, Moves(j, r)
  PROVE  /\ job' \in [Jobs -> Job] /\ job'[j] = r
         /\ \A i \in Jobs \ {j} : job'[i] = job[i]
BY DEF TypeOK, Moves

\* The records a handler moves to.
LEMMA GoesTo ==
  ASSUME TypeOK, NEW j \in Jobs, NEW place \in Places
  PROVE  /\ [job[j] EXCEPT !.at = place] \in Job
         /\ [job[j] EXCEPT !.at = place].at = place
         /\ [job[j] EXCEPT !.at = place].inside = job[j].inside
<1>1. job[j] \in Job
  BY DEF TypeOK
<1> QED BY <1>1 DEF Job

LEMMA CaughtTo ==
  ASSUME TypeOK, NEW j \in Jobs, NEW place \in Places, NEW inside \in {"try", "catch"}
  PROVE  [job[j] EXCEPT !.at = place, !.inside = inside] \in Job
<1>1. job[j] \in Job
  BY DEF TypeOK
<1> QED BY <1>1 DEF Job

LEMMA ClosedTo ==
  ASSUME TypeOK, NEW j \in Jobs, NEW record \in {"none", "open", "closed"}
  PROVE  /\ [job[j] EXCEPT !.at = "done", !.record = record] \in Job
         /\ [job[j] EXCEPT !.at = "done",
                           !.record = IF @ = "open" THEN "closed" ELSE @] \in Job
<1>1. job[j] \in Job
  BY DEF TypeOK
<1> QED BY <1>1 DEF Job, Places

LEMMA SeesTo ==
  ASSUME TypeOK, NEW j \in Jobs, NEW place \in Places, NEW v \in Nat, NEW c \in Text
  PROVE  [job[j] EXCEPT !.at = place, !.seen = [version |-> v, content |-> c]] \in Job
<1>1. job[j] \in Job /\ [version |-> v, content |-> c] \in Checkout
  BY DEF TypeOK, Checkout
<1> QED BY <1>1 DEF Job

LEMMA SeesAs ==
  ASSUME TypeOK, NEW j \in Jobs, NEW place, NEW seen
  PROVE  /\ [job[j] EXCEPT !.at = place, !.seen = seen].at = place
         /\ [job[j] EXCEPT !.at = place, !.seen = seen].inside = job[j].inside
<1>1. job[j] \in Job
  BY DEF TypeOK
<1> QED BY <1>1 DEF Job

LEMMA OpenedTo ==
  ASSUME TypeOK, NEW j \in Jobs, NEW marks \in SUBSET {"auto", "cancelled"},
         NEW record \in {"none", "open", "closed"}
  PROVE  Opened(j, marks, record) \in Job
<1>1. job[j] \in Job
  BY DEF TypeOK
<1> QED BY <1>1 DEF Job, Opened, Places

\* What the steps out of a place do to the jobs.
LEMMA GoesTyped ==
  ASSUME TypeOK, NEW j \in Jobs, NEW place \in Places, Goes(j, place)
  PROVE  /\ job' \in [Jobs -> Job] /\ job'[j] = [job[j] EXCEPT !.at = place]
         /\ \A i \in Jobs \ {j} : job'[i] = job[i]
BY GoesTo, MovesOne DEF Goes

LEMMA ClosedTyped ==
  ASSUME TypeOK, NEW j \in Jobs, Closed(j)
  PROVE  /\ job' \in [Jobs -> Job]
         /\ \A i \in Jobs \ {j} : job'[i] = job[i]
BY ClosedTo, MovesOne DEF Closed

LEMMA StateTyped ==
  ASSUME TypeOK, NEW a \in Agents, NEW s \in States, setState(a, s)
  PROVE  /\ state' \in [Agents -> States] /\ state'[a] = s
         /\ \A b \in Agents \ {a} : state'[b] = state[b]
BY DEF TypeOK, setState

LEMMA FailsTyped ==
  ASSUME TypeOK, NEW j \in Jobs, Fails(j)
  PROVE  /\ state' \in [Agents -> States] /\ job' \in [Jobs -> Job]
         /\ \A i \in Jobs \ {j} : job'[i] = job[i]
<1>1. AgentOf[j] \in Agents
  OBVIOUS
<1>2. PICK place \in {"restoring", "reconciling"} : Caught(j, place)
  BY DEF Fails
<1>3. [job[j] EXCEPT !.at = place, !.inside = "catch"] \in Job
  BY CaughtTo DEF Places
<1>4. state' \in [Agents -> States]
  BY <1>1, StateTyped DEF Fails, States
<1> QED BY <1>2, <1>3, <1>4, MovesOne DEF Caught

LEMMA FinishTyped ==
  ASSUME TypeOK, NEW j \in Jobs, Finish(j)
  PROVE  state' \in [Agents -> States] /\ job' \in [Jobs -> Job]
<1>1. AgentOf[j] \in Agents
  OBVIOUS
<1>2. state' \in [Agents -> States]
  BY <1>1, StateTyped DEF Finish, TypeOK, States
<1> QED BY <1>2, ClosedTyped DEF Finish

LEMMA PlaceTyped ==
  ASSUME TypeOK, NEW j \in Jobs, Place(AgentOf[j], job[j].seen)
  PROVE  disk' \in [Agents -> Text] /\ checkout' \in [Agents -> Checkout]
<1>1. AgentOf[j] \in Agents /\ job[j].seen \in Checkout /\ job[j].seen.content \in Text
  BY DEF TypeOK, Job, Checkout
<1> QED BY <1>1 DEF Place, TypeOK

LEMMA MaterializedTyped ==
  ASSUME TypeOK, NEW j \in Jobs, Materialized(j)
  PROVE  /\ state' \in [Agents -> States] /\ job' \in [Jobs -> Job]
         /\ job'[j].at = "admitting"
         /\ \A i \in Jobs \ {j} : job'[i] = job[i]
<1>1. AgentOf[j] \in Agents
  OBVIOUS
<1>2. state' \in [Agents -> States]
  BY <1>1, StateTyped DEF Materialized, TypeOK, States
<1>3. "admitting" \in Places
  BY DEF Places
<1>4. job' \in [Jobs -> Job] /\ job'[j] = [job[j] EXCEPT !.at = "admitting"]
      /\ \A i \in Jobs \ {j} : job'[i] = job[i]
  BY <1>3, GoesTyped DEF Materialized
<1>5. [job[j] EXCEPT !.at = "admitting"].at = "admitting"
  BY <1>3, GoesTo
<1> QED BY <1>2, <1>4, <1>5

LEMMA MergeTyped ==
  ASSUME NEW b \in Text, NEW t \in Text, NEW m \in Text
  PROVE  Merge3(b, t, m) \in Text
BY DEF Merge3, Text

\* The types are kept by what a handler does.
LEMMA HandlerTyped ==
  ASSUME TypeOK, NEW j \in Jobs, Handler(j)
  PROVE  TypeOK'
<1> USE DEF store, plan
<1>a. AgentOf[j] \in Agents /\ job[j] \in Job
  BY DEF TypeOK
<1>1. CASE MaterializeRead(j)
  <2>1. version \in Nat /\ canonical \in Text
    BY DEF TypeOK
  <2>2. PICK place \in {"placing", "replacing"} :
          Moves(j, [job[j] EXCEPT !.at = place,
                                  !.seen = [version |-> version, content |-> canonical]])
    BY <1>1 DEF MaterializeRead
  <2>3. job' \in [Jobs -> Job]
    BY <2>1, <2>2, SeesTo, MovesOne, ZenonT(40) DEF Places
  <2> QED BY <1>1, <1>a, <2>1, <2>3 DEF MaterializeRead, TypeOK
<1>2. CASE MaterializeWrite(j)
  BY <1>2, PlaceTyped, MaterializedTyped DEF MaterializeWrite, TypeOK
<1>3. CASE MaterializeDenied(j)
  BY <1>3, MaterializedTyped DEF MaterializeDenied, TypeOK
<1>4. CASE MaterializeFails(j)
  BY <1>4, FailsTyped, GoesTyped, ClosedTyped DEF MaterializeFails, Rejects, TypeOK, Purposes, Places
<1>5. CASE Admit(j)
  BY <1>5, <1>a, GoesTyped DEF Admit, TypeOK, Places
<1>6. CASE AdmitRefused(j)
  BY <1>6, FailsTyped DEF AdmitRefused, TypeOK
<1>7. CASE ProcessEnds(j)
  <2>1. PICK inside \in {"try", "catch"} :
          Moves(j, [job[j] EXCEPT !.at = "settling", !.inside = inside])
    BY <1>7 DEF ProcessEnds
  <2>2. job' \in [Jobs -> Job]
    BY <2>1, CaughtTo, MovesOne DEF Places
  <2> QED BY <1>7, <1>a, <2>2 DEF ProcessEnds, TypeOK
<1>8. CASE Settled(j)
  <2>1. job[j].inside \in {"try", "catch"}
    BY <1>a DEF Job
  <2> QED BY <1>8, <1>a, <2>1, FailsTyped, GoesTyped, StateTyped DEF Settled, TypeOK, Places, States
<1>9. CASE ReconcileRead(j)
  <2>1. CASE disk[AgentOf[j]] = checkout[AgentOf[j]].content
    BY <1>9, <2>1, FinishTyped DEF ReconcileRead, TypeOK
  <2>2. CASE disk[AgentOf[j]] # checkout[AgentOf[j]].content
    <3>1. checkout[AgentOf[j]].version \in Nat /\ disk[AgentOf[j]] \in Text
      BY <1>a DEF TypeOK, Checkout
    <3>2. job' \in [Jobs -> Job]
      BY <1>9, <2>2, <3>1, SeesTo, MovesOne, ZenonT(40) DEF ReconcileRead, Places
    <3> QED BY <1>9, <2>2, <3>2 DEF ReconcileRead, TypeOK
  <2> QED BY <2>1, <2>2
<1>10. CASE ReconcileWrite(j)
  <2> DEFINE a    == AgentOf[j]
             mine == job[j].seen.content
             text == IF job[j].seen.version = version THEN mine ELSE Merge3(bases[a], canonical, mine)
  <2>1. mine \in Text /\ bases[a] \in Text /\ canonical \in Text
    BY <1>a DEF TypeOK, Job, Checkout
  <2>2. text \in Text
    BY <2>1, MergeTyped
  <2>3. canonical' = text /\ bases' = [bases EXCEPT ![a] = text] /\ version' = version + 1
        /\ Moves(j, [job[j] EXCEPT !.at = "returning",
                                   !.seen = [version |-> version + 1, content |-> text]])
        /\ UNCHANGED << state, disk, checkout, active, plan >>
    BY <1>10 DEF ReconcileWrite
  <2> HIDE DEF text
  <2>4. version + 1 \in Nat
    BY DEF TypeOK
  <2>5. job' \in [Jobs -> Job]
    BY <2>2, <2>3, <2>4, SeesTo, MovesOne, ZenonT(40) DEF Places
  <2> QED BY <2>2, <2>3, <2>4, <2>5, <1>a DEF TypeOK
<1>11. CASE ReconcileRefused(j)
  BY <1>11, FinishTyped DEF ReconcileRefused, TypeOK
<1>12. CASE ReconcileReturn(j)
  BY <1>12, PlaceTyped, FinishTyped DEF ReconcileReturn, TypeOK
<1>13. CASE ReconcileFails(j)
  BY <1>13, FailsTyped, ClosedTyped DEF ReconcileFails, Rejects, TypeOK
<1>14. CASE RestoreWrite(j)
  BY <1>14, PlaceTyped, ClosedTyped DEF RestoreWrite, TypeOK
<1>15. CASE RestoreDenied(j)
  BY <1>15, ClosedTyped DEF RestoreDenied, TypeOK
<1>16. CASE RestoreFails(j)
  BY <1>16, FailsTyped, ClosedTyped DEF RestoreFails, TypeOK
<1> QED
  BY <1>1, <1>2, <1>3, <1>4, <1>5, <1>6, <1>7, <1>8, <1>9, <1>10, <1>11, <1>12,
     <1>13, <1>14, <1>15, <1>16 DEF Handler

(***************************************************************************)
(* Every variable of Turns keeps its type: texts are edits of known jobs,  *)
(* handlers are at known places, states are those of Subtask.state.        *)
(***************************************************************************)
THEOREM TypeCorrect == Spec => []TypeOK
<1> USE DEF store, plan
<1>1. Init => TypeOK
  <2>1. NoText \in Checkout /\ {} \in Text
    BY DEF NoText, Checkout, Text
  <2>2. NoJob \in Job /\ [NoJob EXCEPT !.at = "never"] \in Job
    BY <2>1 DEF NoJob, Job, Places
  <2> QED BY <2>1, <2>2 DEF Init, TypeOK, States
<1>2. TypeOK /\ [Next]_vars => TypeOK'
  <2> SUFFICES ASSUME TypeOK, [Next]_vars
               PROVE  TypeOK'
    OBVIOUS
  <2>1. CASE UNCHANGED vars
    BY <2>1 DEF vars, TypeOK
  <2>2. ASSUME NEW j \in Jobs, StartTurn(j)
        PROVE  TypeOK'
    BY <2>2, OpenedTo, MovesOne DEF StartTurn, TypeOK
  <2>3. ASSUME NEW j \in Jobs, NEW purpose \in Purposes, Claim(j, purpose)
        PROVE  TypeOK'
    <3>1. AgentOf[j] \in Agents
      OBVIOUS
    <3>2. job' \in [Jobs -> Job]
      BY <2>3, OpenedTo, ClosedTo, MovesOne DEF Claim
    <3>3. state' \in [Agents -> States]
      BY <2>3, <3>1, StateTyped DEF Claim, States
    <3> QED BY <2>3, <3>2, <3>3 DEF Claim, TypeOK
  <2>4. ASSUME NEW j \in Jobs, Handler(j)
        PROVE  TypeOK'
    BY <2>4, HandlerTyped
  <2>5. ASSUME NEW j \in Jobs, Edit(j)
        PROVE  TypeOK'
    BY <2>5 DEF Edit, TypeOK, Text
  <2>6. CASE Autorun
    <3>1. \A j \in Jobs : Opened(j, {"auto"}, "none") \in Job /\ job[j] \in Job
      BY OpenedTo DEF TypeOK
    <3>2. job' \in [Jobs -> Job]
      BY <2>6, <3>1 DEF Autorun
    <3>3. up' \in BOOLEAN
      BY <2>6 DEF Autorun
    <3> QED BY <2>6, <3>2, <3>3 DEF Autorun, TypeOK
  <2>7. CASE Integrate
    BY <2>7 DEF Integrate, TypeOK, States
  <2>8. ASSUME NEW a \in Agents, Owner(a)
        PROVE  TypeOK'
    <3>1. CASE Stop(a)
      <4>1. ASSUME NEW j \in Jobs
            PROVE  [job[j] EXCEPT !.marks = @ \cup {"cancelled"}] \in Job
        BY DEF TypeOK, Job
      <4>2. active[a] \in Jobs \cup {None}
        BY DEF TypeOK
      <4>3. CASE active[a] # None
        BY <3>1, <4>1, <4>2, <4>3, MovesOne DEF Stop, TypeOK
      <4>4. CASE active[a] = None
        BY <3>1, <4>4, StateTyped DEF Stop, TypeOK, States
      <4> QED BY <4>3, <4>4
    <3>2. CASE Submit(a)
      BY <3>2, StateTyped DEF Submit, TypeOK, States
    <3>3. CASE Approve(a)
      BY <3>3, StateTyped DEF Approve, TypeOK, States, Text
    <3>4. CASE EndWarrant(a)
      BY <3>4 DEF EndWarrant, TypeOK
    <3> QED BY <2>8, <3>1, <3>2, <3>3, <3>4 DEF Owner
  <2> QED
    BY <2>1, <2>2, <2>3, <2>4, <2>5, <2>6, <2>7, <2>8
       DEF Next, Request, Ask, Reiterate, Purposes
<1> QED
  BY <1>1, <1>2, PTL DEF Spec

-----------------------------------------------------------------------------
\* An agent has one request today, or its people wait for each answer.
Single(a) ==
  \A i, j \in Jobs : AgentOf[i] = a /\ AgentOf[j] = a
                     /\ job[i].at # "never" /\ job[j].at # "never" => i = j

Careful(a) == a \in Patient \/ Single(a)

\* Only a consultation restores, and it never reconciles.
Role(j, r) ==
  /\ r.at \in {"restoring", "replacing"} => PurposeOf[j] = "consultation"
  /\ r.at \in {"reconciling", "submitting", "returning"} => PurposeOf[j] # "consultation"

Roles == \A j \in Jobs : Role(j, job[j])

\* A careful agent has one request under way.
Alone ==
  \A i, j \in Jobs : UnderWay(i) /\ UnderWay(j) /\ AgentOf[i] = AgentOf[j]
                     /\ Careful(AgentOf[i]) => i = j

\* What a step of a handler does to texts: it reads the document, writes what
\* it has seen into the file, offers the file, commits the offer, or goes on.
Fetches(j) ==
  LET a == AgentOf[j]
  IN  /\ job[j].at \in {"reading", "restoring"} /\ warranted[a]
      /\ job'[j].at = IF job[j].at = "reading" THEN "placing" ELSE "replacing"
      /\ job'[j].seen = [version |-> version, content |-> canonical]
      /\ bases' = [bases EXCEPT ![a] = canonical]
      /\ UNCHANGED << version, canonical, disk, checkout >>

Puts(j) ==
  /\ job[j].at \in {"placing", "replacing", "returning"}
  /\ job'[j].at = IF job[j].at = "placing" THEN "admitting" ELSE "done"
  /\ job'[j].seen = job[j].seen
  /\ Place(AgentOf[j], job[j].seen)
  /\ UNCHANGED store

Offers(j) ==
  LET a == AgentOf[j]
  IN  /\ job[j].at = "reconciling" /\ job'[j].at = "submitting"
      /\ job'[j].seen = [version |-> checkout[a].version, content |-> disk[a]]
      /\ UNCHANGED << store, disk, checkout >>

Commits(j) ==
  LET a    == AgentOf[j]
      mine == job[j].seen.content
  IN  /\ job[j].at = "submitting" /\ warranted[a] /\ job'[j].at = "returning"
      /\ canonical' = IF job[j].seen.version = version
                      THEN mine ELSE Merge3(bases[a], canonical, mine)
      /\ version' = version + 1
      /\ bases' = [bases EXCEPT ![a] = canonical']
      /\ job'[j].seen = [version |-> version + 1, content |-> canonical']
      /\ UNCHANGED << disk, checkout >>

GoesOn(j) ==
  LET a == AgentOf[j]
  IN  /\ job'[j].seen = job[j].seen
      /\ UNCHANGED << store, disk, checkout >>
      /\ \/ job'[j].at = "done"
         \/ job[j].at = "reading" /\ ~warranted[a] /\ job'[j].at = "admitting"
         \/ job[j].at \in {"admitting", "running"} /\ job'[j].at \in {"running", "settling"}
         \/ PurposeOf[j] = "consultation" /\ job'[j].at = "restoring"
         \/ /\ PurposeOf[j] # "consultation" /\ job'[j].at = "reconciling"
            /\ \/ job[j].at \in {"admitting", "settling"}
               \/ job[j].at = "returning" /\ "reconcile" \in Failing[a]

\* What it does to the agents: the others are left alone.
Meanwhile(j) ==
  LET a == AgentOf[j]
  IN  /\ UnderWay(j) /\ \A i \in Jobs \ {j} : job'[i] = job[i]
      /\ \A b \in Agents \ {a} : state'[b] = state[b]
      /\ state'[a] = state[a] \/ state'[a] \in {"assigned", "in_progress"}
      /\ job'[j].at = "admitting" /\ PurposeOf[j] = "turn" => state'[a] = "in_progress"
      /\ UNCHANGED << task, warranted, approved >>

LEMMA CatchesAs ==
  ASSUME TypeOK, NEW j \in Jobs, NEW place \in Places, NEW inside \in {"try", "catch"},
         Moves(j, [job[j] EXCEPT !.at = place, !.inside = inside])
  PROVE  /\ job'[j].at = place /\ job'[j].seen = job[j].seen
         /\ \A i \in Jobs \ {j} : job'[i] = job[i]
<1>1. job[j] \in Job
  BY DEF TypeOK
<1> DEFINE r == [job[j] EXCEPT !.at = place, !.inside = inside]
<1>2. r.at = place /\ r.seen = job[j].seen
  BY <1>1 DEF Job
<1>3. r \in Job
  BY CaughtTo
<1>4. Moves(j, r)
  OBVIOUS
<1> HIDE DEF r
<1> QED BY <1>2, <1>3, <1>4, MovesOne

LEMMA GoesAs ==
  ASSUME TypeOK, NEW j \in Jobs, NEW place \in Places, Goes(j, place)
  PROVE  /\ job'[j].at = place /\ job'[j].seen = job[j].seen
         /\ \A i \in Jobs \ {j} : job'[i] = job[i]
<1>1. job[j] \in Job
  BY DEF TypeOK
<1>2. [job[j] EXCEPT !.at = place].at = place /\ [job[j] EXCEPT !.at = place].seen = job[j].seen
  BY <1>1 DEF Job
<1> QED BY <1>2, GoesTyped

LEMMA ClosesAs ==
  ASSUME TypeOK, NEW j \in Jobs, Closed(j)
  PROVE  /\ job'[j].at = "done" /\ job'[j].seen = job[j].seen
         /\ \A i \in Jobs \ {j} : job'[i] = job[i]
<1>1. job[j] \in Job
  BY DEF TypeOK
<1> DEFINE r == [job[j] EXCEPT !.at = "done", !.record = IF @ = "open" THEN "closed" ELSE @]
<1>2. r.at = "done" /\ r.seen = job[j].seen
  BY <1>1 DEF Job
<1>3. r \in Job
  BY ClosedTo, "open" \in {"none", "open", "closed"}
<1>4. Moves(j, r)
  BY DEF Closed
<1> HIDE DEF r
<1> QED BY <1>2, <1>3, <1>4, MovesOne

LEMMA FailsAs ==
  ASSUME TypeOK, NEW j \in Jobs, Fails(j)
  PROVE  /\ job'[j].at = IF PurposeOf[j] = "consultation" THEN "restoring" ELSE "reconciling"
         /\ job'[j].seen = job[j].seen
         /\ \A i \in Jobs \ {j} : job'[i] = job[i]
         /\ state'[AgentOf[j]] = "assigned"
         /\ \A b \in Agents \ {AgentOf[j]} : state'[b] = state[b]
<1>1. AgentOf[j] \in Agents /\ "assigned" \in States
  BY DEF States
<1> DEFINE place == IF PurposeOf[j] = "consultation" THEN "restoring" ELSE "reconciling"
<1>2. place \in Places
  BY DEF Places
<1>3. Moves(j, [job[j] EXCEPT !.at = place, !.inside = "catch"])
  BY DEF Fails, Caught
<1> HIDE DEF place
<1>4. /\ job'[j].at = place /\ job'[j].seen = job[j].seen
      /\ \A i \in Jobs \ {j} : job'[i] = job[i]
  BY <1>2, <1>3, CatchesAs
<1>5. /\ state'[AgentOf[j]] = "assigned"
      /\ \A b \in Agents \ {AgentOf[j]} : state'[b] = state[b]
  BY <1>1, StateTyped DEF Fails
<1> QED BY <1>4, <1>5 DEF place

LEMMA FinishAs ==
  ASSUME TypeOK, NEW j \in Jobs, Finish(j)
  PROVE  /\ job'[j].at = "done" /\ job'[j].seen = job[j].seen
         /\ \A i \in Jobs \ {j} : job'[i] = job[i]
         /\ \A b \in Agents \ {AgentOf[j]} : state'[b] = state[b]
         /\ state'[AgentOf[j]] \in {state[AgentOf[j]], "assigned"}
<1>1. AgentOf[j] \in Agents /\ "assigned" \in States
  BY DEF States
<1>2. CASE job[j].inside = "try"
  <2>1. setState(AgentOf[j], "assigned") /\ Closed(j)
    BY <1>2 DEF Finish
  <2>2. /\ state'[AgentOf[j]] = "assigned"
        /\ \A b \in Agents \ {AgentOf[j]} : state'[b] = state[b]
    BY <1>1, <2>1, StateTyped
  <2> QED BY <2>1, <2>2, ClosesAs
<1>3. CASE job[j].inside # "try"
  BY <1>3, ClosesAs DEF Finish
<1> QED BY <1>2, <1>3

LEMMA MaterializedAs ==
  ASSUME TypeOK, NEW j \in Jobs, Materialized(j)
  PROVE  /\ job'[j].at = "admitting" /\ job'[j].seen = job[j].seen
         /\ \A i \in Jobs \ {j} : job'[i] = job[i]
         /\ \A b \in Agents \ {AgentOf[j]} : state'[b] = state[b]
         /\ state'[AgentOf[j]] \in {state[AgentOf[j]], "in_progress"}
         /\ PurposeOf[j] = "turn" => state'[AgentOf[j]] = "in_progress"
<1>1. AgentOf[j] \in Agents /\ "in_progress" \in States /\ "admitting" \in Places
  BY DEF States, Places
<1>2. /\ job'[j].at = "admitting" /\ job'[j].seen = job[j].seen
      /\ \A i \in Jobs \ {j} : job'[i] = job[i]
  BY <1>1, GoesAs DEF Materialized
<1>3. CASE PurposeOf[j] = "turn"
  <2>1. setState(AgentOf[j], "in_progress")
    BY <1>3 DEF Materialized
  <2>2. /\ state'[AgentOf[j]] = "in_progress"
        /\ \A b \in Agents \ {AgentOf[j]} : state'[b] = state[b]
    BY <1>1, <2>1, StateTyped
  <2> QED BY <1>2, <2>2
<1>4. CASE PurposeOf[j] # "turn"
  BY <1>2, <1>4 DEF Materialized
<1> QED BY <1>3, <1>4

LEMMA SeesNow ==
  ASSUME TypeOK, NEW j \in Jobs, NEW place \in Places, NEW seen \in Checkout, NEW r,
         r = [job[j] EXCEPT !.at = place, !.seen = seen], Moves(j, r)
  PROVE  /\ job'[j].at = place /\ job'[j].seen = seen
         /\ \A i \in Jobs \ {j} : job'[i] = job[i]
<1>1. job[j] \in Job
  BY DEF TypeOK
<1>2. r \in Job /\ r.at = place /\ r.seen = seen
  BY <1>1 DEF Job
<1> QED BY <1>2, MovesOne

\* Every step of a handler is one of the five.
Effect(j) == Meanwhile(j) /\ (Fetches(j) \/ Puts(j) \/ Offers(j) \/ Commits(j) \/ GoesOn(j))

LEMMA HandlerDoes ==
  ASSUME TypeOK, Roles, NEW j \in Jobs, Handler(j)
  PROVE  Effect(j)
<1> USE DEF store, plan
<1>a. AgentOf[j] \in Agents /\ job[j] \in Job /\ PurposeOf[j] \in Purposes
  BY DEF TypeOK
<1>b. job[j].inside \in {"try", "catch"}
  BY <1>a DEF Job
<1>c. Role(j, job[j])
  BY DEF Roles
<1>d. version \in Nat /\ canonical \in Text
  BY DEF TypeOK
<1>e. UnderWay(j)
  BY DEF Handler, UnderWay, MaterializeRead, MaterializeWrite, MaterializeDenied,
         MaterializeFails, Admit, AdmitRefused, ProcessEnds, Settled, ReconcileRead,
         ReconcileWrite, ReconcileRefused, ReconcileReturn, ReconcileFails,
         RestoreWrite, RestoreDenied, RestoreFails
<1>1. CASE MaterializeRead(j)
  <2>1. PICK place \in {"placing", "replacing"} :
          /\ place = IF job[j].at = "reading" THEN "placing" ELSE "replacing"
          /\ Moves(j, [job[j] EXCEPT !.at = place,
                                     !.seen = [version |-> version, content |-> canonical]])
    BY <1>1 DEF MaterializeRead
  <2>2. /\ job'[j].at = place /\ job'[j].seen = [version |-> version, content |-> canonical]
        /\ \A i \in Jobs \ {j} : job'[i] = job[i]
    <3> DEFINE seen == [version |-> version, content |-> canonical]
               r    == [job[j] EXCEPT !.at = place, !.seen = seen]
    <3>1. place \in Places /\ seen \in Checkout
      BY <1>d DEF Places, Checkout
    <3>2. r = [job[j] EXCEPT !.at = place, !.seen = seen]
      OBVIOUS
    <3>3. Moves(j, r)
      BY <2>1
    <3> HIDE DEF r, seen
    <3>4. /\ job'[j].at = place /\ job'[j].seen = seen
          /\ \A i \in Jobs \ {j} : job'[i] = job[i]
      BY <3>1, <3>2, <3>3, SeesNow
    <3> QED BY <3>4 DEF seen
  <2> QED BY <1>e, <1>1, <2>1, <2>2 DEF MaterializeRead, Effect, Meanwhile, Fetches
<1>2. CASE MaterializeWrite(j)
  BY <1>e, <1>2, MaterializedAs DEF MaterializeWrite, Effect, Meanwhile, Puts
<1>3. CASE MaterializeDenied(j)
  BY <1>e, <1>3, MaterializedAs DEF MaterializeDenied, Effect, Meanwhile, GoesOn
<1>4. CASE MaterializeFails(j)
  <2>1. CASE PurposeOf[j] = "turn"
    BY <1>e, <1>4, <2>1, ClosesAs DEF MaterializeFails, Rejects, Effect, Meanwhile, GoesOn
  <2>2. CASE PurposeOf[j] = "consultation"
    BY <1>e, <1>4, <2>2, FailsAs DEF MaterializeFails, Effect, Meanwhile, GoesOn
  <2>3. CASE PurposeOf[j] = "reiteration"
    <3>1. Goes(j, "done") /\ UNCHANGED << state, store, disk, checkout, task, warranted, approved >>
      BY <1>4, <2>3 DEF MaterializeFails
    <3>2. job'[j].at = "done" /\ job'[j].seen = job[j].seen /\ \A i \in Jobs \ {j} : job'[i] = job[i]
      BY <3>1, GoesAs DEF Places
    <3> QED BY <1>e, <3>1, <3>2 DEF Effect, Meanwhile, GoesOn
  <2> QED BY <2>1, <2>2, <2>3, <1>a DEF Purposes
<1>5. CASE Admit(j)
  BY <1>e, <1>5, GoesAs DEF Admit, Places, Effect, Meanwhile, GoesOn
<1>6. CASE AdmitRefused(j)
  BY <1>e, <1>6, FailsAs DEF AdmitRefused, Effect, Meanwhile, GoesOn
<1>7. CASE ProcessEnds(j)
  <2>1. PICK inside \in {"try", "catch"} :
          Moves(j, [job[j] EXCEPT !.at = "settling", !.inside = inside])
    BY <1>7 DEF ProcessEnds
  <2>2. /\ job'[j].at = "settling" /\ job'[j].seen = job[j].seen
        /\ \A i \in Jobs \ {j} : job'[i] = job[i]
    BY <2>1, CatchesAs DEF Places
  <2> QED BY <1>e, <1>7, <2>2 DEF ProcessEnds, Effect, Meanwhile, GoesOn
<1>8. CASE Settled(j)
  <2>0. job[j].at = "settling" /\ UNCHANGED << store, disk, checkout, plan >>
    BY <1>8 DEF Settled
  <2>1. CASE job[j].inside = "catch"
    BY <1>e, <1>8, <2>0, <2>1, FailsAs DEF Settled, Effect, Meanwhile, GoesOn
  <2>2. CASE job[j].inside = "try" /\ PurposeOf[j] = "consultation"
    <3>1. setState(AgentOf[j], "assigned") /\ Goes(j, "restoring")
      BY <1>8, <2>2 DEF Settled
    <3>2. job'[j].at = "restoring" /\ job'[j].seen = job[j].seen
          /\ \A i \in Jobs \ {j} : job'[i] = job[i]
      BY <3>1, GoesAs DEF Places
    <3>3. state'[AgentOf[j]] = "assigned" /\ \A b \in Agents \ {AgentOf[j]} : state'[b] = state[b]
      BY <3>1, <1>a, StateTyped DEF States
    <3> QED BY <1>e, <2>0, <2>2, <3>2, <3>3 DEF Effect, Meanwhile, GoesOn
  <2>3. CASE job[j].inside = "try" /\ PurposeOf[j] # "consultation"
    <3>1. Goes(j, "reconciling") /\ UNCHANGED state /\ job[j].at = "settling"
      BY <1>8, <2>3 DEF Settled
    <3>2. job'[j].at = "reconciling" /\ job'[j].seen = job[j].seen
          /\ \A i \in Jobs \ {j} : job'[i] = job[i]
      BY <3>1, GoesAs DEF Places
    <3> QED BY <1>e, <2>0, <2>3, <3>1, <3>2 DEF Effect, Meanwhile, GoesOn
  <2> QED BY <1>b, <2>1, <2>2, <2>3
<1>9. CASE ReconcileRead(j)
  <2>1. CASE disk[AgentOf[j]] = checkout[AgentOf[j]].content
    BY <1>e, <1>9, <2>1, FinishAs DEF ReconcileRead, Effect, Meanwhile, GoesOn
  <2>2. CASE disk[AgentOf[j]] # checkout[AgentOf[j]].content
    <3>1. checkout[AgentOf[j]].version \in Nat /\ disk[AgentOf[j]] \in Text
      BY <1>a DEF TypeOK, Checkout
    <3>2. /\ job'[j].at = "submitting"
          /\ job'[j].seen = [version |-> checkout[AgentOf[j]].version, content |-> disk[AgentOf[j]]]
          /\ \A i \in Jobs \ {j} : job'[i] = job[i]
      <4> DEFINE seen == [version |-> checkout[AgentOf[j]].version, content |-> disk[AgentOf[j]]]
                 r    == [job[j] EXCEPT !.at = "submitting", !.seen = seen]
      <4>1. "submitting" \in Places /\ seen \in Checkout
        BY <3>1 DEF Places, Checkout
      <4>2. r = [job[j] EXCEPT !.at = "submitting", !.seen = seen]
        OBVIOUS
      <4>3. Moves(j, r)
        BY <1>9, <2>2 DEF ReconcileRead
      <4> HIDE DEF r, seen
      <4>4. /\ job'[j].at = "submitting" /\ job'[j].seen = seen
            /\ \A i \in Jobs \ {j} : job'[i] = job[i]
        BY <4>1, <4>2, <4>3, SeesNow
      <4> QED BY <4>4 DEF seen
    <3> QED BY <1>e, <1>9, <2>2, <3>2 DEF ReconcileRead, Effect, Meanwhile, Offers
  <2> QED BY <2>1, <2>2
<1>10. CASE ReconcileWrite(j)
  <2> DEFINE text == IF job[j].seen.version = version
                     THEN job[j].seen.content
                     ELSE Merge3(bases[AgentOf[j]], canonical, job[j].seen.content)
  <2>1. job[j].seen.content \in Text /\ bases[AgentOf[j]] \in Text
    BY <1>a DEF TypeOK, Job, Checkout
  <2>2. text \in Text /\ version + 1 \in Nat
    BY <1>d, <2>1, MergeTyped
  <2>3. /\ canonical' = text /\ bases' = [bases EXCEPT ![AgentOf[j]] = text]
        /\ version' = version + 1 /\ job[j].at = "submitting" /\ warranted[AgentOf[j]]
        /\ Moves(j, [job[j] EXCEPT !.at = "returning",
                                   !.seen = [version |-> version + 1, content |-> text]])
        /\ UNCHANGED << state, disk, checkout, plan >>
    BY <1>10 DEF ReconcileWrite
  <2>5. canonical' = IF job[j].seen.version = version
                     THEN job[j].seen.content
                     ELSE Merge3(bases[AgentOf[j]], canonical, job[j].seen.content)
    BY <2>3
  <2> HIDE DEF text
  <2>4. /\ job'[j].at = "returning"
        /\ job'[j].seen = [version |-> version + 1, content |-> text]
        /\ \A i \in Jobs \ {j} : job'[i] = job[i]
    <3> DEFINE seen == [version |-> version + 1, content |-> text]
               r    == [job[j] EXCEPT !.at = "returning", !.seen = seen]
    <3>1. "returning" \in Places /\ seen \in Checkout
      BY <2>2 DEF Places, Checkout
    <3>2. r = [job[j] EXCEPT !.at = "returning", !.seen = seen]
      OBVIOUS
    <3>3. Moves(j, r)
      BY <2>3
    <3> HIDE DEF r, seen
    <3>4. /\ job'[j].at = "returning" /\ job'[j].seen = seen
          /\ \A i \in Jobs \ {j} : job'[i] = job[i]
      BY <3>1, <3>2, <3>3, SeesNow
    <3> QED BY <3>4 DEF seen
  <2>6. Commits(j)
    BY <2>3, <2>4, <2>5 DEF Commits
  <2>7. Meanwhile(j)
    BY <1>e, <2>3, <2>4 DEF Meanwhile
  <2> QED BY <1>e, <2>6, <2>7 DEF Effect
<1>11. CASE ReconcileRefused(j)
  BY <1>e, <1>11, FinishAs DEF ReconcileRefused, Effect, Meanwhile, GoesOn
<1>12. CASE ReconcileReturn(j)
  BY <1>e, <1>12, FinishAs DEF ReconcileReturn, Effect, Meanwhile, Puts
<1>13. CASE ReconcileFails(j)
  BY <1>e, <1>13, <1>c, FailsAs, ClosesAs DEF ReconcileFails, Rejects, Role, Effect, Meanwhile, GoesOn
<1>14. CASE RestoreWrite(j)
  BY <1>e, <1>14, ClosesAs DEF RestoreWrite, Effect, Meanwhile, Puts
<1>15. CASE RestoreDenied(j)
  BY <1>e, <1>15, ClosesAs DEF RestoreDenied, Effect, Meanwhile, GoesOn
<1>16. CASE RestoreFails(j)
  BY <1>e, <1>16, <1>c, FailsAs, ClosesAs DEF RestoreFails, Role, Effect, Meanwhile, GoesOn
<1> QED
  BY <1>1, <1>2, <1>3, <1>4, <1>5, <1>6, <1>7, <1>8, <1>9, <1>10, <1>11, <1>12,
     <1>13, <1>14, <1>15, <1>16 DEF Handler

-----------------------------------------------------------------------------
\* Requests come in: each opens its handler, or is refused at once.
Starts(new) ==
  /\ \A j \in new : /\ job[j].at = "none" /\ Ready(AgentOf[j])
                    /\ job'[j].at \in {"reading", "done"} /\ job'[j].seen = job[j].seen
                    /\ PurposeOf[j] # "turn"
                         => state'[AgentOf[j]] \in {"in_progress", "assigned"}
  /\ \A i, j \in new : AgentOf[i] = AgentOf[j] => i = j
  /\ \A j \in Jobs \ new : job'[j] = job[j]
  /\ \A a \in Agents : \/ state'[a] = state[a]
                       \/ /\ state'[a] \in {"in_progress", "assigned"}
                          /\ \E j \in new : AgentOf[j] = a
  /\ UNCHANGED << store, disk, checkout, warranted, approved, task >>

\* The handlers stay where they are, and so do the texts.
Rests ==
  /\ \A j \in Jobs : job'[j].at = job[j].at /\ job'[j].seen = job[j].seen
  /\ \A a \in Agents : warranted'[a] => warranted[a]
  /\ UNCHANGED << store, disk, checkout >>

LEMMA OpenedAs ==
  ASSUME TypeOK, NEW j \in Jobs, NEW marks \in SUBSET {"auto", "cancelled"},
         NEW record \in {"none", "open", "closed"}
  PROVE  Opened(j, marks, record).at = "reading" /\ Opened(j, marks, record).seen = job[j].seen
<1>1. job[j] \in Job
  BY DEF TypeOK
<1> QED BY <1>1 DEF Job, Opened

LEMMA RequestStarts ==
  ASSUME TypeOK, NEW j \in Jobs, Request(j)
  PROVE  Starts({j})
<1> USE DEF store, plan
<1>a. AgentOf[j] \in Agents
  OBVIOUS
<1>1. CASE StartTurn(j)
  <2>1. Moves(j, Opened(j, {}, "none")) /\ Opened(j, {}, "none") \in Job
    BY <1>1, OpenedTo DEF StartTurn
  <2>2. job'[j].at = "reading" /\ job'[j].seen = job[j].seen /\ \A i \in Jobs \ {j} : job'[i] = job[i]
    BY <2>1, OpenedAs, MovesOne
  <2> QED BY <1>1, <2>2 DEF StartTurn, Starts
<1>2. ASSUME NEW purpose \in Purposes, Claim(j, purpose)
      PROVE  Starts({j})
  <2>1. CASE warranted[AgentOf[j]]
    <3>1. Moves(j, Opened(j, {}, "open")) /\ Opened(j, {}, "open") \in Job
      BY <1>2, <2>1, OpenedTo DEF Claim
    <3>2. job'[j].at = "reading" /\ job'[j].seen = job[j].seen /\ \A i \in Jobs \ {j} : job'[i] = job[i]
      BY <3>1, OpenedAs, MovesOne
    <3>3. setState(AgentOf[j], "in_progress")
      BY <1>2, <2>1 DEF Claim
    <3>4. /\ state'[AgentOf[j]] = "in_progress"
          /\ \A b \in Agents \ {AgentOf[j]} : state'[b] = state[b]
      BY <1>a, <3>3, StateTyped DEF States
    <3> QED BY <1>2, <3>2, <3>4 DEF Claim, Starts
  <2>2. CASE ~warranted[AgentOf[j]]
    <3> DEFINE r == [job[j] EXCEPT !.at = "done", !.record = "closed"]
    <3>1. job[j] \in Job
      BY DEF TypeOK
    <3>2. r \in Job /\ r.at = "done" /\ r.seen = job[j].seen
      BY <3>1 DEF Job, Places
    <3>3. Moves(j, r)
      BY <1>2, <2>2 DEF Claim
    <3> HIDE DEF r
    <3>4. job'[j].at = "done" /\ job'[j].seen = job[j].seen /\ \A i \in Jobs \ {j} : job'[i] = job[i]
      BY <3>2, <3>3, MovesOne
    <3>5. setState(AgentOf[j], "assigned")
      BY <1>2, <2>2 DEF Claim
    <3>6. /\ state'[AgentOf[j]] = "assigned"
          /\ \A b \in Agents \ {AgentOf[j]} : state'[b] = state[b]
      BY <1>a, <3>5, StateTyped DEF States
    <3> QED BY <1>2, <3>4, <3>6 DEF Claim, Starts
  <2> QED BY <2>1, <2>2
<1> QED BY <1>1, <1>2 DEF Request, Ask, Reiterate, Purposes

LEMMA AutorunStarts ==
  ASSUME TypeOK, Autorun
  PROVE  \E new \in SUBSET Jobs : Starts(new)
<1> USE DEF store, plan
<1> DEFINE worked == {AgentOf[j] : j \in {i \in Jobs : PurposeOf[i] = "turn"}}
           idle   == {a \in worked : state[a] = "assigned"}
<1>1. PICK start \in [idle -> Jobs] :
        /\ \A a \in idle : /\ AgentOf[start[a]] = a /\ PurposeOf[start[a]] = "turn"
                           /\ job[start[a]].at = "none"
        /\ job' = [j \in Jobs |-> IF j \in {start[a] : a \in idle} /\ warranted[AgentOf[j]]
                                  THEN Opened(j, {"auto"}, "none") ELSE job[j]]
  BY DEF Autorun
<1>2. \A a \in idle : Ready(a)
  BY DEF Autorun
<1>3. UNCHANGED << state, store, disk, checkout, task, warranted, approved >>
  BY DEF Autorun
<1> HIDE DEF idle
<1> DEFINE new == {j \in Jobs : j \in {start[a] : a \in idle} /\ warranted[AgentOf[j]]}
<1>4. \A j \in Jobs : Opened(j, {"auto"}, "none").at = "reading"
                      /\ Opened(j, {"auto"}, "none").seen = job[j].seen
  BY OpenedAs
<1>5. \A j \in new : /\ job'[j] = Opened(j, {"auto"}, "none")
                     /\ PurposeOf[j] = "turn" /\ job[j].at = "none" /\ Ready(AgentOf[j])
  BY <1>1, <1>2
<1>6. \A i, j \in new : AgentOf[i] = AgentOf[j] => i = j
  BY <1>1
<1>7. \A j \in Jobs \ new : job'[j] = job[j]
  BY <1>1
<1> HIDE DEF new
<1>8. new \in SUBSET Jobs
  BY DEF new
<1>9. \A j \in new : job'[j].at = "reading" /\ job'[j].seen = job[j].seen
  BY <1>4, <1>5, <1>8
<1>10. Starts(new)
  BY <1>3, <1>5, <1>6, <1>7, <1>9 DEF Starts
<1> QED BY <1>8, <1>10

LEMMA OwnerRests ==
  ASSUME TypeOK, NEW a \in Agents, Owner(a)
  PROVE  Rests
<1> USE DEF store, plan
<1>1. CASE Stop(a) /\ active[a] # None
  <2>1. active[a] \in Jobs /\ job[active[a]] \in Job
    BY <1>1 DEF TypeOK
  <2> DEFINE r == [job[active[a]] EXCEPT !.marks = @ \cup {"cancelled"}]
  <2>2. r \in Job /\ r.at = job[active[a]].at /\ r.seen = job[active[a]].seen
    BY <2>1 DEF Job
  <2>3. Moves(active[a], r) /\ UNCHANGED << store, disk, checkout, warranted >>
    BY <1>1 DEF Stop
  <2> HIDE DEF r
  <2> QED BY <2>1, <2>2, <2>3, MovesOne DEF Rests
<1>2. CASE Stop(a) /\ active[a] = None
  BY <1>2 DEF Stop, Rests
<1>3. CASE Submit(a)
  BY <1>3 DEF Submit, Rests
<1>4. CASE Approve(a)
  BY <1>4 DEF Approve, Rests
<1>5. CASE EndWarrant(a)
  BY <1>5 DEF EndWarrant, Rests, TypeOK
<1> QED BY <1>1, <1>2, <1>3, <1>4, <1>5 DEF Owner

\* Every step is a step of a handler, of requests, of a process, or rests.
LEMMA StepsDo ==
  ASSUME TypeOK, Roles, [Next]_vars
  PROVE  \/ \E j \in Jobs : Effect(j)
         \/ \E new \in SUBSET Jobs : Starts(new)
         \/ \E j \in Jobs : Edit(j)
         \/ Rests
<1> USE DEF store, plan
<1>1. CASE UNCHANGED vars
  BY <1>1 DEF vars, Rests
<1>2. ASSUME NEW j \in Jobs, Request(j)
      PROVE  \E new \in SUBSET Jobs : Starts(new)
  <2> WITNESS {j} \in SUBSET Jobs
  <2> QED BY <1>2, RequestStarts
<1>3. CASE Integrate
  BY <1>3 DEF Integrate, Rests
<1> QED BY <1>1, <1>2, <1>3, HandlerDoes, AutorunStarts, OwnerRests DEF Next

\* How the handlers move, whatever else a step does.
LEMMA RolesStay ==
  ASSUME TypeOK, Roles, [Next]_vars
  PROVE  Roles'
<1>1. ASSUME NEW j \in Jobs, Effect(j)
      PROVE  Roles'
  <2>1. Role(j, job[j]) /\ \A i \in Jobs \ {j} : job'[i] = job[i]
    BY <1>1 DEF Roles, Effect, Meanwhile
  <2>2. Role(j, job'[j])
    BY <1>1, <2>1 DEF Effect, Fetches, Puts, Offers, Commits, GoesOn, Role
  <2> QED BY <2>1, <2>2 DEF Roles
<1>2. ASSUME NEW new \in SUBSET Jobs, Starts(new)
      PROVE  Roles'
  BY <1>2 DEF Roles, Role, Starts
<1>3. ASSUME NEW j \in Jobs, Edit(j)
      PROVE  Roles'
  BY <1>3 DEF Roles, Role, Edit
<1>4. CASE Rests
  BY <1>4 DEF Roles, Role, Rests
<1> QED BY <1>1, <1>2, <1>3, <1>4, StepsDo

\* Which requests are made today never changes.
LEMMA DayStays ==
  ASSUME TypeOK, Roles, [Next]_vars
  PROVE  \A j \in Jobs : /\ (job'[j].at = "never") <=> (job[j].at = "never")
                         /\ UnderWay(j)' /\ ~UnderWay(j) => job[j].at = "none"
<1>1. ASSUME NEW j \in Jobs, Effect(j), NEW i \in Jobs
      PROVE  /\ (job'[i].at = "never") <=> (job[i].at = "never")
             /\ UnderWay(i)' /\ ~UnderWay(i) => job[i].at = "none"
  BY <1>1 DEF Effect, Meanwhile, Fetches, Puts, Offers, Commits, GoesOn, UnderWay
<1>2. ASSUME NEW new \in SUBSET Jobs, Starts(new), NEW i \in Jobs
      PROVE  /\ (job'[i].at = "never") <=> (job[i].at = "never")
             /\ UnderWay(i)' /\ ~UnderWay(i) => job[i].at = "none"
  BY <1>2 DEF Starts, UnderWay
<1>3. ASSUME NEW j \in Jobs, Edit(j)
      PROVE  UNCHANGED job
  BY <1>3 DEF Edit
<1>4. CASE Rests
  BY <1>4 DEF UnderWay, Rests
<1> QED BY <1>1, <1>2, <1>3, <1>4, StepsDo DEF UnderWay

-----------------------------------------------------------------------------
LEMMA CareStays ==
  ASSUME TypeOK, Roles, [Next]_vars
  PROVE  \A a \in Agents : Single(a)' <=> Single(a)
BY DayStays DEF Single

LEMMA AloneStays ==
  ASSUME TypeOK, Roles, Alone, [Next]_vars
  PROVE  Alone'
<1> SUFFICES ASSUME NEW i \in Jobs, NEW j \in Jobs, UnderWay(i)', UnderWay(j)',
                    AgentOf[i] = AgentOf[j], Careful(AgentOf[i])', i # j
             PROVE  FALSE
  BY DEF Alone
<1>1. Careful(AgentOf[i])
  BY CareStays DEF Careful
<1>2. AgentOf[i] \in Patient
  BY <1>1, DayStays DEF Careful, Single, UnderWay
<1>3. ~(UnderWay(i) /\ UnderWay(j))
  BY <1>1 DEF Alone
<1>4. ASSUME NEW h \in Jobs, Effect(h)
      PROVE  FALSE
  BY <1>3, <1>4 DEF Effect, Meanwhile, UnderWay
<1>5. ASSUME NEW new \in SUBSET Jobs, Starts(new)
      PROVE  FALSE
  <2>1. i \in new => Ready(AgentOf[i])
    BY <1>5 DEF Starts
  <2>2. j \in new => Ready(AgentOf[j])
    BY <1>5 DEF Starts
  <2>3. i \notin new => UnderWay(i)
    BY <1>5 DEF Starts, UnderWay
  <2>4. j \notin new => UnderWay(j)
    BY <1>5 DEF Starts, UnderWay
  <2>5. i \in new /\ j \in new => FALSE
    BY <1>5 DEF Starts
  <2> QED BY <1>2, <1>3, <2>1, <2>2, <2>3, <2>4, <2>5 DEF Ready
<1>6. ASSUME NEW h \in Jobs, Edit(h)
      PROVE  FALSE
  BY <1>3, <1>6 DEF Edit, UnderWay
<1>7. CASE Rests
  BY <1>3, <1>7 DEF Rests, UnderWay
<1> QED BY <1>4, <1>5, <1>6, <1>7, StepsDo

Orderly == TypeOK /\ Roles /\ Alone

LEMMA InitOrderly ==
  ASSUME Init
  PROVE  \A j \in Jobs : job[j].at \in {"none", "never"} /\ job[j].seen = NoText
BY DEF Init, NoJob

LEMMA OrderlyHolds == Spec => []Orderly
<1>1. Init => Roles /\ Alone
  BY InitOrderly DEF Roles, Role, Alone, UnderWay
<1>2. TypeOK /\ Roles /\ Alone /\ [Next]_vars => Roles' /\ Alone'
  BY RolesStay, AloneStays
<1> QED BY <1>1, <1>2, TypeCorrect, PTL DEF Spec, Orderly

-----------------------------------------------------------------------------
\* A re-iteration that is fetching its document has its record open.
OpenRecords ==
  \A j \in Jobs : PurposeOf[j] = "reiteration" /\ job[j].at \in {"reading", "placing"}
                  => job[j].record = "open"

LEMMA OpenedRecord ==
  ASSUME TypeOK, NEW j \in Jobs, NEW marks \in SUBSET {"auto", "cancelled"},
         NEW record \in {"none", "open", "closed"}
  PROVE  Opened(j, marks, record).record = record
<1>1. job[j] \in Job
  BY DEF TypeOK
<1> QED BY <1>1 DEF Job, Opened

LEMMA HandlerKeepsRecords ==
  ASSUME TypeOK, Roles, OpenRecords, NEW j \in Jobs, Handler(j)
  PROVE  OpenRecords'
<1>a. job[j] \in Job /\ Effect(j)
  BY HandlerDoes DEF TypeOK
<1>b. \A i \in Jobs \ {j} : job'[i] = job[i]
  BY <1>a DEF Effect, Meanwhile
<1> SUFFICES ASSUME PurposeOf[j] = "reiteration", job'[j].at \in {"reading", "placing"}
             PROVE  job'[j].record = "open"
  BY <1>b DEF OpenRecords
<1>1. job[j].at = "reading" /\ job'[j].at = "placing"
  BY <1>a DEF Effect, Fetches, Puts, Offers, Commits, GoesOn
<1>2. MaterializeRead(j)
  <2>1. ~MaterializeDenied(j)
    BY <1>1, MaterializedAs DEF MaterializeDenied
  <2>2. ~MaterializeFails(j)
    <3>1. Goes(j, "done") => job'[j].at = "done"
      BY GoesAs DEF Places
    <3> QED BY <1>1, <3>1 DEF MaterializeFails
  <2> QED BY <1>1, <2>1, <2>2
          DEF Handler, MaterializeWrite, Admit, AdmitRefused, ProcessEnds, Settled,
              ReconcileRead, ReconcileWrite, ReconcileRefused, ReconcileReturn, ReconcileFails,
              RestoreWrite, RestoreDenied, RestoreFails
<1>3. job[j].record = "open"
  BY <1>1 DEF OpenRecords
<1> DEFINE r == [job[j] EXCEPT !.at = "placing",
                               !.seen = [version |-> version, content |-> canonical]]
<1>4. r \in Job /\ r.record = job[j].record
  <2>1. version \in Nat /\ canonical \in Text
    BY DEF TypeOK
  <2>2. r \in Job
    BY <2>1, SeesTo DEF Places
  <2> QED BY <2>2, <1>a DEF Job
<1>5. Moves(j, r)
  BY <1>1, <1>2 DEF MaterializeRead
<1> HIDE DEF r
<1> QED BY <1>3, <1>4, <1>5, MovesOne

LEMMA RecordsStay ==
  ASSUME TypeOK, Roles, OpenRecords, [Next]_vars
  PROVE  OpenRecords'
<1> USE DEF store, plan
<1>1. ASSUME NEW j \in Jobs, StartTurn(j)
      PROVE  OpenRecords'
  <2>1. PurposeOf[j] = "turn" /\ Opened(j, {}, "none") \in Job /\ Moves(j, Opened(j, {}, "none"))
    BY <1>1, OpenedTo DEF StartTurn
  <2> QED BY <2>1, MovesOne DEF OpenRecords
<1>2. ASSUME NEW j \in Jobs, NEW purpose \in Purposes, Claim(j, purpose)
      PROVE  OpenRecords'
  <2>1. CASE warranted[AgentOf[j]]
    <3>1. Moves(j, Opened(j, {}, "open")) /\ Opened(j, {}, "open") \in Job
      BY <1>2, <2>1, OpenedTo DEF Claim
    <3> QED BY <3>1, OpenedRecord, MovesOne DEF OpenRecords
  <2>2. CASE ~warranted[AgentOf[j]]
    <3> DEFINE r == [job[j] EXCEPT !.at = "done", !.record = "closed"]
    <3>1. r \in Job
      BY ClosedTo
    <3>2. r.at = "done"
      BY DEF TypeOK, Job
    <3>3. Moves(j, r)
      BY <1>2, <2>2 DEF Claim
    <3> HIDE DEF r
    <3> QED BY <3>1, <3>2, <3>3, MovesOne DEF OpenRecords
  <2> QED BY <2>1, <2>2
<1>3. ASSUME NEW j \in Jobs, Handler(j)
      PROVE  OpenRecords'
  BY <1>3, HandlerKeepsRecords
<1>4. CASE Autorun
  <2> DEFINE worked == {AgentOf[j] : j \in {i \in Jobs : PurposeOf[i] = "turn"}}
             idle   == {a \in worked : state[a] = "assigned"}
  <2>1. PICK start \in [idle -> Jobs] :
          /\ \A a \in idle : PurposeOf[start[a]] = "turn"
          /\ job' = [j \in Jobs |-> IF j \in {start[a] : a \in idle} /\ warranted[AgentOf[j]]
                                    THEN Opened(j, {"auto"}, "none") ELSE job[j]]
    BY <1>4 DEF Autorun
  <2> HIDE DEF idle
  <2>2. \A j \in Jobs : PurposeOf[j] = "reiteration" => job'[j] = job[j]
    BY <2>1
  <2> QED BY <2>2 DEF OpenRecords
<1>5. ASSUME UNCHANGED job
      PROVE  OpenRecords'
  BY <1>5 DEF OpenRecords
<1>6. ASSUME NEW a \in Agents, Stop(a), active[a] # None
      PROVE  OpenRecords'
  <2>1. active[a] \in Jobs /\ \A j \in Jobs : job[j] \in Job
    BY <1>6 DEF TypeOK
  <2> DEFINE r == [job[active[a]] EXCEPT !.marks = @ \cup {"cancelled"}]
  <2>2. r \in Job /\ r.at = job[active[a]].at /\ r.record = job[active[a]].record
    BY <2>1 DEF Job
  <2>3. Moves(active[a], r)
    BY <1>6 DEF Stop
  <2> HIDE DEF r
  <2> QED BY <2>1, <2>2, <2>3, MovesOne DEF OpenRecords
<1>7. ASSUME NEW a \in Agents, Owner(a)
      PROVE  OpenRecords'
  <2>1. CASE Stop(a) /\ active[a] # None
    BY <1>6, <2>1
  <2>2. CASE ~(Stop(a) /\ active[a] # None)
    BY <1>5, <1>7, <2>2 DEF Owner, Stop, Submit, Approve, EndWarrant
  <2> QED BY <2>1, <2>2
<1>8. ASSUME NEW j \in Jobs, Edit(j)
      PROVE  OpenRecords'
  BY <1>5, <1>8 DEF Edit
<1>9. CASE Integrate
  BY <1>5, <1>9 DEF Integrate
<1>10. CASE UNCHANGED vars
  BY <1>5, <1>10 DEF vars
<1> QED
  BY <1>1, <1>2, <1>3, <1>4, <1>7, <1>8, <1>9, <1>10 DEF Next, Request, Ask, Reiterate, Purposes

LEMMA OpenRecordsHold == Spec => []OpenRecords
<1>1. Init => OpenRecords
  BY InitOrderly DEF OpenRecords
<1>2. Orderly /\ OpenRecords /\ [Next]_vars => OpenRecords'
  BY RecordsStay DEF Orderly
<1> QED BY <1>1, <1>2, OrderlyHolds, PTL DEF Spec

-----------------------------------------------------------------------------
\* What accounts for a claim: a request that will give it back, or one that
\* died in a re-iteration's materialize.
Keeps(j) == Holds(j) \/ Stranded(j)

\* A step of one job that leaves the others where they are, and either keeps
\* its hold or gives the claim back, keeps every claim held.
LEMMA StepKeepsHeld ==
  ASSUME NoStuckClaim, NEW j \in Jobs,
         \A i \in Jobs \ {j} : job'[i] = job[i],
         \A a \in Agents \ {AgentOf[j]} : state'[a] = state[a],
         \/ Keeps(j)'
         \/ state'[AgentOf[j]] # "in_progress"
         \/ state'[AgentOf[j]] = state[AgentOf[j]] /\ ~Keeps(j)
  PROVE  NoStuckClaim'
<1> SUFFICES ASSUME NEW a \in Agents, state'[a] = "in_progress"
             PROVE  \E i \in Jobs : AgentOf[i] = a /\ Keeps(i)'
  BY DEF NoStuckClaim, Keeps
<1>1. \A i \in Jobs \ {j} : Keeps(i) => Keeps(i)'
  BY DEF Keeps, Holds, Stranded
<1>2. CASE a # AgentOf[j]
  <2>1. PICK i \in Jobs : AgentOf[i] = a /\ Keeps(i)
    BY <1>2 DEF NoStuckClaim, Keeps
  <2> QED BY <2>1, <1>1, <1>2
<1>3. CASE a = AgentOf[j] /\ Keeps(j)'
  BY <1>3
<1>4. CASE a = AgentOf[j] /\ ~Keeps(j)'
  <2>1. state[a] = "in_progress" /\ ~Keeps(j)
    BY <1>4
  <2>2. PICK i \in Jobs : AgentOf[i] = a /\ Keeps(i)
    BY <2>1 DEF NoStuckClaim, Keeps
  <2> QED BY <2>1, <2>2, <1>1
<1> QED BY <1>2, <1>3, <1>4

\* Giving the claim of its agent back, a job may go anywhere.
LEMMA ReleaseKeepsHeld ==
  ASSUME TypeOK, NoStuckClaim, NEW j \in Jobs, NEW s \in States \ {"in_progress"},
         setState(AgentOf[j], s), \A i \in Jobs \ {j} : job'[i] = job[i]
  PROVE  NoStuckClaim'
<1>1. AgentOf[j] \in Agents
  OBVIOUS
<1>2. state'[AgentOf[j]] # "in_progress" /\ \A a \in Agents \ {AgentOf[j]} : state'[a] = state[a]
  BY <1>1 DEF setState, TypeOK
<1> QED BY <1>2, StepKeepsHeld

LEMMA FailsKeepsHeld ==
  ASSUME TypeOK, NoStuckClaim, NEW j \in Jobs, Fails(j)
  PROVE  NoStuckClaim'
<1>1. "assigned" \in States \ {"in_progress"}
  BY DEF States
<1> QED BY <1>1, FailsTyped, ReleaseKeepsHeld DEF Fails

\* A job that does not hold the claim closes.
LEMMA CloseKeepsHeld ==
  ASSUME TypeOK, NoStuckClaim, NEW j \in Jobs, Closed(j), UNCHANGED state, ~Holds(j),
         job[j].at # "done"
  PROVE  NoStuckClaim'
BY ClosedTyped, StepKeepsHeld DEF Keeps, Stranded

LEMMA FinishKeepsHeld ==
  ASSUME TypeOK, NoStuckClaim, NEW j \in Jobs, Finish(j),
         job[j].at \in {"reconciling", "submitting", "returning"}
  PROVE  NoStuckClaim'
<1>1. "assigned" \in States \ {"in_progress"}
  BY DEF States
<1>2. CASE job[j].inside = "try"
  BY <1>1, <1>2, ClosedTyped, ReleaseKeepsHeld DEF Finish
<1>3. CASE job[j].inside # "try"
  BY <1>3, CloseKeepsHeld DEF Finish, Holds
<1> QED BY <1>2, <1>3

\* A job goes on to r, holding what it held; nobody's state changes.
LEMMA MoveKeepsHeld ==
  ASSUME TypeOK, NoStuckClaim, NEW j \in Jobs, NEW r \in Job, Moves(j, r), UNCHANGED state,
         Holds(j) =>
           \/ r.at \in {"admitting", "running", "settling"}
           \/ r.at \in {"reading", "placing"} /\ PurposeOf[j] # "turn"
           \/ r.at \in {"reconciling", "submitting", "returning"} /\ r.inside = "try",
         job[j].at # "done"
  PROVE  NoStuckClaim'
<1>1. job'[j] = r /\ \A i \in Jobs \ {j} : job'[i] = job[i]
  BY MovesOne
<1>2. Keeps(j) => Keeps(j)'
  BY <1>1 DEF Keeps, Holds, Stranded
<1> QED BY <1>1, <1>2, StepKeepsHeld

LEMMA HandlerKeepsHeld ==
  ASSUME TypeOK, OpenRecords, NoStuckClaim, NEW j \in Jobs, Handler(j)
  PROVE  NoStuckClaim'
<1>a. AgentOf[j] \in Agents /\ job[j] \in Job /\ PurposeOf[j] \in Purposes
  BY DEF TypeOK
<1>b. job[j].inside \in {"try", "catch"}
  BY <1>a DEF Job
<1>c. "assigned" \in States \ {"in_progress"}
  BY DEF States
<1>1. CASE MaterializeRead(j)
  <2> DEFINE r(place) == [job[j] EXCEPT !.at = place,
                                        !.seen = [version |-> version, content |-> canonical]]
  <2>1. version \in Nat /\ canonical \in Text
    BY DEF TypeOK
  <2>2. PICK place \in {"placing", "replacing"} :
          /\ job[j].at = IF place = "placing" THEN "reading" ELSE "restoring"
          /\ Moves(j, r(place))
    BY <1>1 DEF MaterializeRead
  <2>3. r(place) \in Job /\ r(place).at = place
    <3>1. r(place) \in Job
      BY <2>1, SeesTo DEF Places
    <3>2. r(place).at = place
      BY SeesAs
    <3> QED BY <3>1, <3>2
  <2>4. Holds(j) => place = "placing" /\ PurposeOf[j] # "turn"
    BY <2>2 DEF Holds
  <2>5. UNCHANGED state
    BY <1>1 DEF MaterializeRead
  <2> HIDE DEF r
  <2> QED BY <2>2, <2>3, <2>4, <2>5, MoveKeepsHeld
<1>m. ASSUME Materialized(j), job[j].at \in {"reading", "placing"}
      PROVE  NoStuckClaim'
  <2>1. job'[j].at = "admitting" /\ \A i \in Jobs \ {j} : job'[i] = job[i]
    BY <1>m, MaterializedTyped
  <2>2. Keeps(j)'
    BY <2>1 DEF Keeps, Holds
  <2>3. \A a \in Agents \ {AgentOf[j]} : state'[a] = state[a]
    BY <1>m, <1>a, StateTyped DEF Materialized, States
  <2> QED BY <2>1, <2>2, <2>3, StepKeepsHeld
<1>2. CASE MaterializeWrite(j)
  BY <1>2, <1>m DEF MaterializeWrite
<1>3. CASE MaterializeDenied(j)
  BY <1>3, <1>m DEF MaterializeDenied
<1>4. CASE MaterializeFails(j)
  <2>1. CASE PurposeOf[j] = "turn"
    <3>1. ~Holds(j)
      BY <1>4, <2>1 DEF MaterializeFails, Holds
    <3> QED BY <1>4, <2>1, <3>1, CloseKeepsHeld DEF MaterializeFails, Rejects
  <2>2. CASE PurposeOf[j] = "consultation"
    BY <1>4, <2>2, FailsKeepsHeld DEF MaterializeFails
  <2>3. CASE PurposeOf[j] = "reiteration"
    <3>1. Goes(j, "done") /\ UNCHANGED state /\ job[j].record = "open"
      BY <1>4, <2>3 DEF MaterializeFails, OpenRecords
    <3>2. [job[j] EXCEPT !.at = "done"].record = job[j].record
      BY <1>a DEF Job
    <3>3. /\ job'[j].at = "done" /\ job'[j].record = "open"
          /\ \A i \in Jobs \ {j} : job'[i] = job[i]
      BY <3>1, <3>2, GoesAs, GoesTyped DEF Places
    <3>4. Keeps(j)'
      BY <2>3, <3>3 DEF Keeps, Stranded
    <3> QED BY <3>1, <3>3, <3>4, StepKeepsHeld
  <2> QED BY <2>1, <2>2, <2>3, <1>a DEF Purposes
<1>5. CASE Admit(j)
  <2>1. [job[j] EXCEPT !.at = "running"] \in Job /\ [job[j] EXCEPT !.at = "running"].at = "running"
    BY GoesTo DEF Places
  <2> QED BY <1>5, <2>1, MoveKeepsHeld DEF Admit, Goes
<1>6. CASE AdmitRefused(j)
  BY <1>6, FailsKeepsHeld DEF AdmitRefused
<1>7. CASE ProcessEnds(j)
  <2>1. PICK inside \in {"try", "catch"} :
          Moves(j, [job[j] EXCEPT !.at = "settling", !.inside = inside])
    BY <1>7 DEF ProcessEnds
  <2>2. /\ [job[j] EXCEPT !.at = "settling", !.inside = inside] \in Job
        /\ [job[j] EXCEPT !.at = "settling", !.inside = inside].at = "settling"
    <3>1. [job[j] EXCEPT !.at = "settling", !.inside = inside] \in Job
      BY CaughtTo DEF Places
    <3> QED BY <3>1, <1>a DEF Job
  <2> QED BY <1>7, <2>1, <2>2, MoveKeepsHeld DEF ProcessEnds
<1>8. CASE Settled(j)
  <2>1. CASE job[j].inside = "catch"
    BY <1>8, <2>1, FailsKeepsHeld DEF Settled
  <2>2. CASE job[j].inside = "try" /\ PurposeOf[j] = "consultation"
    BY <1>8, <1>c, <2>2, GoesTyped, ReleaseKeepsHeld DEF Settled, Places
  <2>3. CASE job[j].inside = "try" /\ PurposeOf[j] # "consultation"
    <3>1. Goes(j, "reconciling") /\ UNCHANGED state /\ job[j].at = "settling"
      BY <1>8, <2>3 DEF Settled
    <3>2. /\ [job[j] EXCEPT !.at = "reconciling"] \in Job
          /\ [job[j] EXCEPT !.at = "reconciling"].at = "reconciling"
          /\ [job[j] EXCEPT !.at = "reconciling"].inside = "try"
      BY <2>3, GoesTo DEF Places
    <3> QED BY <3>1, <3>2, MoveKeepsHeld DEF Goes
  <2> QED BY <1>b, <2>1, <2>2, <2>3
<1>9. CASE ReconcileRead(j)
  <2>1. CASE disk[AgentOf[j]] = checkout[AgentOf[j]].content
    BY <1>9, <2>1, FinishKeepsHeld DEF ReconcileRead
  <2>2. CASE disk[AgentOf[j]] # checkout[AgentOf[j]].content
    <3> DEFINE r == [job[j] EXCEPT !.at = "submitting",
                       !.seen = [version |-> checkout[AgentOf[j]].version,
                                 content |-> disk[AgentOf[j]]]]
    <3>1. checkout[AgentOf[j]].version \in Nat /\ disk[AgentOf[j]] \in Text
      BY <1>a DEF TypeOK, Checkout
    <3>2. r \in Job /\ r.at = "submitting" /\ r.inside = job[j].inside
      <4>1. r \in Job
        BY <3>1, SeesTo DEF Places
      <4>2. r.at = "submitting" /\ r.inside = job[j].inside
        BY SeesAs
      <4> QED BY <4>1, <4>2
    <3>3. Moves(j, r) /\ UNCHANGED state /\ job[j].at = "reconciling"
      BY <1>9, <2>2 DEF ReconcileRead
    <3> HIDE DEF r
    <3> QED BY <3>2, <3>3, MoveKeepsHeld DEF Holds
  <2> QED BY <2>1, <2>2
<1>10. CASE ReconcileWrite(j)
  <2>1. PICK text \in Text :
          Moves(j, [job[j] EXCEPT !.at = "returning",
                                  !.seen = [version |-> version + 1, content |-> text]])
    <3>1. job[j].seen.content \in Text /\ bases[AgentOf[j]] \in Text /\ canonical \in Text
      BY <1>a DEF TypeOK, Job, Checkout
    <3> QED BY <1>10, <3>1, MergeTyped DEF ReconcileWrite
  <2> DEFINE r == [job[j] EXCEPT !.at = "returning",
                                 !.seen = [version |-> version + 1, content |-> text]]
  <2>2. version + 1 \in Nat
    BY DEF TypeOK
  <2>3. r \in Job /\ r.at = "returning" /\ r.inside = job[j].inside
    <3>1. r \in Job
      BY <2>2, SeesTo DEF Places
    <3>2. r.at = "returning" /\ r.inside = job[j].inside
      BY SeesAs
    <3> QED BY <3>1, <3>2
  <2>4. UNCHANGED state /\ job[j].at = "submitting" /\ Moves(j, r)
    BY <1>10, <2>1 DEF ReconcileWrite
  <2> HIDE DEF r
  <2> QED BY <2>3, <2>4, MoveKeepsHeld DEF Holds
<1>11. CASE ReconcileRefused(j)
  BY <1>11, FinishKeepsHeld DEF ReconcileRefused
<1>12. CASE ReconcileReturn(j)
  BY <1>12, FinishKeepsHeld DEF ReconcileReturn
<1>13. CASE ReconcileFails(j)
  <2>1. CASE job[j].inside = "try"
    BY <1>13, <2>1, FailsKeepsHeld DEF ReconcileFails
  <2>2. CASE job[j].inside # "try"
    <3>1. ~Holds(j)
      BY <1>13, <2>2 DEF ReconcileFails, Holds
    <3> QED BY <1>13, <2>2, <3>1, CloseKeepsHeld DEF ReconcileFails, Rejects
  <2> QED BY <2>1, <2>2
<1>r. job[j].at \in {"restoring", "replacing"} => ~Holds(j)
  BY DEF Holds
<1>14. CASE RestoreWrite(j)
  BY <1>14, <1>r, CloseKeepsHeld DEF RestoreWrite
<1>15. CASE RestoreDenied(j)
  BY <1>15, <1>r, CloseKeepsHeld DEF RestoreDenied
<1>16. CASE RestoreFails(j)
  BY <1>16, <1>r, FailsKeepsHeld, CloseKeepsHeld DEF RestoreFails
<1> QED
  BY <1>1, <1>2, <1>3, <1>4, <1>5, <1>6, <1>7, <1>8, <1>9, <1>10, <1>11, <1>12,
     <1>13, <1>14, <1>15, <1>16 DEF Handler

(***************************************************************************)
(* Every claim is held by a request that will give it back, or was left by *)
(* a re-iteration that died in its materialize, for any agents, requests   *)
(* and failures.                                                           *)
(***************************************************************************)
THEOREM ClaimsAreHeld == Spec => []NoStuckClaim
<1> USE DEF store, plan
<1>1. Init => NoStuckClaim
  BY DEF Init, NoStuckClaim
<1>2. Orderly /\ OpenRecords /\ NoStuckClaim /\ [Next]_vars => NoStuckClaim'
  <2> SUFFICES ASSUME TypeOK, OpenRecords, NoStuckClaim, [Next]_vars
               PROVE  NoStuckClaim'
    BY DEF Orderly
  <2>1. ASSUME UNCHANGED << state, job >>
        PROVE  NoStuckClaim'
    BY <2>1 DEF NoStuckClaim, Holds, Stranded
  <2>2. ASSUME NEW j \in Jobs, StartTurn(j)
        PROVE  NoStuckClaim'
    <3>1. Opened(j, {}, "none") \in Job /\ ~Holds(j)
      BY <2>2, OpenedTo DEF StartTurn, Holds
    <3> QED BY <2>2, <3>1, MoveKeepsHeld DEF StartTurn
  <2>3. ASSUME NEW j \in Jobs, NEW purpose \in {"consultation", "reiteration"}, Claim(j, purpose)
        PROVE  NoStuckClaim'
    <3>1. AgentOf[j] \in Agents /\ job[j] \in Job
      BY DEF TypeOK
    <3>2. CASE warranted[AgentOf[j]]
      <4>1. Opened(j, {}, "open") \in Job /\ Opened(j, {}, "open").at = "reading"
        BY <3>1, OpenedTo DEF Opened, Job
      <4>2. Moves(j, Opened(j, {}, "open")) /\ PurposeOf[j] # "turn"
            /\ setState(AgentOf[j], "in_progress")
        BY <2>3, <3>2 DEF Claim
      <4>3. Keeps(j)' /\ \A i \in Jobs \ {j} : job'[i] = job[i]
        BY <4>1, <4>2, MovesOne DEF Keeps, Holds
      <4>4. \A a \in Agents \ {AgentOf[j]} : state'[a] = state[a]
        BY <3>1, <4>2, StateTyped DEF States
      <4> QED BY <4>3, <4>4, StepKeepsHeld
    <3>3. CASE ~warranted[AgentOf[j]]
      <4>1. \A i \in Jobs \ {j} : job'[i] = job[i]
        BY <2>3, <3>3, ClosedTo, MovesOne DEF Claim
      <4> QED BY <2>3, <3>3, <4>1, ReleaseKeepsHeld DEF Claim, States
    <3> QED BY <3>2, <3>3
  <2>4. ASSUME NEW j \in Jobs, Handler(j)
        PROVE  NoStuckClaim'
    BY <2>4, HandlerKeepsHeld
  <2>5. ASSUME NEW j \in Jobs, Edit(j)
        PROVE  NoStuckClaim'
    BY <2>5, <2>1 DEF Edit
  <2>6. CASE Autorun
    <3>1. UNCHANGED state /\ \A j \in Jobs : Keeps(j) => job'[j] = job[j]
      <4>1. PICK started \in SUBSET Jobs :
              /\ \A j \in started : job[j].at = "none"
              /\ job' = [j \in Jobs |-> IF j \in started THEN Opened(j, {"auto"}, "none") ELSE job[j]]
        <5> DEFINE worked == {AgentOf[j] : j \in {i \in Jobs : PurposeOf[i] = "turn"}}
                   idle   == {a \in worked : state[a] = "assigned"}
        <5>1. PICK start \in [idle -> Jobs] :
                /\ \A a \in idle : job[start[a]].at = "none"
                /\ job' = [j \in Jobs |-> IF j \in {start[a] : a \in idle} /\ warranted[AgentOf[j]]
                                          THEN Opened(j, {"auto"}, "none") ELSE job[j]]
          BY <2>6 DEF Autorun
        <5> HIDE DEF idle
        <5> WITNESS {j \in {start[a] : a \in idle} : warranted[AgentOf[j]]} \in SUBSET Jobs
        <5> QED BY <5>1
      <4> QED BY <2>6, <4>1 DEF Autorun, Keeps, Holds, Stranded
    <3> QED BY <3>1 DEF NoStuckClaim, Keeps, Holds, Stranded
  <2>7. CASE Integrate
    BY <2>7 DEF Integrate, NoStuckClaim
  <2>8. ASSUME NEW a \in Agents, Owner(a)
        PROVE  NoStuckClaim'
    <3>1. ASSUME NEW s \in States \ {"in_progress"}, setState(a, s), UNCHANGED job
          PROVE  NoStuckClaim'
      BY <3>1 DEF NoStuckClaim, Holds, Stranded, setState, TypeOK
    <3>2. CASE Stop(a) /\ active[a] # None
      <4>1. active[a] \in Jobs /\ \A j \in Jobs : job[j] \in Job
        BY <3>2 DEF TypeOK
      <4>2. [job[active[a]] EXCEPT !.marks = @ \cup {"cancelled"}] \in Job
        BY <4>1 DEF Job
      <4>3. \A j \in Jobs : /\ job'[j].at = job[j].at /\ job'[j].inside = job[j].inside
                           /\ job'[j].record = job[j].record
        BY <3>2, <4>1, <4>2, MovesOne DEF Stop, Job
      <4> QED BY <3>2, <4>3 DEF Stop, NoStuckClaim, Holds, Stranded
    <3>3. CASE Stop(a) /\ active[a] = None
      BY <3>1, <3>3 DEF Stop, States
    <3>4. CASE Submit(a)
      BY <3>1, <3>4 DEF Submit, States
    <3>5. CASE Approve(a)
      BY <3>1, <3>5 DEF Approve, States
    <3>6. CASE EndWarrant(a)
      BY <3>6, <2>1 DEF EndWarrant
    <3> QED BY <2>8, <3>2, <3>3, <3>4, <3>5, <3>6 DEF Owner
  <2>9. CASE UNCHANGED vars
    BY <2>9, <2>1 DEF vars
  <2> QED
    BY <2>2, <2>3, <2>4, <2>5, <2>6, <2>7, <2>8, <2>9
       DEF Next, Request, Ask, Reiterate
<1> QED
  BY <1>1, <1>2, OrderlyHolds, OpenRecordsHold, PTL DEF Spec

-----------------------------------------------------------------------------
\* What the agents of patient people wrote while they answered questions.
Answers == {j \in Jobs : PurposeOf[j] = "consultation" /\ AgentOf[j] \in Patient}

Clean(text) == text \cap Answers = {}

Working == {"admitting", "running", "settling", "reconciling", "submitting", "returning"}

\* Where a text has to be clean: in the document, in a file that is not an
\* answering agent's, in what was read of the document, and in what is offered.
CleanJob(j) ==
  /\ job[j].at \in {"placing", "replacing", "returning"} => Clean(job[j].seen.content)
  /\ job[j].at = "submitting" /\ warranted[AgentOf[j]] => Clean(job[j].seen.content)
  /\ job[j].at \in Working /\ PurposeOf[j] # "consultation" /\ warranted[AgentOf[j]]
       => Clean(disk[AgentOf[j]])

CleanInv ==
  /\ Clean(canonical)
  /\ \A a \in Agents \ Patient : Clean(disk[a])
  /\ \A j \in Jobs : CleanJob(j)

LEMMA CleanMerge ==
  ASSUME NEW b, NEW t, NEW m, Clean(t), Clean(m)
  PROVE  Clean(Merge3(b, t, m))
BY DEF Clean, Merge3

LEMMA CleanStays ==
  ASSUME Orderly, CleanInv, [Next]_vars
  PROVE  CleanInv'
<1> USE DEF store
<1>a. TypeOK /\ Roles /\ Alone
  BY DEF Orderly
<1>1. ASSUME NEW j \in Jobs, Effect(j)
      PROVE  CleanInv'
  <2> DEFINE a == AgentOf[j]
  <2>a. a \in Agents /\ job[j] \in Job /\ CleanJob(j) /\ Role(j, job[j]) /\ UnderWay(j)
    BY <1>a, <1>1 DEF TypeOK, CleanInv, Roles, Effect, Meanwhile
  <2>b. \A i \in Jobs \ {j} : job'[i] = job[i] /\ CleanJob(i)
    BY <1>1 DEF Effect, Meanwhile, CleanInv
  <2>c. warranted' = warranted
    BY <1>1 DEF Effect, Meanwhile
  <2>d. disk \in [Agents -> Text]
    BY <1>a DEF TypeOK
  <2>e. \A i \in Jobs \ {j} : AgentOf[i] = a /\ a \in Patient => job[i].at \notin Working
    BY <1>a, <2>a DEF Alone, Careful, UnderWay, Working
  \* The other jobs see a clean file as long as the step leaves the files of
  \* other agents, and of impatient ones a clean file.
  <2>f. ASSUME \A b \in Agents \ {a} : disk'[b] = disk[b], a \notin Patient => Clean(disk'[a])
        PROVE  /\ \A b \in Agents \ Patient : Clean(disk'[b])
               /\ \A i \in Jobs \ {j} : CleanJob(i)'
    <3>1. \A b \in Agents \ Patient : Clean(disk'[b])
      BY <2>f DEF CleanInv
    <3>2. ASSUME NEW i \in Jobs \ {j}
          PROVE  CleanJob(i)'
      <4>1. AgentOf[i] \in Agents /\ job'[i] = job[i] /\ CleanJob(i)
        BY <2>b
      <4>2. CASE AgentOf[i] = a
        BY <2>e, <2>f, <2>c, <4>1, <4>2 DEF CleanJob
      <4>3. CASE AgentOf[i] # a
        BY <2>f, <2>c, <4>1, <4>3 DEF CleanJob
      <4> QED BY <4>2, <4>3
    <3> QED BY <3>1, <3>2
  <2>1. CASE Fetches(j)
    <3>1. /\ job'[j].at \in {"placing", "replacing"} /\ job'[j].seen.content = canonical
          /\ UNCHANGED << canonical, disk >>
      BY <2>1 DEF Fetches
    <3>2. Clean(canonical)
      BY DEF CleanInv
    <3>3. CleanJob(j)'
      BY <3>1, <3>2 DEF CleanJob, Working
    <3> QED BY <2>f, <3>1, <3>2, <3>3 DEF CleanInv
  <2>2. CASE Puts(j)
    <3>1. Clean(job[j].seen.content)
      BY <2>2, <2>a DEF Puts, CleanJob
    <3>2. /\ disk'[a] = job[j].seen.content /\ \A b \in Agents \ {a} : disk'[b] = disk[b]
          /\ canonical' = canonical /\ job'[j].at \in {"admitting", "done"}
      BY <2>2, <2>a, <2>d DEF Puts, Place
    <3>3. CleanJob(j)'
      BY <3>1, <3>2 DEF CleanJob
    <3>4. Clean(canonical')
      BY <3>2 DEF CleanInv
    <3> QED BY <2>b, <2>f, <3>1, <3>2, <3>3, <3>4 DEF CleanInv
  <2>3. CASE Offers(j)
    <3>1. job'[j].at = "submitting" /\ job'[j].seen.content = disk[a] /\ UNCHANGED << canonical, disk >>
      BY <2>3 DEF Offers
    <3>2. warranted[a] => Clean(disk[a])
      BY <2>3, <2>a DEF Offers, CleanJob, Working, Role
    <3>3. CleanJob(j)'
      BY <2>c, <3>1, <3>2 DEF CleanJob
    <3> QED BY <2>b, <2>f, <3>1, <3>3 DEF CleanInv
  <2>4. CASE Commits(j)
    <3>1. Clean(job[j].seen.content) /\ Clean(disk[a]) /\ Clean(canonical)
      BY <2>4, <2>a DEF Commits, CleanJob, Working, Role, CleanInv
    <3>2. /\ job'[j].at = "returning" /\ job'[j].seen.content = canonical' /\ disk' = disk
          /\ \/ canonical' = job[j].seen.content
             \/ canonical' = Merge3(bases[a], canonical, job[j].seen.content)
      BY <2>4 DEF Commits
    <3>3. Clean(canonical')
      BY <3>1, <3>2, CleanMerge
    <3>4. CleanJob(j)'
      BY <3>1, <3>2, <3>3 DEF CleanJob
    <3> QED BY <2>b, <2>f, <3>1, <3>2, <3>3, <3>4 DEF CleanInv
  <2>5. CASE GoesOn(j)
    <3>1. job'[j].seen = job[j].seen /\ UNCHANGED << canonical, disk >>
      BY <2>5 DEF GoesOn
    <3>2. CleanJob(j)'
      <4>1. CASE job'[j].at = "done"
        BY <4>1 DEF CleanJob, Working
      <4>2. CASE ~warranted[a] /\ job'[j].at = "admitting"
        BY <2>c, <4>2 DEF CleanJob
      <4>3. CASE PurposeOf[j] = "consultation" /\ job'[j].at = "restoring"
        BY <4>3 DEF CleanJob, Working
      <4>4. CASE job[j].at \in Working /\ job'[j].at \in {"running", "settling", "reconciling"}
        BY <2>a, <2>c, <3>1, <4>4 DEF CleanJob
      <4> QED BY <2>5, <4>1, <4>2, <4>3, <4>4 DEF GoesOn, Working
    <3> QED BY <2>b, <2>f, <3>1, <3>2 DEF CleanInv
  <2> QED BY <1>1, <2>1, <2>2, <2>3, <2>4, <2>5 DEF Effect
<1>2. ASSUME NEW new \in SUBSET Jobs, Starts(new)
      PROVE  CleanInv'
  <2>1. UNCHANGED << canonical, disk, warranted >>
    BY <1>2 DEF Starts
  <2>2. \A j \in new : CleanJob(j)'
    BY <1>2 DEF Starts, CleanJob, Working
  <2>3. \A j \in Jobs \ new : CleanJob(j)'
    BY <1>2, <2>1 DEF Starts, CleanJob, CleanInv
  <2> QED BY <2>1, <2>2, <2>3 DEF CleanInv
<1>3. ASSUME NEW j \in Jobs, Edit(j)
      PROVE  CleanInv'
  <2>1. /\ job[j].at = "running" /\ UNCHANGED << canonical, job, warranted >>
        /\ disk' = [disk EXCEPT ![AgentOf[j]] = @ \cup {j}]
    BY <1>3 DEF Edit, plan
  <2>2. AgentOf[j] \in Agents /\ disk \in [Agents -> Text]
    BY <1>a DEF TypeOK
  <2>3. disk'[AgentOf[j]] = disk[AgentOf[j]] \cup {j}
        /\ \A b \in Agents \ {AgentOf[j]} : disk'[b] = disk[b]
    BY <2>1, <2>2
  <2>4. j \notin Answers /\ Clean(disk[AgentOf[j]]) => Clean(disk'[AgentOf[j]])
    BY <2>3 DEF Clean
  <2>5. \A b \in Agents \ Patient : Clean(disk'[b])
    BY <2>3, <2>4 DEF CleanInv, Answers
  <2>6. ASSUME NEW i \in Jobs
        PROVE  CleanJob(i)'
    <3>1. CleanJob(i) /\ job'[i] = job[i] /\ AgentOf[i] \in Agents
      BY <2>1 DEF CleanInv
    <3>2. CASE AgentOf[i] # AgentOf[j]
      BY <2>1, <2>3, <3>1, <3>2 DEF CleanJob
    <3>3. CASE AgentOf[i] = AgentOf[j] /\ AgentOf[j] \notin Patient
      BY <2>1, <2>5, <3>1, <3>3 DEF CleanJob
    <3>4. CASE AgentOf[i] = AgentOf[j] /\ AgentOf[j] \in Patient
      <4>1. job[i].at \in Working => i = j
        BY <1>a, <2>1, <3>4 DEF Alone, Careful, UnderWay, Working
      <4>2. PurposeOf[i] # "consultation" /\ i = j => j \notin Answers
        BY DEF Answers
      <4> QED BY <2>1, <2>4, <3>1, <3>4, <4>1, <4>2 DEF CleanJob
    <3> QED BY <3>2, <3>3, <3>4
  <2> QED BY <2>1, <2>5, <2>6 DEF CleanInv
<1>4. CASE Rests
  <2>1. UNCHANGED << canonical, disk >> /\ \A a \in Agents : warranted'[a] => warranted[a]
    BY <1>4 DEF Rests
  <2>2. ASSUME NEW j \in Jobs
        PROVE  CleanJob(j)'
    <3>1. AgentOf[j] \in Agents /\ CleanJob(j) /\ job'[j].at = job[j].at /\ job'[j].seen = job[j].seen
      BY <1>4 DEF CleanInv, Rests
    <3> QED BY <2>1, <3>1 DEF CleanJob
  <2> QED BY <2>1, <2>2 DEF CleanInv
<1> QED BY <1>a, <1>1, <1>2, <1>3, <1>4, StepsDo

(***************************************************************************)
(* What an agent whose people wait for each answer wrote while it answered *)
(* a question never reaches the document, for any agents and requests,     *)
(* with any restore denied or failing.                                     *)
(***************************************************************************)
THEOREM AnswersStayOut == Spec => []ConsultationChangesNothing
<1>1. Init => CleanInv
  <2> SUFFICES ASSUME Init
               PROVE  CleanInv
    OBVIOUS
  <2>1. \A a \in Agents : disk[a] = {}
    BY DEF Init
  <2>2. \A j \in Jobs : CleanJob(j)
    BY InitOrderly DEF CleanJob, Working
  <2>3. canonical = {}
    BY DEF Init
  <2> QED BY <2>1, <2>2, <2>3 DEF CleanInv, Clean
<1>2. Orderly /\ CleanInv /\ [Next]_vars => CleanInv'
  BY CleanStays
<1>3. CleanInv => ConsultationChangesNothing
  BY DEF CleanInv, Clean, Answers, ConsultationChangesNothing
<1> QED BY <1>1, <1>2, <1>3, OrderlyHolds, PTL DEF Spec

-----------------------------------------------------------------------------
\* A careful agent whose merged texts are always written back.
Steady(a) == Careful(a) /\ "reconcile" \notin Failing[a]

\* A text that was the document's when it had that version.
Current(text) ==
  /\ text.version <= version
  /\ text.version = version => text.content = canonical

\* File, checkout and merge base of a steady agent go together: what was
\* placed is the base, the file holds it until it is offered, and what is
\* offered at the version of the document holds the document.
Together(j) ==
  LET a == AgentOf[j]
  IN  /\ job[j].at = "placing" => bases[a] = job[j].seen.content
      /\ job[j].at \in {"admitting", "running", "settling", "reconciling"} /\ warranted[a]
           => bases[a] = checkout[a].content /\ bases[a] \subseteq disk[a]
      /\ job[j].at = "submitting" /\ warranted[a]
           => /\ bases[a] \subseteq job[j].seen.content
              /\ job[j].seen.version <= version
              /\ job[j].seen.version = version => canonical \subseteq job[j].seen.content

CurrentSeen(j) ==
  job[j].at \in {"placing", "replacing", "returning"} => Current(job[j].seen)

UndoInv ==
  /\ \A a \in Agents : Current(checkout[a])
  /\ \A j \in Jobs : CurrentSeen(j)
  /\ \A j \in Jobs : Steady(AgentOf[j]) /\ PurposeOf[j] # "consultation" => Together(j)

\* An offer that holds its merge base undoes nothing.
LEMMA OfferKeeps ==
  ASSUME TypeOK, UndoInv, NEW j \in Jobs, Commits(j), Steady(AgentOf[j]),
         PurposeOf[j] # "consultation"
  PROVE  canonical \subseteq canonical'
<1>1. Together(j)
  BY DEF UndoInv
<1>2. /\ bases[AgentOf[j]] \subseteq job[j].seen.content
      /\ job[j].seen.version = version => canonical \subseteq job[j].seen.content
  BY <1>1 DEF Together, Commits
<1> QED BY <1>2 DEF Commits, Merge3

LEMMA UndoStays ==
  ASSUME Orderly, UndoInv, [Next]_vars
  PROVE  UndoInv'
<1> USE DEF store
<1>a. TypeOK /\ Roles /\ Alone
  BY DEF Orderly
<1>b. version \in Nat /\ checkout \in [Agents -> Checkout] /\ disk \in [Agents -> Text]
      /\ bases \in [Agents -> Text]
  BY <1>a DEF TypeOK
<1>c. \A b \in Agents : Steady(b)' <=> Steady(b)
  BY <1>a, CareStays DEF Steady, Careful
<1>d. \A b \in Agents : checkout[b].version \in Nat /\ checkout[b].content \in Text
  BY <1>b DEF Checkout
<1>e. \A i \in Jobs : job[i].seen.version \in Nat /\ job[i].seen.content \in Text
  BY <1>a DEF TypeOK, Job, Checkout
<1>1. ASSUME NEW j \in Jobs, Effect(j)
      PROVE  UndoInv'
  <2> DEFINE a == AgentOf[j]
  <2>a. a \in Agents /\ job[j] \in Job /\ CurrentSeen(j) /\ Role(j, job[j]) /\ UnderWay(j)
    BY <1>a, <1>1 DEF TypeOK, UndoInv, Roles, Effect, Meanwhile
  <2>b. \A i \in Jobs \ {j} : job'[i] = job[i] /\ CurrentSeen(i)
    BY <1>1 DEF Effect, Meanwhile, UndoInv
  <2>c. warranted' = warranted
    BY <1>1 DEF Effect, Meanwhile
  <2>e. \A i \in Jobs \ {j} : AgentOf[i] = a /\ Steady(a) => ~UnderWay(i)
    BY <1>a, <2>a DEF Alone, Steady
  <2>g. Steady(a) /\ PurposeOf[j] # "consultation" => Together(j)
    BY DEF UndoInv
  \* The other jobs of a steady agent are not under way.
  <2>f. ASSUME \A b \in Agents \ {a} : /\ bases'[b] = bases[b] /\ disk'[b] = disk[b]
                                       /\ checkout'[b] = checkout[b],
               (version' = version /\ canonical' = canonical) \/ version' = version + 1
        PROVE  \A i \in Jobs \ {j} : /\ CurrentSeen(i)'
                                     /\ Steady(AgentOf[i])' /\ PurposeOf[i] # "consultation"
                                          => Together(i)'
    <3> TAKE i \in Jobs \ {j}
    <3>1. AgentOf[i] \in Agents /\ job'[i] = job[i] /\ CurrentSeen(i) /\ job[i].seen.version \in Nat
      BY <2>b, <1>e
    <3>2. CurrentSeen(i)'
      BY <1>b, <2>f, <3>1 DEF CurrentSeen, Current
    <3>3. ASSUME Steady(AgentOf[i])', PurposeOf[i] # "consultation"
          PROVE  Together(i)'
      <4>1. Steady(AgentOf[i]) /\ Together(i)
        BY <1>c, <3>1, <3>3 DEF UndoInv
      <4>2. CASE AgentOf[i] = a
        BY <2>e, <3>1, <4>1, <4>2 DEF Together, UnderWay
      <4>3. CASE AgentOf[i] # a
        BY <1>b, <2>c, <2>f, <3>1, <4>1, <4>3 DEF Together
      <4> QED BY <4>2, <4>3
    <3> QED BY <3>2, <3>3
  <2>1. CASE Fetches(j)
    <3>1. /\ job'[j].at \in {"placing", "replacing"} /\ job'[j].seen.version = version
          /\ job'[j].seen.content = canonical /\ bases'[a] = canonical
          /\ \A b \in Agents \ {a} : bases'[b] = bases[b]
          /\ UNCHANGED << version, canonical, disk, checkout >>
      BY <1>b, <2>1, <2>a DEF Fetches
    <3>2. CurrentSeen(j)' /\ Together(j)'
      BY <1>b, <3>1 DEF CurrentSeen, Current, Together
    <3>3. \A b \in Agents : Current(checkout[b])'
      BY <3>1 DEF UndoInv, Current
    <3> QED BY <2>f, <3>1, <3>2, <3>3 DEF UndoInv
  <2>2. CASE Puts(j)
    <3>1. Current(job[j].seen)
      BY <2>2, <2>a DEF Puts, CurrentSeen
    <3>2. /\ disk'[a] = job[j].seen.content /\ checkout'[a] = job[j].seen
          /\ \A b \in Agents \ {a} : disk'[b] = disk[b] /\ checkout'[b] = checkout[b]
          /\ UNCHANGED << version, canonical, bases >>
          /\ job'[j].at = IF job[j].at = "placing" THEN "admitting" ELSE "done"
      BY <1>b, <2>2, <2>a DEF Puts, Place
    <3>3. CurrentSeen(j)'
      BY <3>2 DEF CurrentSeen
    <3>4. \A b \in Agents : Current(checkout[b])'
      BY <3>1, <3>2 DEF UndoInv, Current
    <3>5. Steady(a) /\ PurposeOf[j] # "consultation" => Together(j)'
      BY <2>g, <3>2 DEF Together
    <3> QED BY <1>c, <2>a, <2>f, <3>2, <3>3, <3>4, <3>5 DEF UndoInv
  <2>3. CASE Offers(j)
    <3>1. /\ job[j].at = "reconciling" /\ job'[j].at = "submitting"
          /\ job'[j].seen.content = disk[a] /\ job'[j].seen.version = checkout[a].version
          /\ UNCHANGED << version, canonical, bases, disk, checkout >>
      BY <2>3 DEF Offers
    <3>2. CurrentSeen(j)'
      BY <3>1 DEF CurrentSeen
    <3>3. \A b \in Agents : Current(checkout[b])'
      BY <3>1 DEF UndoInv, Current
    <3>4. Current(checkout[a])
      BY <2>a DEF UndoInv
    <3>5. Steady(a) /\ PurposeOf[j] # "consultation" => Together(j)'
      BY <2>c, <2>g, <3>1, <3>4 DEF Together, Current
    <3> QED BY <1>c, <2>a, <2>f, <3>1, <3>2, <3>3, <3>5 DEF UndoInv
  <2>4. CASE Commits(j)
    <3>1. /\ job'[j].at = "returning" /\ version' = version + 1
          /\ job'[j].seen.version = version + 1 /\ job'[j].seen.content = canonical'
          /\ \A b \in Agents \ {a} : bases'[b] = bases[b]
          /\ UNCHANGED << disk, checkout >>
      BY <1>b, <2>4, <2>a DEF Commits
    <3>2. CurrentSeen(j)' /\ Together(j)'
      BY <1>b, <3>1 DEF CurrentSeen, Current, Together
    <3>3. \A b \in Agents : Current(checkout[b])'
      BY <1>b, <1>d, <3>1 DEF UndoInv, Current
    <3> QED BY <2>f, <3>1, <3>2, <3>3 DEF UndoInv
  <2>5. CASE GoesOn(j)
    <3>1. job'[j].seen = job[j].seen
          /\ UNCHANGED << version, canonical, bases, disk, checkout >>
      BY <2>5 DEF GoesOn
    <3>2. \A b \in Agents : Current(checkout[b])'
      BY <3>1 DEF UndoInv, Current
    <3>3. job'[j].at \in {"done", "admitting", "running", "settling", "restoring", "reconciling"}
      BY <2>5 DEF GoesOn
    <3>4. CurrentSeen(j)'
      BY <3>3 DEF CurrentSeen
    <3>5. ASSUME Steady(a), PurposeOf[j] # "consultation"
          PROVE  Together(j)'
      <4>1. CASE job'[j].at = "done"
        BY <4>1 DEF Together
      <4>2. CASE ~warranted[a] /\ job'[j].at = "admitting"
        BY <2>c, <4>2 DEF Together
      <4>3. CASE /\ job[j].at \in {"admitting", "running", "settling"}
                 /\ job'[j].at \in {"running", "settling", "reconciling"}
        BY <2>c, <2>g, <3>1, <3>5, <4>3 DEF Together
      <4> QED BY <2>5, <3>5, <4>1, <4>2, <4>3 DEF GoesOn, Steady
    <3> QED BY <1>c, <2>a, <2>f, <3>1, <3>2, <3>4, <3>5 DEF UndoInv
  <2> QED BY <1>1, <2>1, <2>2, <2>3, <2>4, <2>5 DEF Effect
<1>2. ASSUME NEW new \in SUBSET Jobs, Starts(new)
      PROVE  UndoInv'
  <2>1. UNCHANGED << version, canonical, bases, disk, checkout, warranted >>
    BY <1>2 DEF Starts
  <2>2. \A j \in new : CurrentSeen(j)' /\ Together(j)'
    BY <1>2 DEF Starts, CurrentSeen, Together
  <2>3. ASSUME NEW j \in Jobs \ new
        PROVE  CurrentSeen(j)' /\ (Steady(AgentOf[j])' /\ PurposeOf[j] # "consultation" => Together(j)')
    <3>1. AgentOf[j] \in Agents /\ job'[j] = job[j]
      BY <1>2 DEF Starts
    <3> QED BY <1>c, <2>1, <3>1 DEF UndoInv, CurrentSeen, Current, Together
  <2>4. \A a \in Agents : Current(checkout[a])'
    BY <2>1 DEF UndoInv, Current
  <2> QED BY <2>2, <2>3, <2>4 DEF UndoInv
<1>3. ASSUME NEW j \in Jobs, Edit(j)
      PROVE  UndoInv'
  <2>1. /\ UNCHANGED << version, canonical, bases, checkout, job, warranted >>
        /\ disk' = [disk EXCEPT ![AgentOf[j]] = @ \cup {j}]
    BY <1>3 DEF Edit, plan
  <2>2. \A b \in Agents : disk[b] \subseteq disk'[b]
    BY <1>b, <2>1
  <2>3. ASSUME NEW i \in Jobs
        PROVE  CurrentSeen(i)' /\ (Steady(AgentOf[i])' /\ PurposeOf[i] # "consultation" => Together(i)')
    <3>1. AgentOf[i] \in Agents /\ job'[i] = job[i]
      BY <2>1
    <3> QED BY <1>c, <2>1, <2>2, <3>1 DEF UndoInv, CurrentSeen, Current, Together
  <2>4. \A a \in Agents : Current(checkout[a])'
    BY <2>1 DEF UndoInv, Current
  <2> QED BY <2>3, <2>4 DEF UndoInv
<1>4. CASE Rests
  <2>1. UNCHANGED << version, canonical, bases, disk, checkout >>
        /\ \A a \in Agents : warranted'[a] => warranted[a]
    BY <1>4 DEF Rests
  <2>2. ASSUME NEW j \in Jobs
        PROVE  CurrentSeen(j)' /\ (Steady(AgentOf[j])' /\ PurposeOf[j] # "consultation" => Together(j)')
    <3>1. AgentOf[j] \in Agents /\ job'[j].at = job[j].at /\ job'[j].seen = job[j].seen
      BY <1>4 DEF Rests
    <3> QED BY <1>c, <2>1, <3>1 DEF UndoInv, CurrentSeen, Current, Together
  <2>3. \A a \in Agents : Current(checkout[a])'
    BY <2>1 DEF UndoInv, Current
  <2> QED BY <2>2, <2>3 DEF UndoInv
<1> QED BY <1>a, <1>1, <1>2, <1>3, <1>4, StepsDo

LEMMA UndoInvHolds == Spec => []UndoInv
<1>1. Init => UndoInv
  <2> SUFFICES ASSUME Init
               PROVE  UndoInv
    OBVIOUS
  <2>1. \A a \in Agents : Current(checkout[a])
    BY DEF Init, NoText, Current
  <2>2. \A j \in Jobs : CurrentSeen(j) /\ Together(j)
    BY InitOrderly DEF CurrentSeen, Together
  <2> QED BY <2>1, <2>2 DEF UndoInv
<1>2. Orderly /\ UndoInv /\ [Next]_vars => UndoInv'
  BY UndoStays
<1> QED BY <1>1, <1>2, OrderlyHolds, PTL DEF Spec

(***************************************************************************)
(* What the reconciler of a patient agent submits undoes nothing that was  *)
(* committed, for any agents, requests and other writers, as long as the   *)
(* merged text is always written back into the file of such an agent: a    *)
(* handler whose write-back throws reconciles once more, with the file of  *)
(* before and the merge base of after.                                     *)
(***************************************************************************)
THEOREM TurnsKeepWork ==
  ASSUME \A a \in Patient : "reconcile" \notin Failing[a]
  PROVE  Spec => TurnsUndoNothing
<1>1. Orderly /\ UndoInv /\ [Next]_vars
      => [\A j \in Jobs : job[j].at = "submitting" /\ job'[j].at = "returning"
                          /\ AgentOf[j] \in Patient
                          => canonical \subseteq canonical']_vars
  <2> SUFFICES ASSUME Orderly, UndoInv, [Next]_vars, NEW j \in Jobs,
                      job[j].at = "submitting", job'[j].at = "returning", AgentOf[j] \in Patient
               PROVE  canonical \subseteq canonical'
    OBVIOUS
  <2>1. TypeOK /\ Roles /\ Steady(AgentOf[j]) /\ PurposeOf[j] # "consultation"
    BY DEF Orderly, Steady, Careful, Roles, Role
  <2>2. ASSUME NEW i \in Jobs, Effect(i)
        PROVE  canonical \subseteq canonical'
    <3>1. i = j
      BY <2>2 DEF Effect, Meanwhile
    <3>2. Commits(j)
      BY <2>2, <3>1 DEF Effect, Fetches, Puts, Offers, GoesOn
    <3> QED BY <2>1, <3>2, OfferKeeps
  <2>3. ASSUME NEW new \in SUBSET Jobs, Starts(new)
        PROVE  canonical' = canonical
    BY <2>3 DEF Starts, store
  <2>4. ASSUME NEW i \in Jobs, Edit(i)
        PROVE  canonical' = canonical
    BY <2>4 DEF Edit, store
  <2>5. Rests => canonical' = canonical
    BY DEF Rests, store
  <2> QED BY <2>1, <2>2, <2>3, <2>4, <2>5, StepsDo
<1> QED BY <1>1, OrderlyHolds, UndoInvHolds, PTL DEF Spec, TurnsUndoNothing

-----------------------------------------------------------------------------
\* Today no two requests of an impatient agent overlap and every merged text
\* is written back.
Calm == \A a \in Agents : Steady(a)

\* The edits of others in a text of agent a come from the document.
Borrows(text, a) == \A e \in text : AgentOf[e] = a \/ e \in canonical

\* Between its submission and its next turn nothing of a patient agent runs.
Waits(a) ==
  state[a] \in {"submitted", "approved"} =>
    \A j \in Jobs : AgentOf[j] = a /\ UnderWay(j) =>
      PurposeOf[j] = "turn" /\ job[j].at \in {"reading", "placing"}

OwnWork(a) == {j \in canonical : AgentOf[j] = a}

ApprovalInv ==
  /\ {j \in Jobs : job[j].at # "never"} \in Days
  /\ \A a \in Agents : ~Today(a) => state[a] = "assigned"
  /\ \A a \in Patient : Waits(a)
  /\ Calm => /\ \A a \in Agents : Borrows(disk[a], a)
             /\ \A j \in Jobs : Borrows(job[j].seen.content, AgentOf[j])
             /\ \A a \in Patient : state[a] = "approved" => OwnWork(a) \subseteq approved[a]

\* Where every agent is steady the document only grows.
LEMMA CalmGrows ==
  ASSUME Orderly, UndoInv, Calm, [Next]_vars
  PROVE  canonical \subseteq canonical'
<1>a. TypeOK /\ Roles
  BY DEF Orderly
<1>1. ASSUME NEW j \in Jobs, Effect(j)
      PROVE  canonical \subseteq canonical'
  <2>1. CASE Commits(j)
    <3>1. AgentOf[j] \in Agents /\ PurposeOf[j] # "consultation"
      BY <1>a, <2>1 DEF Roles, Role, Commits
    <3> QED BY <1>a, <2>1, <3>1, OfferKeeps DEF Calm
  <2> QED BY <1>1, <2>1 DEF Effect, Fetches, Puts, Offers, GoesOn, store
<1>2. ASSUME NEW new \in SUBSET Jobs, Starts(new)
      PROVE  canonical \subseteq canonical'
  BY <1>2 DEF Starts, store
<1>3. ASSUME NEW j \in Jobs, Edit(j)
      PROVE  canonical \subseteq canonical'
  BY <1>3 DEF Edit, store
<1>4. CASE Rests
  BY <1>4 DEF Rests, store
<1> QED BY <1>a, <1>1, <1>2, <1>3, <1>4, StepsDo

\* An agent submits and is approved while nothing of it is under way.
LEMMA WaitsStays ==
  ASSUME Orderly, ApprovalInv, [Next]_vars, NEW a \in Patient
  PROVE  Waits(a)'
<1> SUFFICES ASSUME state'[a] \in {"submitted", "approved"}, NEW j \in Jobs, AgentOf[j] = a,
                    UnderWay(j)'
             PROVE  PurposeOf[j] = "turn" /\ job'[j].at \in {"reading", "placing"}
  BY DEF Waits
<1>a. TypeOK /\ Roles /\ Alone /\ a \in Agents
  BY DEF Orderly
<1>b. state[a] \in {"submitted", "approved"} /\ UnderWay(j)
      => PurposeOf[j] = "turn" /\ job[j].at \in {"reading", "placing"}
  BY DEF ApprovalInv, Waits
<1>p. PurposeOf[j] \in Purposes
  OBVIOUS
<1>1. ASSUME NEW i \in Jobs, Effect(i)
      PROVE  PurposeOf[j] = "turn" /\ job'[j].at \in {"reading", "placing"}
  <2>1. state'[a] = state[a]
    BY <1>1, <1>a DEF Effect, Meanwhile
  <2>2. CASE i # j
    BY <1>1, <1>b, <2>1, <2>2 DEF Effect, Meanwhile, UnderWay
  <2>3. CASE i = j
    <3>1. PurposeOf[j] = "turn" /\ job[j].at \in {"reading", "placing"}
      BY <1>1, <1>b, <2>1, <2>3 DEF Effect, Meanwhile
    <3>2. job'[j].at # "admitting"
      BY <1>1, <2>1, <2>3, <3>1 DEF Effect, Meanwhile
    <3> QED BY <1>1, <2>3, <3>1, <3>2 DEF Effect, Fetches, Puts, Offers, Commits, GoesOn, UnderWay
  <2> QED BY <2>2, <2>3
<1>2. ASSUME NEW new \in SUBSET Jobs, Starts(new)
      PROVE  PurposeOf[j] = "turn" /\ job'[j].at \in {"reading", "placing"}
  <2>1. state'[a] = state[a]
    BY <1>2, <1>a DEF Starts
  <2>2. CASE j \in new
    BY <1>2, <2>2 DEF Starts, UnderWay
  <2>3. CASE j \notin new
    BY <1>2, <1>b, <2>1, <2>3 DEF Starts, UnderWay
  <2> QED BY <2>2, <2>3
<1>3. ASSUME Rests \/ \E i \in Jobs : Edit(i)
      PROVE  PurposeOf[j] = "turn" /\ job'[j].at \in {"reading", "placing"}
  <2>1. job'[j].at = job[j].at
    BY <1>3 DEF Rests, Edit
  <2>2. UnderWay(j)
    BY <2>1 DEF UnderWay
  <2>3. state[a] \in {"submitted", "approved"}
    <3>1. ASSUME NEW b \in Agents, Submit(b)
          PROVE  state[a] \in {"submitted", "approved"}
      BY <1>a, <2>2, <3>1 DEF Submit, Ready, setState, TypeOK
    <3>2. ASSUME NEW b \in Agents, Approve(b)
          PROVE  state[a] \in {"submitted", "approved"}
      BY <1>a, <3>2 DEF Approve, setState, TypeOK
    <3>3. ASSUME NEW b \in Agents, Stop(b) \/ EndWarrant(b)
          PROVE  state'[a] = state[a]
      BY <1>a, <3>3 DEF Stop, EndWarrant, setState, TypeOK
    <3>4. CASE Integrate
      BY <1>a, <3>4 DEF Integrate
    <3>5. ASSUME NEW i \in Jobs, Handler(i)
          PROVE  state'[a] = state[a]
      BY <1>a, <3>5, HandlerDoes DEF Effect, Meanwhile
    <3>6. ASSUME NEW i \in Jobs, Request(i)
          PROVE  state'[a] = state[a]
      BY <1>a, <3>6, RequestStarts DEF Starts
    <3>7. CASE Autorun
      BY <3>7 DEF Autorun
    <3>8. ASSUME NEW i \in Jobs, Edit(i)
          PROVE  state'[a] = state[a]
      BY <3>8 DEF Edit
    <3>9. CASE UNCHANGED vars
      BY <3>9 DEF vars
    <3> QED BY <3>1, <3>2, <3>3, <3>4, <3>5, <3>6, <3>7, <3>8, <3>9 DEF Next, Owner
  <2> QED BY <1>b, <2>1, <2>2, <2>3
<1> QED BY <1>a, <1>1, <1>2, <1>3, StepsDo

\* What others brought into the texts is in the document and stays there.
LEMMA BorrowsStays ==
  ASSUME Orderly, UndoInv, ApprovalInv, Calm, [Next]_vars
  PROVE  /\ \A a \in Agents : Borrows(disk[a], a)'
         /\ \A j \in Jobs : Borrows(job[j].seen.content, AgentOf[j])'
<1>a. TypeOK /\ Roles /\ Alone /\ canonical \subseteq canonical'
  BY CalmGrows DEF Orderly
<1>b. disk \in [Agents -> Text]
  BY <1>a DEF TypeOK
<1>c. /\ \A a \in Agents : \A e \in disk[a] : AgentOf[e] = a \/ e \in canonical
      /\ \A j \in Jobs : \A e \in job[j].seen.content : AgentOf[e] = AgentOf[j] \/ e \in canonical
  BY DEF ApprovalInv, Borrows
<1>1. ASSUME NEW j \in Jobs, Effect(j)
      PROVE  /\ \A a \in Agents : Borrows(disk[a], a)'
             /\ \A i \in Jobs : Borrows(job[i].seen.content, AgentOf[i])'
  <2>a. AgentOf[j] \in Agents /\ \A i \in Jobs \ {j} : job'[i] = job[i]
    BY <1>1 DEF Effect, Meanwhile
  <2>b. \A i \in Jobs \ {j} : Borrows(job[i].seen.content, AgentOf[i])'
    BY <1>a, <1>c, <2>a DEF Borrows
  <2>1. CASE Fetches(j)
    <3>1. disk' = disk /\ job'[j].seen.content = canonical
      BY <2>1 DEF Fetches
    <3> QED BY <1>a, <1>c, <2>b, <3>1 DEF Borrows
  <2>2. CASE Puts(j)
    <3>1. /\ disk'[AgentOf[j]] = job[j].seen.content /\ job'[j].seen = job[j].seen
          /\ \A b \in Agents \ {AgentOf[j]} : disk'[b] = disk[b]
      BY <1>b, <2>2, <2>a DEF Puts, Place
    <3> QED BY <1>a, <1>c, <2>b, <3>1 DEF Borrows
  <2>3. CASE Offers(j)
    <3>1. disk' = disk /\ job'[j].seen.content = disk[AgentOf[j]]
      BY <2>3 DEF Offers
    <3> QED BY <1>a, <1>c, <2>a, <2>b, <3>1 DEF Borrows
  <2>4. CASE Commits(j)
    <3>1. disk' = disk /\ job'[j].seen.content = canonical'
      BY <2>4 DEF Commits
    <3> QED BY <1>a, <1>c, <2>b, <3>1 DEF Borrows
  <2>5. CASE GoesOn(j)
    <3>1. disk' = disk /\ job'[j].seen = job[j].seen
      BY <2>5 DEF GoesOn
    <3> QED BY <1>a, <1>c, <2>b, <3>1 DEF Borrows
  <2> QED BY <1>1, <2>1, <2>2, <2>3, <2>4, <2>5 DEF Effect
<1>2. ASSUME NEW new \in SUBSET Jobs, Starts(new)
      PROVE  disk' = disk /\ \A j \in Jobs : job'[j].seen = job[j].seen
  BY <1>2 DEF Starts
<1>3. ASSUME NEW j \in Jobs, Edit(j)
      PROVE  /\ \A a \in Agents : Borrows(disk[a], a)'
             /\ \A i \in Jobs : Borrows(job[i].seen.content, AgentOf[i])'
  <2>1. AgentOf[j] \in Agents /\ job' = job /\ disk' = [disk EXCEPT ![AgentOf[j]] = @ \cup {j}]
    BY <1>3 DEF Edit
  <2>2. \A a \in Agents : \A e \in disk'[a] : e \in disk[a] \/ AgentOf[e] = a
    BY <1>b, <2>1
  <2> QED BY <1>a, <1>c, <2>1, <2>2 DEF Borrows
<1>4. CASE Rests
  BY <1>a, <1>c, <1>4 DEF Rests, Borrows
<1> QED BY <1>a, <1>c, <1>1, <1>2, <1>3, <1>4, StepsDo DEF Borrows

\* Approved work stays what was approved until the agent's next turn.
LEMMA ApprovedStays ==
  ASSUME Orderly, UndoInv, ApprovalInv, Calm, [Next]_vars, NEW a \in Patient,
         state'[a] = "approved"
  PROVE  OwnWork(a)' \subseteq approved'[a]
<1>a. TypeOK /\ Roles /\ Alone /\ a \in Agents
  BY DEF Orderly
<1>b. state[a] = "approved" => OwnWork(a) \subseteq approved[a]
  BY DEF ApprovalInv
<1>c. \A j \in Jobs : \A e \in job[j].seen.content : AgentOf[e] = AgentOf[j] \/ e \in canonical
  BY DEF ApprovalInv, Borrows
<1>1. ASSUME NEW j \in Jobs, Effect(j)
      PROVE  OwnWork(a)' \subseteq approved'[a]
  <2>1. state[a] = "approved" /\ approved' = approved
    BY <1>1, <1>a DEF Effect, Meanwhile
  <2>2. CASE Commits(j)
    <3>1. AgentOf[j] # a
      BY <1>1, <2>1, <2>2 DEF ApprovalInv, Waits, Effect, Meanwhile, Commits
    <3>2. \A e \in canonical' : e \in canonical \/ e \in job[j].seen.content
      BY <2>2 DEF Commits, Merge3
    <3>3. \A e \in canonical' : AgentOf[e] = a => e \in canonical
      BY <1>c, <3>1, <3>2
    <3> QED BY <1>b, <2>1, <3>3 DEF OwnWork
  <2>3. CASE ~Commits(j)
    <3>1. canonical' = canonical
      BY <1>1, <2>3 DEF Effect, Fetches, Puts, Offers, GoesOn, store
    <3> QED BY <1>b, <2>1, <3>1 DEF OwnWork
  <2> QED BY <2>2, <2>3
<1>2. ASSUME NEW new \in SUBSET Jobs, Starts(new)
      PROVE  OwnWork(a)' \subseteq approved'[a]
  BY <1>2, <1>a, <1>b DEF Starts, store, OwnWork
<1>3. ASSUME NEW j \in Jobs, Edit(j)
      PROVE  OwnWork(a)' \subseteq approved'[a]
  BY <1>3, <1>b DEF Edit, store, plan, OwnWork
<1>4. ASSUME NEW b \in Agents, Owner(b)
      PROVE  OwnWork(a)' \subseteq approved'[a]
  <2>1. CASE Approve(b) /\ a = b
    BY <1>a, <2>1 DEF Approve, store, OwnWork, TypeOK
  <2>2. CASE Approve(b) /\ a # b
    BY <1>a, <1>b, <2>2 DEF Approve, setState, store, OwnWork, TypeOK
  <2>3. CASE Stop(b) \/ Submit(b) \/ EndWarrant(b)
    <3>1. state'[a] = state[a] /\ approved' = approved /\ canonical' = canonical
      BY <1>a, <2>3 DEF Stop, Submit, EndWarrant, setState, store, plan, TypeOK
    <3> QED BY <1>b, <3>1 DEF OwnWork
  <2> QED BY <1>4, <2>1, <2>2, <2>3 DEF Owner
<1>5. CASE Integrate
  BY <1>a, <1>5 DEF Integrate
<1>6. CASE UNCHANGED vars
  BY <1>b, <1>6 DEF vars, store, plan, OwnWork
<1>7. ASSUME NEW j \in Jobs, Request(j) \/ Handler(j)
      PROVE  OwnWork(a)' \subseteq approved'[a]
  <2>1. CASE Handler(j)
    BY <1>a, <1>1, <2>1, HandlerDoes
  <2>2. CASE Request(j)
    BY <1>a, <1>2, <2>2, RequestStarts, {j} \in SUBSET Jobs
  <2> QED BY <1>7, <2>1, <2>2
<1>8. CASE Autorun
  BY <1>a, <1>2, <1>8, AutorunStarts
<1> QED BY <1>3, <1>4, <1>5, <1>6, <1>7, <1>8 DEF Next

\* Nothing happens to an agent that has no request today.
LEMMA IdleStays ==
  ASSUME Orderly, ApprovalInv, [Next]_vars, NEW a \in Agents, ~Today(a)'
  PROVE  state'[a] = "assigned"
<1>a. TypeOK /\ Roles
  BY DEF Orderly
<1>b. ~Today(a) /\ state[a] = "assigned"
  BY <1>a, DayStays DEF Today, ApprovalInv
<1>1. ASSUME NEW j \in Jobs, Effect(j)
      PROVE  state'[a] = "assigned"
  BY <1>b, <1>1 DEF Effect, Meanwhile, Today, UnderWay
<1>2. ASSUME NEW new \in SUBSET Jobs, Starts(new)
      PROVE  state'[a] = "assigned"
  BY <1>b, <1>2 DEF Starts, Today
<1>3. ASSUME NEW j \in Jobs, Edit(j)
      PROVE  state'[a] = "assigned"
  BY <1>b, <1>3 DEF Edit
<1>4. ASSUME NEW b \in Agents, Owner(b)
      PROVE  state'[a] = "assigned"
  BY <1>a, <1>b, <1>4 DEF Owner, Stop, Submit, Approve, EndWarrant, setState, TypeOK
<1>5. CASE UNCHANGED vars
  BY <1>b, <1>5 DEF vars
<1>6. ~Integrate
  BY <1>b DEF Integrate, pendingApprovals
<1>7. ASSUME NEW j \in Jobs, Request(j) \/ Handler(j)
      PROVE  state'[a] = "assigned"
  <2>1. CASE Handler(j)
    BY <1>a, <1>1, <2>1, HandlerDoes
  <2>2. CASE Request(j)
    BY <1>a, <1>2, <2>2, RequestStarts, {j} \in SUBSET Jobs
  <2> QED BY <1>7, <2>1, <2>2
<1>8. CASE Autorun
  BY <1>a, <1>2, <1>8, AutorunStarts
<1> QED BY <1>3, <1>4, <1>5, <1>6, <1>7, <1>8 DEF Next

LEMMA ApprovalStays ==
  ASSUME Orderly, UndoInv, ApprovalInv, [Next]_vars
  PROVE  ApprovalInv'
<1>a. TypeOK /\ Roles
  BY DEF Orderly
<1>1. {j \in Jobs : job'[j].at # "never"} = {j \in Jobs : job[j].at # "never"}
  BY <1>a, DayStays
<1>2. Calm' <=> Calm
  BY <1>a, CareStays DEF Calm, Steady, Careful
<1>3. \A a \in Agents : ~Today(a)' => state'[a] = "assigned"
  BY IdleStays
<1>4. \A a \in Patient : Waits(a)'
  BY WaitsStays
<1>5. Calm => /\ \A a \in Agents : Borrows(disk[a], a)'
              /\ \A j \in Jobs : Borrows(job[j].seen.content, AgentOf[j])'
  BY BorrowsStays
<1>6. Calm => \A a \in Patient : state'[a] = "approved" => OwnWork(a)' \subseteq approved'[a]
  BY ApprovedStays
<1> QED BY <1>1, <1>2, <1>3, <1>4, <1>5, <1>6 DEF ApprovalInv

LEMMA ApprovalInvHolds == Spec => []ApprovalInv
<1>1. Init => ApprovalInv
  <2> SUFFICES ASSUME Init
               PROVE  ApprovalInv
    OBVIOUS
  <2>1. PICK made \in Days :
          job = [j \in Jobs |-> IF j \in made THEN NoJob ELSE [NoJob EXCEPT !.at = "never"]]
    BY DEF Init
  <2>2. made \subseteq Jobs /\ {j \in Jobs : job[j].at # "never"} = made
    BY <2>1 DEF NoJob
  <2>3. \A a \in Agents : state[a] = "assigned" /\ disk[a] = {}
    BY DEF Init
  <2>4. \A j \in Jobs : job[j].seen.content = {}
    BY InitOrderly DEF NoText
  <2> QED BY <2>2, <2>3, <2>4 DEF ApprovalInv, Waits, Borrows
<1>2. Orderly /\ UndoInv /\ ApprovalInv /\ [Next]_vars => ApprovalInv'
  BY ApprovalStays
<1> QED BY <1>1, <1>2, OrderlyHolds, UndoInvHolds, PTL DEF Spec

\* Only the integration of the task integrates its subtasks.
Unmerged == task = "planned" => \A a \in Agents : state[a] # "integrated"

LEMMA UnmergedHolds == Spec => []Unmerged
<1>1. Init => Unmerged
  BY DEF Init, Unmerged
<1>2. Orderly /\ Unmerged /\ [Next]_vars => Unmerged'
  <2> SUFFICES ASSUME Orderly, Unmerged, [Next]_vars, task' = "planned", NEW a \in Agents
               PROVE  state'[a] # "integrated"
    BY DEF Unmerged
  <2>a. TypeOK /\ Roles
    BY DEF Orderly
  <2>b. task = "planned" => state[a] # "integrated"
    BY DEF Unmerged
  <2>1. ASSUME NEW j \in Jobs, Handler(j)
        PROVE  state'[a] # "integrated"
    BY <2>a, <2>b, <2>1, HandlerDoes DEF Effect, Meanwhile
  <2>2. ASSUME NEW j \in Jobs, Request(j)
        PROVE  state'[a] # "integrated"
    BY <2>a, <2>b, <2>2, RequestStarts DEF Starts
  <2>3. ASSUME NEW j \in Jobs, Edit(j)
        PROVE  state'[a] # "integrated"
    BY <2>b, <2>3 DEF Edit, plan
  <2>4. CASE Autorun
    BY <2>b, <2>4 DEF Autorun
  <2>5. ASSUME NEW b \in Agents, Owner(b)
        PROVE  state'[a] # "integrated"
    BY <2>a, <2>b, <2>5 DEF Owner, Stop, Submit, Approve, EndWarrant, plan, setState, TypeOK
  <2>6. CASE Integrate
    BY <2>6 DEF Integrate
  <2>7. CASE UNCHANGED vars
    BY <2>b, <2>7 DEF vars, plan
  <2> QED BY <2>1, <2>2, <2>3, <2>4, <2>5, <2>6, <2>7 DEF Next
<1> QED BY <1>1, <1>2, OrderlyHolds, PTL DEF Spec

(***************************************************************************)
(* A task is integrated with no work of a patient agent that its owner had *)
(* not seen when approving, for any agents and requests, as long as merged *)
(* texts are written back and, on the days on which every agent has a      *)
(* request, an agent whose people do not wait has one only: two overlapping *)
(* requests of another agent can remove an edit and bring it back after    *)
(* its owner approved the document without it.                             *)
(***************************************************************************)
THEOREM IntegrationIsApproved ==
  ASSUME \A a \in Agents : "reconcile" \notin Failing[a],
         \A made \in Days : {AgentOf[j] : j \in made} = Agents =>
           \A i, j \in made : AgentOf[i] = AgentOf[j] /\ i # j => AgentOf[i] \in Patient
  PROVE  Spec => IntegratedWorkIsApproved
<1>1. Orderly /\ ApprovalInv /\ Unmerged /\ [Next]_vars
      => [task = "planned" /\ task' = "integrated" =>
            \A a \in Patient : {j \in canonical : AgentOf[j] = a} \subseteq approved[a]]_vars
  <2> SUFFICES ASSUME Orderly, ApprovalInv, Unmerged, [Next]_vars, task = "planned", task' = "integrated",
                      NEW a \in Patient
               PROVE  OwnWork(a) \subseteq approved[a]
    BY DEF OwnWork
  <2>a. TypeOK /\ Roles /\ a \in Agents
    BY DEF Orderly
  <2>1. Integrate
    <3>1. \A j \in Jobs : ~Handler(j) /\ ~Request(j) /\ ~Edit(j)
      <4>1. ASSUME NEW j \in Jobs, Handler(j)
            PROVE  FALSE
        BY <2>a, <4>1, HandlerDoes DEF Effect, Meanwhile
      <4>2. ASSUME NEW j \in Jobs, Request(j)
            PROVE  FALSE
        BY <2>a, <4>2, RequestStarts DEF Starts
      <4>3. ASSUME NEW j \in Jobs, Edit(j)
            PROVE  FALSE
        BY <4>3 DEF Edit, plan
      <4> QED BY <4>1, <4>2, <4>3
    <3>2. ~Autorun
      BY DEF Autorun
    <3>3. \A b \in Agents : ~Owner(b)
      BY DEF Owner, Stop, Submit, Approve, EndWarrant, plan
    <3>4. ~UNCHANGED vars
      BY DEF vars, plan
    <3> QED BY <3>1, <3>2, <3>3, <3>4 DEF Next
  <2>2. \A b \in Agents : state[b] \in {"approved", "integrated"}
    BY <2>1 DEF Integrate, pendingApprovals
  <2> DEFINE made == {j \in Jobs : job[j].at # "never"}
  <2>3. \A b \in Agents : Today(b)
    BY <2>2 DEF ApprovalInv
  <2>4. made \in Days /\ {AgentOf[j] : j \in made} = Agents
    <3>1. made \in Days
      BY DEF ApprovalInv
    <3>2. \A b \in Agents : \E j \in made : AgentOf[j] = b
      BY <2>3 DEF Today
    <3> QED BY <3>1, <3>2
  <2>5. \A i, j \in made : AgentOf[i] = AgentOf[j] /\ i # j => AgentOf[i] \in Patient
    BY <2>4
  <2>6. Calm
    BY <2>5 DEF Calm, Steady, Careful, Single
  <2>7. state[a] = "approved"
    BY <2>a, <2>2 DEF Unmerged
  <2> QED BY <2>6, <2>7 DEF ApprovalInv
<1> QED BY <1>1, OrderlyHolds, ApprovalInvHolds, UnmergedHolds, PTL DEF Spec, IntegratedWorkIsApproved

=============================================================================
