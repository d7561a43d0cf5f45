------------------------------ MODULE Review -------------------------------
(***************************************************************************)
(* The review loop: review/service.ts, apply-authored.ts, reiteration.ts   *)
(* and the routes in front of them. Comments written by humans, or raised  *)
(* by agents in the reply of a turn, are sent to the agent that wrote the  *)
(* lines, by hand or by the auto mode of the agent's owner, and what       *)
(* became of the revision decides where the comment goes next.             *)
(*                                                                         *)
(* One document. Its text is abstracted to which comments are about lines  *)
(* that changed since ("moved"); the workspace and the merge of a revision *)
(* are modules Turns and SharedDoc, here a run has an outcome.             *)
(***************************************************************************)
EXTENDS Integers, FiniteSets, Sequences

CONSTANTS Agents, Humans, OwnerOf, None,
          Reviewers,     \* the humans who write comments of their own
          MaxRounds,     \* REVIEW_MAX_AGENT_ROUNDS
          MaxPerRun,     \* MAX_COMMENTS_PER_RUN
          MaxRaised,     \* MAX_AGENT_COMMENTS_PER_TURN
          MaxComments,   \* bound: comments ever written
          MaxEvents      \* bound: what humans do, edits, failures, restarts

ASSUME ReviewAssumption ==
  /\ None \notin Agents
  /\ OwnerOf \in [Agents -> Humans]
  /\ Reviewers \subseteq Humans
  /\ MaxRounds \in Nat \ {0}
  /\ MaxPerRun \in Nat \ {0}
  /\ MaxRaised \in Nat
  /\ MaxComments \in Nat
  /\ MaxEvents \in Nat

VARIABLES
  comments,  \* the comments, in the order of their creation
  moved,     \* the comments whose lines no longer hold the quoted text
  state,     \* Subtask.state of each agent
  turn,      \* where the agent's ordinary turn is
  work,      \* the agent's re-iteration, or None
  dying,     \* the comments of the agent's run that is in its error path
  disk,      \* the comments as the state file has them
  events     \* bound: external events so far

vars == <<comments, moved, state, turn, work, dying, disk, events>>

Statuses == {"open", "in_progress", "addressed", "resolved", "stale",
             "conflict", "failed", "blocked"}

Ids == 1 .. MaxComments

Comment == [by: Agents \cup {None}, human: Humans, to: Agents, rounds: Nat,
            agreed: SUBSET Agents, status: Statuses]

Work == [place: {"materializing", "running"}, over: SUBSET Ids]

\* "submitted" stands for the approved and integrated, too: nobody here tells
\* them apart.
SubtaskStates == {"assigned", "in_progress", "submitted"}

TurnPlaces == {"none", "materializing", "running"}

TypeOK ==
  /\ comments \in Seq(Comment) /\ Len(comments) <= MaxComments
  /\ moved \subseteq Ids
  /\ state \in [Agents -> SubtaskStates]
  /\ turn \in [Agents -> TurnPlaces]
  /\ work \in [Agents -> Work \cup {None}]
  /\ dying \in [Agents -> SUBSET Ids]
  /\ disk \in Seq(Comment) /\ Len(disk) <= MaxComments
  /\ events \in 0 .. MaxEvents

Init ==
  /\ comments = <<>> /\ disk = <<>>
  /\ moved = {}
  /\ state = [a \in Agents |-> "assigned"]
  /\ turn = [a \in Agents |-> "none"]
  /\ work = [a \in Agents |-> None]
  /\ dying = [a \in Agents |-> {}]
  /\ events = 0

Event == events < MaxEvents /\ events' = events + 1

FromAgent(c) == comments[c].by # None

Working(a) == work[a] # None

setState(a, s) == state' = [state EXCEPT ![a] = s]

-----------------------------------------------------------------------------
(***************************************************************************)
(* ReviewService                                                           *)
(***************************************************************************)

newComment(by, human, to, rounds) ==
  [by |-> by, human |-> human, to |-> to, rounds |-> rounds,
   agreed |-> {}, status |-> "open"]

\* An agent's comment has nobody watching it: every bad end goes to a human.
escalate(comment, outcome) ==
  IF comment.by # None
     /\ (outcome \in {"conflict", "failed"} \/ comment.rounds >= MaxRounds)
  THEN "blocked" ELSE outcome

CommentStatusOf(status) ==
  CASE status \in {"written", "merged"} -> "addressed"
    [] status = "conflict"              -> "conflict"
    [] status = "no_change"             -> "open"
    [] OTHER                            -> "failed"


\* closeRun for one comment: whatever its status is by now, it is replaced.
Closed(comment, status) ==
  LET spent == [comment EXCEPT !.rounds = @ + 1]
  IN  [spent EXCEPT !.status = escalate(spent, CommentStatusOf(status))]

closeRun(over, status) ==
  [c \in DOMAIN comments |->
     IF c \in over THEN Closed(comments[c], status) ELSE comments[c]]

\* Mutant: one of the two agents suffices.
agentResolveAlone(comment, a) ==
  IF comment.by = None \/ a \notin {comment.by, comment.to} THEN comment
  ELSE [comment EXCEPT !.agreed = @ \cup {a}, !.status = "resolved"]

\* agentResolve by agent a: refused for a human's comment and for a stranger.
agentResolve(comment, a) ==
  IF comment.by = None \/ a \notin {comment.by, comment.to} THEN comment
  ELSE LET said == [comment EXCEPT !.agreed = @ \cup {a}]
       IN  IF {comment.by, comment.to} \subseteq said.agreed
           THEN [said EXCEPT !.status = "resolved"] ELSE said

\* Mutant: an agent's comment is held like a human's.
markStaleAlike(c) == comments' = [comments EXCEPT ![c].status = "stale"]

markStale(c) ==
  comments' = [comments EXCEPT ![c].status =
                 IF FromAgent(c) THEN "blocked" ELSE "stale"]

-----------------------------------------------------------------------------
(***************************************************************************)
(* planRuns and the routes that send comments                              *)
(***************************************************************************)

\* A human's comment is its author's to send, an agent's also the owner's of
\* the agent it is for.
MaySend(h, c) ==
  \/ comments[c].human = h
  \/ FromAgent(c) /\ OwnerOf[comments[c].to] = h

Sendable(h, c) == MaySend(h, c) /\ comments[c].status # "resolved"

Recipients(S) == {comments[c].to : c \in S}

Batch(a, S) == {c \in S : comments[c].to = a}

\* A plan that is carried out: every comment passes, and requireOwnership
\* passes for every agent asked.
planRuns(h, S) ==
  /\ S # {}
  /\ \A c \in S : Sendable(h, c) /\ c \notin moved
  /\ \A a \in Recipients(S) : Cardinality(Batch(a, S)) <= MaxPerRun
  /\ \A a \in Recipients(S) : OwnerOf[a] = h

\* A comment that a run is opened over.
openRun(comment) == [comment EXCEPT !.status = "in_progress"]

\* runReiteration of every group, up to its first await. An agent in progress
\* is refused; one in D has lost its authority at the binding, and its run
\* closes on the spot. Bound: where a turn or a stop took the claim from a
\* re-iteration under way, no second one is started beside it.
runReiterations(S, D) ==
  LET started == {a \in Recipients(S) : state[a] # "in_progress"}
      sent    == {c \in S : comments[c].to \in started}
  IN  /\ \A a \in started : ~ Working(a)
      /\ D \subseteq started
      /\ comments' = [c \in DOMAIN comments |->
           IF c \notin sent THEN comments[c]
           ELSE IF comments[c].to \in D
                THEN Closed(openRun(comments[c]), "denied")
                ELSE openRun(comments[c])]
      /\ work' = [a \in Agents |->
           IF a \in started \ D
           THEN [place |-> "materializing", over |-> Batch(a, S)]
           ELSE work[a]]
      /\ state' = [a \in Agents |->
           IF a \notin started THEN state[a]
           ELSE IF a \in D THEN "assigned" ELSE "in_progress"]
      /\ UNCHANGED <<moved, turn, dying, disk>>

\* POST /api/review/reiterations
Reiterate(h, S, D) ==
  /\ Event
  /\ planRuns(h, S)
  /\ runReiterations(S, D)

\* The same route, when a comment it comes to has moved: the comment is held
\* and the whole request refused.
ReiterateStale(h, c) ==
  /\ Event
  /\ Sendable(h, c) /\ c \in moved
  /\ markStale(c)
  /\ UNCHANGED <<moved, state, turn, work, dying, disk>>

\* What auto mode looks at: open comments of agents, for own agents that are
\* idle; a submitted one is not.
Pending(h) ==
  {c \in DOMAIN comments : /\ FromAgent(c) /\ comments[c].status = "open"
                           /\ OwnerOf[comments[c].to] = h
                           /\ state[comments[c].to] = "assigned"}

\* POST /api/review/tasks/:taskId/auto-reiterate, polled while auto mode is on
AutoReiterate(h, D) ==
  /\ planRuns(h, Pending(h))
  /\ runReiterations(Pending(h), D)
  /\ UNCHANGED events

AutoReiterateStale(h) ==
  /\ \E c \in Pending(h) \cap moved :
       /\ \A e \in Pending(h) \cap moved : c <= e
       /\ markStale(c)
  /\ UNCHANGED <<moved, state, turn, work, dying, disk, events>>

-----------------------------------------------------------------------------
(***************************************************************************)
(* runReiteration                                                          *)
(***************************************************************************)

Materialized(a) ==
  /\ Working(a) /\ work[a].place = "materializing"
  /\ work' = [work EXCEPT ![a].place = "running"]
  /\ UNCHANGED <<comments, moved, state, turn, dying, disk, events>>

\* Outside the try: the claim is not given back and the run not closed.
MaterializeFails(a) ==
  /\ Event
  /\ Working(a) /\ work[a].place = "materializing"
  /\ work' = [work EXCEPT ![a] = None]
  /\ UNCHANGED <<comments, moved, state, turn, dying, disk>>

\* The comments agent a raises in its reply, given the authors of the lines
\* they are about, and the rounds they start with.
Raised(a, peers, rounds) ==
  [i \in DOMAIN peers |-> newComment(a, OwnerOf[a], peers[i], rounds)]

\* The markers of a's reply: the comments of the run it calls settled, then
\* what it raises, with the rounds it inherits.
applyAuthored(a, cs, settled, peers, inherited) ==
  [c \in DOMAIN cs |-> IF c \in settled THEN agentResolve(cs[c], a) ELSE cs[c]]
  \o Raised(a, peers, inherited)

\* Whom the reply of a may be about: its own lines are refused.
Peers(a) ==
  UNION {[1 .. n -> Agents \ {a}] : n \in {m \in 0 .. MaxRaised : Len(comments) + m <= MaxComments}}

Outcomes == {"written", "conflict", "no_change", "denied"}

\* The run returned and was reconciled: the claim is given back, the run
\* closed, then the reply is read. It inherits the most rounds of what the
\* run answered.
RunEnds(a, status, settled, peers) ==
  /\ Working(a) /\ work[a].place = "running"
  /\ settled \subseteq work[a].over
  /\ LET closed == closeRun(work[a].over, status)
         spent  == {0} \cup {closed[c].rounds : c \in work[a].over}
     IN  \E most \in spent :
           /\ \A n \in spent : n <= most
           /\ comments' = applyAuthored(a, closed, settled, peers, most)
  /\ work' = [work EXCEPT ![a] = None]
  /\ setState(a, "assigned")
  /\ UNCHANGED <<moved, turn, dying, disk, events>>

\* The run throws: the claim is given back before the last reconcile.
\* Bound: one run of an agent at a time is in this path.
RunThrows(a) ==
  /\ Working(a) /\ work[a].place = "running"
  /\ dying[a] = {}
  /\ dying' = [dying EXCEPT ![a] = work[a].over]
  /\ work' = [work EXCEPT ![a] = None]
  /\ setState(a, "assigned")
  /\ UNCHANGED <<comments, moved, turn, disk, events>>

DyingCloses(a, status) ==
  /\ dying[a] # {}
  /\ comments' = closeRun(dying[a], status)
  /\ dying' = [dying EXCEPT ![a] = {}]
  /\ UNCHANGED <<moved, state, turn, work, disk, events>>

\* An ordinary turn, as far as the loop sees it. The state is tested before
\* the await of materialize and the agent claimed after it. Bound: an agent
\* has one at a time.
TurnStarts(a) ==
  /\ Event
  /\ turn[a] = "none" /\ state[a] # "in_progress"
  /\ turn' = [turn EXCEPT ![a] = "materializing"]
  /\ UNCHANGED <<comments, moved, state, work, dying, disk>>

TurnRuns(a) ==
  /\ turn[a] = "materializing"
  /\ turn' = [turn EXCEPT ![a] = "running"]
  /\ setState(a, "in_progress")
  /\ UNCHANGED <<comments, moved, work, dying, disk, events>>

\* Its reply may raise comments, in answer to none. One that fails raises none.
TurnEnds(a, peers) ==
  /\ turn[a] = "running"
  /\ comments' = applyAuthored(a, comments, {}, peers, 0)
  /\ turn' = [turn EXCEPT ![a] = "none"]
  /\ setState(a, "assigned")
  /\ UNCHANGED <<moved, work, dying, disk, events>>

-----------------------------------------------------------------------------
(***************************************************************************)
(* Humans, the document, the state file                                    *)
(***************************************************************************)

\* POST /api/review/docs/:docId/comments
CreateComment(h, to) ==
  /\ Event
  /\ h \in Reviewers
  /\ Len(comments) < MaxComments
  /\ comments' = Append(comments, newComment(None, h, to, 0))
  /\ UNCHANGED <<moved, state, turn, work, dying, disk>>

\* POST /api/review/comments/:commentId/resolve
Resolve(h, c) ==
  /\ Event
  /\ comments[c].human = h
  /\ comments' = [comments EXCEPT ![c].status = "resolved"]
  /\ UNCHANGED <<moved, state, turn, work, dying, disk>>

\* Nothing of the subtask's state is asked when it is handed in.
Submit(a) ==
  /\ Event
  /\ state[a] # "submitted"
  /\ setState(a, "submitted")
  /\ UNCHANGED <<comments, moved, turn, work, dying, disk>>

\* A stop that finds no process takes back whatever claim it sees. One that
\* finds a process ends it: RunThrows, or TurnEnds with nothing raised.
Stop(a) ==
  /\ Event
  /\ state[a] = "in_progress"
  /\ turn[a] # "running" /\ (Working(a) => work[a].place # "running")
  /\ setState(a, "assigned")
  /\ UNCHANGED <<comments, moved, turn, work, dying, disk>>

\* A commit to the document changes, or restores, the lines of a comment.
Commit(c) ==
  /\ Event
  /\ moved' = IF c \in moved THEN moved \ {c} ELSE moved \cup {c}
  /\ UNCHANGED <<comments, state, turn, work, dying, disk>>

\* persist: its writes are queued, and each has the comments as they are when
\* it is made.
Persist ==
  /\ disk # comments
  /\ disk' = comments
  /\ UNCHANGED <<comments, moved, state, turn, work, dying, events>>

\* The process dies, or a write of persist fails, which nothing catches; then
\* initialize reads the file. Subtasks and runs are in memory.
Restart ==
  /\ Event
  /\ comments' = disk
  /\ moved' = moved \cap DOMAIN disk
  /\ work' = [a \in Agents |-> None]
  /\ dying' = [a \in Agents |-> {}]
  /\ state' = [a \in Agents |-> "assigned"]
  /\ turn' = [a \in Agents |-> "none"]
  /\ UNCHANGED disk

-----------------------------------------------------------------------------

HumanStep ==
  \E h \in Humans :
    \/ \E a \in Agents : CreateComment(h, a)
    \/ \E c \in DOMAIN comments : Resolve(h, c) \/ ReiterateStale(h, c)
    \/ \E S \in SUBSET DOMAIN comments, D \in SUBSET Agents : Reiterate(h, S, D)

AutoMode(h) == AutoReiterateStale(h) \/ \E D \in SUBSET Agents : AutoReiterate(h, D)

RunStep(a) ==
  \/ Materialized(a) \/ TurnRuns(a)
  \/ RunThrows(a)
  \/ \E status \in {"written", "failed"} : DyingCloses(a, status)
  \/ \E peers \in Peers(a) : TurnEnds(a, peers)
  \/ /\ Working(a)
     /\ \E status \in Outcomes, settled \in SUBSET work[a].over, peers \in Peers(a) :
          RunEnds(a, status, settled, peers)

Next ==
  \/ HumanStep
  \/ \E h \in Humans : AutoMode(h)
  \/ \E a \in Agents :
       RunStep(a) \/ TurnStarts(a) \/ MaterializeFails(a) \/ Submit(a) \/ Stop(a)
  \/ \E c \in DOMAIN comments : Commit(c)
  \/ Persist
  \/ Restart

Spec == Init /\ [][Next]_vars

\* Runs and turns end, and the browsers of the owners poll auto mode.
FairSpec ==
  /\ Spec
  /\ \A a \in Agents : WF_vars(RunStep(a))
  /\ \A h \in Humans : WF_vars(AutoMode(h))

-----------------------------------------------------------------------------
(***************************************************************************)
(* Properties                                                              *)
(***************************************************************************)

\* Feedback an agent raised never comes to rest in a status that the panel
\* hides or that reads like a fault: it is under way, addressed, settled, or
\* waiting for a human (service.ts, markStale and escalate).
AgentFeedbackStaysVisible ==
  \A c \in DOMAIN comments :
    FromAgent(c) => comments[c].status \notin {"stale", "conflict", "failed"}

\* A human's comment is sent only by its author, and only to an agent of the
\* author's: its status never moves as long as the lines are another human's
\* agent's, except to stale or resolved (service.ts, planRuns; routes.ts,
\* requireOwnership).
HumanFeedbackIsTheirs ==
  \A c \in DOMAIN comments :
    ~ FromAgent(c) /\ OwnerOf[comments[c].to] # comments[c].human =>
      comments[c].status \in {"open", "stale", "resolved"}

\* Every comment that becomes resolved is resolved by the human answerable
\* for it (or restored as such), an agent's comment included: two agents never
\* settle one, since only the agent it is for is ever shown it to answer. That
\* is not what service.ts:360-374 and :572-575 describe, see AgentThreadsEnd.
OnlyHumansSettle ==
  [][\A c \in DOMAIN comments \cap DOMAIN comments' :
       comments[c].status # "resolved" /\ comments'[c].status = "resolved"
       => Resolve(comments[c].human, c) \/ Restart]_vars

\* A settled comment is not brought up again, but by a run that it was sent
\* in before and that closes after (service.ts, planRuns and closeRun), or by
\* a crash before the file had it.
ReopenedOnlyByItsRun ==
  [][\A c \in DOMAIN comments \cap DOMAIN comments' :
       comments[c].status = "resolved" /\ comments'[c].status # "resolved"
       => \/ Working(comments[c].to) /\ c \in work[comments[c].to].over
          \/ c \in dying[comments[c].to]
          \/ Restart]_vars

\* Comments are settled by the human, and stay so: what the code does of what
\* service.ts:572-575 says, whose exception for two agents is not reached.
SettlingIsHuman == OnlyHumansSettle /\ ReopenedOnlyByItsRun

\* A comment in progress that no run is about to close: the run died in
\* materialize, or with the process.
Stranded(c) ==
  /\ comments[c].status = "in_progress"
  /\ c \notin dying[comments[c].to]
  /\ Working(comments[c].to) => c \notin work[comments[c].to].over


\* Stated by service.ts:549-552 and :602-605, that every bad end of a round
\* goes to a human rather than sit at a status that reads like progress: what
\* is in progress has a run that will close it. Not after a materialize that
\* throws (reiteration.ts:166), nor after a restart (service.ts:101-134).
ProgressIsReal ==
  \A c \in DOMAIN comments : FromAgent(c) => ~ Stranded(c)

\* Stated by service.ts:360-374, :559-561, :572-575 and types.ts:58: the two
\* agents of a comment settle it by agreeing, or their disagreement goes to a
\* human. Its author is never asked, and addressed is where it stays.
AgentThreadsEnd ==
  \A c \in Ids :
    <>[](c \in DOMAIN comments /\ FromAgent(c) => comments[c].status # "addressed")

\* Stated by types.ts:53-56: a comment that has burned its rounds is blocked,
\* and a reply does not start the count over; auto mode sends what is open.
NoRoundPastTheCap ==
  \A c \in DOMAIN comments :
    FromAgent(c) /\ comments[c].status = "open" => comments[c].rounds < MaxRounds
=============================================================================
