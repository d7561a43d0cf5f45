-------------------------------- MODULE Board --------------------------------
(***************************************************************************)
(* The board of a task and its auto mode: the page (Console.tsx) shows the *)
(* board that live/routes.ts answers, and while auto is on it starts what  *)
(* is idle on the board it has: peer feedback first                        *)
(* (review/routes.ts), fresh work otherwise (warrant/routes.ts). The board *)
(* is as old as its answer, and people press buttons meanwhile.            *)
(*                                                                         *)
(* One person is at the page. A turn that is started has claimed its agent *)
(* at once (Turns.tla has what happens in between); a comment is counted   *)
(* by the times it may still be sent (Review.tla), a turn as one or none.  *)
(***************************************************************************)
EXTENDS Naturals, FiniteSets

CONSTANTS
  Workers,      \* the agents of the task
  Mine,         \* those of the person at the page
  Failing,      \* those whose runs may fail again and again
  NoBoard,      \* no board has arrived yet
  MaxPresses,   \* bound on buttons pressed
  MaxComments,  \* bound on comments raised
  MaxFails,     \* bound on runs of the others that fail
  MaxBoards,    \* bound on answers of the board under way
  MaxAsks       \* bound on requests of the auto mode under way

ASSUME BoardAssumption ==
  /\ Mine \subseteq Workers /\ Failing \subseteq Workers
  /\ \A n \in {MaxPresses, MaxComments, MaxFails, MaxBoards, MaxAsks} : n \in Nat

VARIABLES
  work,      \* Subtask.state
  doing,     \* what each agent's runner is at, whatever its subtask says
  turns,     \* ActivityBus.usage: whether a turn was counted
  feedback,  \* how often open comments of other agents may still be sent
  board,     \* the page: the board
  wire,      \* answers of GET /api/live/board under way
  auto,      \* the page: auto mode
  busy,      \* the page: an action is under way, as far as it remembers
  acts,      \* actions under way
  asks,      \* requests to auto-reiterate under way
  starts,    \* requests to autorun that follow them
  presses, comments, fails

agents  == << work, doing, turns, feedback >>
console == << board, wire, auto, busy, acts >>
boardBounds == << presses, comments, fails >>
boardVars == << agents, console, asks, starts, boardBounds >>

States   == {"assigned", "in_progress", "submitted", "approved"}
Purposes == {"turn", "reiteration", "consultation"}
Acts     == [kind : {"run", "stop", "approve", "autorun"}, of : SUBSET Workers,
             at : {"asked", "held", "submitted", "answered"}]

Snapshot == [work |-> work, turns |-> turns]

BoardInit ==
  /\ work = [a \in Workers |-> "assigned"] /\ doing = [a \in Workers |-> "none"]
  /\ turns = [a \in Workers |-> 0] /\ feedback = [a \in Workers |-> 0]
  /\ board = NoBoard /\ wire = {} /\ auto = FALSE /\ busy = FALSE /\ acts = {}
  /\ asks = 0 /\ starts = 0 /\ presses = 0 /\ comments = 0 /\ fails = 0

-----------------------------------------------------------------------------
(* The server. *)

\* The agents begin. One whose run goes on under another state is refused by
\* the runner, which leaves it assigned.
Begin(S, purpose) ==
  /\ work' = [a \in Workers |->
       IF a \notin S THEN work[a] ELSE IF doing[a] = "none" THEN "in_progress" ELSE "assigned"]
  /\ doing' = [a \in Workers |-> IF a \in S /\ doing[a] = "none" THEN purpose ELSE doing[a]]
  /\ UNCHANGED << turns, feedback >>

Assigned == {a \in Mine : work[a] = "assigned"}

\* A run is over: what waited for it is answered.
Over(a) ==
  /\ doing' = [doing EXCEPT ![a] = "none"]
  /\ work' = [work EXCEPT ![a] = "assigned"]

Released(a) == {IF act.at = "held" /\ act.of = {a} THEN [act EXCEPT !.at = "answered"] ELSE act
                 : act \in acts}

\* watch.finish counts a run of any purpose; a turn or a re-iteration may end
\* with a comment on the work of another agent.
Finishes(a) ==
  /\ doing[a] # "none"
  /\ Over(a)
  /\ turns' = [turns EXCEPT ![a] = 1]
  /\ \E left \in IF doing[a] = "reiteration" THEN 0 .. feedback[a] - 1 ELSE {feedback[a]} :
     \E raised \in SUBSET (Workers \ {a}) :
       /\ Cardinality(raised) <= IF doing[a] = "consultation" \/ comments = MaxComments
                                 THEN 0 ELSE 1
       /\ feedback' = [b \in Workers |-> IF b = a THEN left
                                         ELSE IF b \in raised THEN feedback[b] + 1 ELSE feedback[b]]
       /\ comments' = comments + Cardinality(raised)
  /\ acts' = Released(a)
  /\ UNCHANGED << board, wire, auto, busy, asks, starts, presses, fails >>

\* watch.fail counts nothing.
Fails(a) ==
  /\ doing[a] # "none"
  /\ \/ a \in Failing /\ UNCHANGED fails
     \/ a \notin Failing /\ fails < MaxFails /\ fails' = fails + 1
  /\ Over(a)
  /\ feedback' = [feedback EXCEPT ![a] = IF doing[a] = "reiteration" THEN @ - 1 ELSE @]
  /\ acts' = Released(a)
  /\ UNCHANGED << turns, board, wire, auto, busy, asks, starts, presses, comments >>

\* Somebody asks an agent that is not at work a question.
Consult(a) ==
  /\ presses < MaxPresses /\ presses' = presses + 1
  /\ work[a] # "in_progress"
  /\ Begin({a}, "consultation")
  /\ UNCHANGED << console, asks, starts, comments, fails >>

-----------------------------------------------------------------------------
(* The auto mode. *)

Running(b) == {a \in Workers : b.work[a] = "in_progress"}

\* idle: nothing done yet.
Idle(b) == {a \in Mine : b.work[a] = "assigned" /\ b.turns[a] = 0}


\* The effect, after every render with another auto, board or busy.
Effect ==
  LET due == auto' /\ ~busy' /\ board' # NoBoard /\ Running(board') = {} /\ Idle(board') # {}
  IN  asks' = IF due THEN asks + 1 ELSE asks

\* auto-reiterate: the open feedback of the caller's idle agents is sent, and
\* that is all the page starts; otherwise it goes on to autorun.
AutoReiterate ==
  LET due == {a \in Assigned : feedback[a] > 0}
  IN  /\ asks > 0 /\ asks' = asks - 1
      /\ IF due = {} THEN starts' = starts + 1 /\ UNCHANGED agents
                     ELSE Begin(due, "reiteration") /\ UNCHANGED starts
      /\ UNCHANGED << console, boardBounds >>

AutoRun ==
  /\ starts > 0 /\ starts' = starts - 1
  /\ Begin(Assigned, "turn")
  /\ UNCHANGED << console, asks, boardBounds >>

-----------------------------------------------------------------------------
(* The page. *)

\* refresh asks for the board; this is the moment the server answers.
AskBoard ==
  /\ Cardinality(wire) < MaxBoards /\ asks + starts < MaxAsks
  /\ wire' = wire \cup {Snapshot}
  /\ UNCHANGED << agents, board, auto, busy, acts, asks, starts, boardBounds >>

ShowBoard ==
  \E answer \in wire :
    /\ board' = answer /\ wire' = wire \ {answer}
    /\ UNCHANGED << auto, busy >> /\ Effect
    /\ UNCHANGED << agents, acts, starts, boardBounds >>

ToggleAuto ==
  /\ presses < MaxPresses /\ presses' = presses + 1
  /\ auto' = ~auto
  /\ UNCHANGED << board, busy >> /\ Effect
  /\ UNCHANGED << agents, wire, acts, starts, comments, fails >>

\* The buttons of the cards and the bar, which an action under way disables,
\* and the command "Run All Idle Agents", which nothing disables.
Offered(kind, a) ==
  CASE kind = "run"     -> ~busy /\ board.work[a] # "in_progress"
    [] kind = "stop"    -> ~busy /\ board.work[a] = "in_progress"
    [] kind = "approve" -> ~busy /\ board.work[a] \notin {"in_progress", "approved"}

Press(act) ==
  /\ presses < MaxPresses /\ presses' = presses + 1
  /\ acts' = acts \cup {act}
  /\ busy' = TRUE
  /\ UNCHANGED << agents, board, wire, auto, asks, starts, comments, fails >>

PressOn(kind, a) ==
  /\ board # NoBoard /\ Offered(kind, a)
  /\ Press([kind |-> kind, of |-> {a}, at |-> "asked"])

PressAutorun ==
  /\ board # NoBoard
  /\ Press([kind |-> "autorun", of |-> {}, at |-> "asked"])

Moved(act, at) == acts' = (acts \ {act}) \cup {[act EXCEPT !.at = at]}

\* The answer to a run comes when the run is over; approving is to submit,
\* then to approve.
ServeAct(act) ==
  /\ act.at \in {"asked", "submitted"}
  /\ \/ /\ act.kind = "autorun"
        /\ Begin(Assigned, "turn") /\ Moved(act, "answered")
     \/ \E a \in act.of : act.kind = "run" /\
          IF work[a] = "in_progress" THEN Moved(act, "answered") /\ UNCHANGED agents
          ELSE /\ Begin({a}, "turn")
               /\ Moved(act, IF doing[a] = "none" THEN "held" ELSE "answered")
     \/ \E a \in act.of : act.kind = "stop" /\
          /\ IF doing[a] # "none" \/ work[a] = "in_progress" THEN Over(a)
             ELSE UNCHANGED << work, doing >>
          /\ acts' = (Released(a) \ {act}) \cup {[act EXCEPT !.at = "answered"]}
          /\ UNCHANGED << turns, feedback >>
     \/ \E a \in act.of : act.kind = "approve" /\
          IF act.at = "asked"
          THEN /\ work' = [work EXCEPT ![a] = "submitted"] /\ Moved(act, "submitted")
               /\ UNCHANGED << doing, turns, feedback >>
          ELSE /\ work' = [work EXCEPT ![a] = IF @ = "submitted" THEN "approved" ELSE @]
               /\ Moved(act, "answered")
               /\ UNCHANGED << doing, turns, feedback >>
  /\ UNCHANGED << board, wire, auto, busy, asks, starts, boardBounds >>

\* guardAction ends: nothing is busy any more, whatever else is under way.
Done(act) ==
  /\ act.at = "answered"
  /\ acts' = acts \ {act}
  /\ busy' = FALSE
  /\ UNCHANGED << board, auto >> /\ Effect
  /\ UNCHANGED << agents, wire, starts, boardBounds >>

Answers == AutoReiterate \/ AutoRun \/ \E act \in acts : ServeAct(act) \/ Done(act)

BoardNext ==
  \/ \E a \in Workers : Finishes(a) \/ Fails(a) \/ Consult(a)
  \/ Answers \/ AskBoard \/ ShowBoard \/ ToggleAuto \/ PressAutorun
  \/ \E a \in Mine : PressOn("run", a) \/ PressOn("stop", a) \/ PressOn("approve", a)

BoardSpec == BoardInit /\ [][BoardNext]_boardVars

-----------------------------------------------------------------------------
BoardTypeOK ==
  /\ work \in [Workers -> States] /\ doing \in [Workers -> Purposes \cup {"none"}]
  /\ turns \in [Workers -> {0, 1}] /\ feedback \in [Workers -> 0 .. MaxComments]
  /\ acts \subseteq Acts /\ auto \in BOOLEAN /\ busy \in BOOLEAN
  /\ asks \in Nat /\ starts \in Nat

\* No agent is at work.
AtRest == \A a \in Workers : doing[a] = "none" /\ work[a] # "in_progress"

\* While auto is on, every agent of mine that rests had a run that ended.
IdleHadTheirTurn == auto => \A a \in Mine : work[a] = "assigned" => turns[a] = 1

\* While auto is on, no agent of mine that rests has feedback that was never
\* sent ("Peer feedback before fresh work", Console.tsx:348). One may: feedback
\* is sent only while some agent never had a turn, and turns raise it.
FeedbackIsSent == auto => \A a \in Mine : work[a] = "assigned" => feedback[a] = 0

\* A run on the board of mine can be stopped. Not one that its button
\* started: the button is busy until the run is over, and with it the others.
StopIsOffered ==
  board # NoBoard => \A a \in Mine : board.work[a] = "in_progress" => Offered("stop", a)

\* Auto mode lets an agent alone that had its turn. It does not: autorun takes
\* every agent that is assigned, when one of them had none.
OneTurnPerAgent ==
  [][\A a \in Workers : AutoRun /\ turns[a] = 1 => doing'[a] = doing[a]]_boardVars

=============================================================================
