-------------------------------- MODULE Feed --------------------------------
(***************************************************************************)
(* The activity feed: live/activity.ts, the board and the stream of        *)
(* live/routes.ts, and the page that shows them (Console.tsx, api.ts). The *)
(* bus keeps the last events; an open stream repeats a few of them and     *)
(* then carries what is published, and the page also asks for the board    *)
(* again and again. Either may fail, and answers arrive late.              *)
(*                                                                         *)
(* An event is the number it was published with, its agent and its kind.   *)
(***************************************************************************)
EXTENDS Integers, Sequences, FiniteSets, SequencesExt, TLC

CONSTANTS
  Agents, Humans, Nobody,
  Orchestrator,  \* the human who watches every agent
  Owner,         \* the human each agent acts for
  Lines,         \* what an agent's runner may print
  RING,          \* events the bus keeps
  Replayed,      \* events a new stream repeats
  BoardRows,     \* events the board shows
  Rows,          \* rows the page keeps
  MaxPublished,     \* bound on what is published
  MaxTroubles,   \* bound on streams dropped and answers lost
  MaxSignIns,    \* bound on sign-ins
  MaxAnswers     \* bound on answers of the board under way

ASSUME FeedAssumption ==
  /\ Orchestrator \in Humans /\ Nobody \notin Humans
  /\ Owner \in [Agents -> Humans]
  /\ \A n \in {RING, Replayed, BoardRows, Rows} : n \in Nat \ {0}
  /\ \A n \in {MaxPublished, MaxTroubles, MaxSignIns, MaxAnswers} : n \in Nat

VARIABLES
  planned,   \* agents of listed tasks
  running,   \* agents with a run under watch
  recent,    \* ActivityBus.recent, oldest first
  next,      \* the number of the next event
  usage,     \* turns each agent's row of ActivityBus.usage counts
  ends,      \* turns of each agent that did end
  me,        \* who is signed in
  stream,    \* the connection: whether it is open, what is under way on it, and
             \* how many were made since the sign-in
  boards,    \* answers of the board under way to the page, and who asked
  live,      \* rows of the page, newest first
  troubles, signIns

feedVars ==
  << planned, running, recent, next, usage, ends, me, stream, boards, live, troubles, signIns >>

serverVars == << planned, running, recent, next, usage, ends >>

-----------------------------------------------------------------------------
(* The bus. *)

LastOf(n, s)  == SubSeq(s, Len(s) - n + 1, Len(s))
FirstOf(n, s) == SubSeq(s, 1, n)
Least(m, n)   == IF m <= n THEN m ELSE n

Kinds == {"prompt", "turn-started", "turn-completed", "message", "thinking", "command",
          "file-change", "blocked"}

FeedEvent == [id : Nat, agentId : Agents, kind : Kinds]

\* Every agent for the orchestrator, one's own in the listed tasks otherwise.
scopeOf(human) == {a \in Agents : human = Orchestrator \/ (a \in planned /\ Owner[a] = human)}

\* What a sequence holds at these places, in its order.
Picked(events, places) ==
  LET before(i) == Cardinality({j \in places : j < i})
  IN  [k \in 1 .. Cardinality(places) |-> events[CHOOSE i \in places : before(i) = k - 1]]

EventsOf(agents, events) == Picked(events, {i \in DOMAIN events : events[i].agentId \in agents})

\* The last events of somebody's agents.
history(limit, human) ==
  LET visible == EventsOf(scopeOf(human), recent)
  IN  LastOf(Least(limit, Len(visible)), visible)

\* What a line of the runner says, if a human would want to watch it.
parseActivity(line) ==
  CASE line = "turn.started"                         -> "turn-started"
    [] line = "turn.completed"                       -> "turn-completed"
    [] line = "agent_message completed"              -> "message"
    [] line \in {"reasoning started", "reasoning completed"}     -> "thinking"
    [] line \in {"command started", "command completed"}         -> "command"
    [] line \in {"file_change started", "file_change completed"} -> "file-change"
    [] OTHER                                         -> "nothing"

\* Keep it, count it when it ends a turn, and pass it to the open stream.
Publish(a, kind) ==
  LET event == [id |-> next, agentId |-> a, kind |-> kind]
      kept  == Append(recent, event)
  IN  /\ next < MaxPublished
      /\ next' = next + 1
      /\ recent' = LastOf(Least(RING, Len(kept)), kept)
      /\ usage' = IF kind = "turn-completed" THEN [usage EXCEPT ![a] = @ + 1] ELSE usage
      /\ stream' = IF stream.open /\ a \in scopeOf(me)
                   THEN [stream EXCEPT !.wire = Append(@, event)] ELSE stream

Quiet == UNCHANGED << me, boards, live, troubles, signIns >>

NoStream == [open |-> FALSE, wire |-> <<>>, made |-> 0]

FeedInit ==
  /\ planned = {} /\ running = {}
  /\ recent = <<>> /\ next = 0
  /\ usage = [a \in Agents |-> 0] /\ ends = [a \in Agents |-> 0]
  /\ me = Nobody
  /\ stream = NoStream
  /\ boards = {} /\ live = <<>>
  /\ troubles = 0 /\ signIns = 0

\* A task with the agent is planned: it comes into its owner's scope.
Plan(a) ==
  /\ a \notin planned
  /\ planned' = planned \cup {a}
  /\ UNCHANGED << running, recent, next, usage, ends, stream >> /\ Quiet

\* watch: a run begins with its prompt.
Watch(a) ==
  /\ a \in planned \ running
  /\ running' = running \cup {a}
  /\ Publish(a, "prompt")
  /\ UNCHANGED << planned, ends >> /\ Quiet

\* inspect: the end of a turn is left to finish, which knows what it cost.
Inspect(a) ==
  /\ a \in running
  /\ \E line \in Lines :
       /\ parseActivity(line) \notin {"nothing", "turn-completed"}
       /\ Publish(a, parseActivity(line))
  /\ UNCHANGED << planned, running, ends >> /\ Quiet

Finish(a) ==
  /\ a \in running
  /\ running' = running \ {a}
  /\ ends' = [ends EXCEPT ![a] = @ + 1]
  /\ Publish(a, "turn-completed")
  /\ UNCHANGED planned /\ Quiet

Fail(a) ==
  /\ a \in running
  /\ running' = running \ {a}
  /\ Publish(a, "blocked")
  /\ UNCHANGED << planned, ends >> /\ Quiet

-----------------------------------------------------------------------------
(* The page. *)

\* Mutant: the rows stay.
SignInKeepsRows(h) ==
  /\ h # me /\ signIns < MaxSignIns
  /\ me' = h /\ signIns' = signIns + 1
  /\ stream' = NoStream
  /\ UNCHANGED << serverVars, boards, live, troubles >>

\* signIn clears the feed and closes the stream, not the requests under way.
SignIn(h) ==
  /\ h # me /\ signIns < MaxSignIns
  /\ me' = h /\ signIns' = signIns + 1
  /\ live' = <<>>
  /\ stream' = NoStream
  /\ UNCHANGED << serverVars, boards, troubles >>

\* The stream opens, at sign-in or by itself after it broke.
Connect ==
  /\ me # Nobody /\ ~stream.open
  /\ stream' = [open |-> TRUE, wire |-> history(Replayed, me), made |-> stream.made + 1]
  /\ UNCHANGED << serverVars, me, boards, live, troubles, signIns >>

Drop ==
  /\ stream.open /\ troubles < MaxTroubles
  /\ troubles' = troubles + 1
  /\ stream' = [stream EXCEPT !.open = FALSE, !.wire = <<>>]
  /\ UNCHANGED << serverVars, me, boards, live, signIns >>

Receive ==
  /\ stream.wire # <<>>
  /\ live' = FirstOf(Least(Rows, Len(live) + 1), << Head(stream.wire) >> \o live)
  /\ stream' = [stream EXCEPT !.wire = Tail(@)]
  /\ UNCHANGED << serverVars, me, boards, troubles, signIns >>

\* refresh asks for the board at each tick, whatever is under way; this is the
\* moment the server answers.
PollFeed ==
  /\ me # Nobody /\ Cardinality(boards) < MaxAnswers
  /\ boards' = boards \cup {[by |-> me, rows |-> history(BoardRows, me)]}
  /\ UNCHANGED << serverVars, me, stream, live, troubles, signIns >>

\* Mutant: the answer fills a feed that is empty.
MergedWhenEmpty(rows, answer) == IF rows = <<>> THEN Reverse(answer) ELSE rows

Missed(rows, answer) == Picked(answer, {i \in DOMAIN answer : answer[i] \notin ToSet(rows)})

\* The newest first; of the same age, the one that came first.
Above(rows, j, i) == rows[j].id > rows[i].id \/ (rows[j].id = rows[i].id /\ j < i)

Sorted(rows) ==
  LET above(i) == Cardinality({j \in DOMAIN rows : Above(rows, j, i)})
  IN  [k \in DOMAIN rows |-> rows[CHOOSE i \in DOMAIN rows : above(i) = k - 1]]

\* What the page lacks is put where it belongs.
Merged(rows, answer) ==
  LET all == Sorted(Missed(rows, answer) \o rows)
  IN  IF ToSet(answer) \subseteq ToSet(rows) THEN rows ELSE FirstOf(Least(Rows, Len(all)), all)

Show ==
  \E answer \in boards :
    /\ boards' = boards \ {answer}
    /\ live' = Merged(live, answer.rows)
    /\ UNCHANGED << serverVars, me, stream, troubles, signIns >>

Lose ==
  /\ troubles < MaxTroubles
  /\ \E answer \in boards : boards' = boards \ {answer}
  /\ troubles' = troubles + 1
  /\ UNCHANGED << serverVars, me, stream, live, signIns >>

FeedNext ==
  \/ \E a \in Agents : Plan(a) \/ Watch(a) \/ Inspect(a) \/ Finish(a) \/ Fail(a)
  \/ \E h \in Humans : SignIn(h)
  \/ Connect \/ Drop \/ Receive \/ PollFeed \/ Show \/ Lose

FeedSpec == FeedInit /\ [][FeedNext]_feedVars

-----------------------------------------------------------------------------
FeedTypeOK ==
  /\ planned \subseteq Agents /\ running \subseteq planned
  /\ recent \in Seq(FeedEvent) /\ Len(recent) <= RING
  /\ usage \in [Agents -> Nat] /\ ends \in [Agents -> Nat]
  /\ me \in Humans \cup {Nobody}
  /\ stream.open \in BOOLEAN /\ stream.wire \in Seq(FeedEvent) /\ stream.made \in Nat
  /\ \A answer \in boards : answer.by \in Humans /\ answer.rows \in Seq(FeedEvent)
  /\ live \in Seq(FeedEvent) /\ Len(live) <= Rows

(***************************************************************************)
(* Each turn is counted once, whatever its runner printed ("Publishing     *)
(* both would double-count every turn"): the count decides whether the     *)
(* auto mode starts an agent, and is its bill (settle, watch).             *)
(***************************************************************************)
TurnsAreCountedOnce == usage = ends

Foreign(rows) == {e \in ToSet(rows) : e.agentId \notin scopeOf(me)}

\* A step in which a row of others comes from nowhere but such a late answer.
FromLateAnswers ==
  LET late == {answer \in boards \ boards' : answer.by # me}
  IN  Foreign(live)' \subseteq
        IF signIns' # signIns THEN {}
        ELSE Foreign(live) \cup UNION {ToSet(answer.rows) : answer \in late}

(***************************************************************************)
(* Where the rows of others come from: a sign-in leaves none on the page   *)
(* (signIn), no stream brings any, not even what was under way (scopeOf,   *)
(* permitted), and neither does the board - but for its answers to whoever *)
(* was signed in before, which refresh shows to whoever is now.            *)
(***************************************************************************)
RowsOfOthersComeLate == [][FromLateAnswers]_feedVars

\* How many of the board's rows the page has room for: all, while what each
\* connection repeats fits behind them; otherwise the newest, each as often as
\* connections and the board may have brought it. Rows of others take places.
RoomFor ==
  LET room == Rows - Cardinality({i \in DOMAIN live : live[i] \in Foreign(live)})
  IN  IF BoardRows + stream.made * Replayed <= room THEN BoardRows
      ELSE Least(BoardRows, room \div (stream.made + 1))

(***************************************************************************)
(* The feed catches up: once the agents rest, the page has the newest rows *)
(* of the board that it has room for, whether or not a stream can be held  *)
(* and in whatever order answers come ("Merge rather than replace, so a    *)
(* dropped connection heals", refresh). Those are all of them for four     *)
(* connections of 30 rows, with 60 on the board and 200 on the page; then  *)
(* it loses the oldest, see FeedIsWhole.                                   *)
(***************************************************************************)
FeedIsRight == me # Nobody => ToSet(history(RoomFor, me)) \subseteq ToSet(live)

\* The page has the rows the board has, "just two seconds behind. Nothing
\* depends on this connection being up" (Console.tsx:302-304). Not after some
\* connections: each puts the same rows on top again, and the cut behind the
\* merge takes the oldest as often as they are merged (Console.tsx:312, :391).
FeedIsWhole == me # Nobody => ToSet(history(BoardRows, me)) \subseteq ToSet(live)

\* The page shows the rows of nobody's agents but one's own (scopeOf, signIn).
\* It shows those of an answer that was on its way when somebody signed in.
RowsAreOwn == \A e \in ToSet(live) : me # Nobody /\ e.agentId \in scopeOf(me)

\* The page shows an event once. It does not: a stream repeats what the board
\* or an earlier connection brought, and Console.tsx puts it on top again.
RowsAreOnce == \A i, k \in DOMAIN live : live[i] = live[k] => i = k

=============================================================================
