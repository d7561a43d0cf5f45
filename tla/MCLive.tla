------------------------------- MODULE MCLive -------------------------------
(***************************************************************************)
(* Four parts of the page that stays up while agents work, each a view of  *)
(* its own: the activity feed, the live screens, the auto mode and the     *)
(* chat. They share no state on the page; a behaviour is about one.        *)
(***************************************************************************)
EXTENDS Feed, Panes, Chat, Board

CONSTANTS a1, a2, a3, h1, h2, w1, w2, w3

VARIABLE onscreen

MCOwner     == (a1 :> h1) @@ (a2 :> h2)
MCWatchedBy == (w1 :> a1) @@ (w2 :> a1) @@ (w3 :> a2)

On(view, action, others) == onscreen = view /\ action /\ UNCHANGED << onscreen, others >>

OnFeed(action)  == On("feed", action, << panesVars, chatVars, boardVars >>)
OnPanes(action) == On("screens", action, << feedVars, chatVars, boardVars >>)
OnChat(action)  == On("chat", action, << feedVars, panesVars, boardVars >>)
OnBoard(action) == On("board", action, << feedVars, panesVars, chatVars >>)

liveVars == << onscreen, feedVars, panesVars, chatVars, boardVars >>

LiveInit ==
  /\ onscreen \in {"feed", "screens", "chat", "board"}
  /\ FeedInit /\ PanesInit /\ ChatInit /\ BoardInit
  /\ onscreen # "chat" => \A a \in Chats : state[a] = "ready"

LiveNext == OnFeed(FeedNext) \/ OnPanes(PanesNext) \/ OnChat(ChatNext) \/ OnBoard(BoardNext)

\* Timers tick, a page that lost its stream opens another, a read of a file
\* ends, requests are answered or fail, and runs end.
LiveFairness ==
  /\ WF_liveVars(OnFeed(PollFeed)) /\ WF_liveVars(OnFeed(Show))
  /\ WF_liveVars(OnPanes(AskFrames)) /\ WF_liveVars(OnPanes(ShowFrames))
  /\ WF_liveVars(OnPanes(OpenFrames)) /\ WF_liveVars(OnPanes(ReceiveFrame))
  /\ \A w \in Watchers : /\ WF_liveVars(OnPanes(StatFile(w)))
                         /\ WF_liveVars(OnPanes(ReadFile(w)))
                         /\ WF_liveVars(OnPanes(PublishWorkspace(w)))
  /\ WF_liveVars(OnChat(System)) /\ \A a \in Chats : WF_liveVars(OnChat(RunEnds(a)))
  /\ WF_liveVars(OnBoard(Answers))
  /\ WF_liveVars(OnBoard(AskBoard)) /\ WF_liveVars(OnBoard(ShowBoard))
  /\ \A a \in Workers : WF_liveVars(OnBoard(Finishes(a) \/ Fails(a)))

LiveSpec == LiveInit /\ [][LiveNext]_liveVars

FairLive == LiveSpec /\ LiveFairness

(***************************************************************************)
(* The page comes to show what is, on the feed, the screens and the chat,  *)
(* after streams that broke, answers that came late and requests that      *)
(* failed (refresh of Console.tsx, pollRun of useAgents.ts).               *)
(***************************************************************************)
PageCatchesUp == <>[](FeedIsRight /\ PanesAreRight /\ ChatIsRight)


\* Refuted: see FeedIsWhole, PanesShowTheFile and FeedbackIsSent.
FeedHeals == <>[]FeedIsWhole

PanesHeal == <>[]PanesShowTheFile

AutoSendsFeedback == <>[]FeedbackIsSent

=============================================================================
