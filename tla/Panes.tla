------------------------------- MODULE Panes -------------------------------
(***************************************************************************)
(* The live screens: live/workspace.ts watches an agent's copy of the file *)
(* during each turn, live/activity.ts keeps the latest frame of every      *)
(* agent, live/routes.ts streams them, and Console.tsx shows them. Reading *)
(* the file takes an await, the stream may break, and the page also asks   *)
(* for the frames, as a fallback.                                          *)
(*                                                                         *)
(* Every text written to a file has the next number; 0 is no text. The     *)
(* time of a file changes whenever its text does.                          *)
(***************************************************************************)
EXTENDS Integers, Sequences, SequencesExt, FiniteSets, TLC

CONSTANTS
  Panes,        \* the agents with a copy of the document
  Watchers,     \* the turns, each with a watcher of its own
  WatchedBy,    \* the agent of each
  MaxWrites,    \* bound on the texts written
  MaxBreaks,    \* bound on streams that break and files deleted
  MaxFetches    \* bound on answers of the frames under way

ASSUME PanesAssumption ==
  /\ WatchedBy \in [Watchers -> Panes]
  /\ \A n \in {MaxWrites, MaxBreaks, MaxFetches} : n \in Nat

VARIABLES
  file,      \* the text of each agent's copy
  written,   \* how many texts there were
  watcher,   \* per turn: whether it is on, its tick, lastMtime, what the tick
             \* read, previous; and (history) whether an earlier turn's tick
             \* published after its own
  frames,    \* ActivityBus.frames: the latest of each agent
  channel,   \* the frame stream: whether it is open, and what is under way
  answers,   \* answers of GET /api/live/workspaces under way
  panes,     \* what the page shows of each agent
  breaks

panesVars == << file, written, watcher, frames, channel, answers, panes, breaks >>

NoFrames == [a \in Panes |-> 0]

\* A watcher before it begins; and one that is off and has no tick at work,
\* whatever it remembers.
Blank(state) == [state |-> state, tick |-> "none", lastMtime |-> 0, text |-> 0, previous |-> 0,
                 overtaken |-> FALSE]

PanesInit ==
  /\ file = NoFrames /\ written = 0
  /\ watcher = [w \in Watchers |-> Blank("new")]
  /\ frames = NoFrames /\ panes = NoFrames
  /\ channel = [open |-> FALSE, wire |-> <<>>]
  /\ answers = {} /\ breaks = 0

-----------------------------------------------------------------------------
(* The server. *)

panesPage == << channel, answers, panes, breaks >>

WriteFile(a) ==
  /\ written < MaxWrites
  /\ written' = written + 1
  /\ file' = [file EXCEPT ![a] = written + 1]
  /\ UNCHANGED << watcher, frames, panesPage >>

DeleteFile(a) ==
  /\ file[a] # 0 /\ breaks < MaxBreaks
  /\ breaks' = breaks + 1
  /\ file' = [file EXCEPT ![a] = 0]
  /\ UNCHANGED << written, watcher, frames, channel, answers, panes >>

\* A turn of an agent begins when its last one is over, and its watcher off.
WatchFile(w) ==
  /\ watcher[w].state = "new"
  /\ \A v \in Watchers : WatchedBy[v] = WatchedBy[w] => watcher[v].state # "on"
  /\ watcher' = [watcher EXCEPT ![w].state = "on"]
  /\ UNCHANGED << file, written, frames, panesPage >>

\* The timer is off. A tick at work goes on.
StopWatching(w) ==
  /\ watcher[w].state = "on"
  /\ watcher' = [watcher EXCEPT ![w] = IF @.tick = "none" THEN Blank("stopped")
                                       ELSE [@ EXCEPT !.state = "stopped"]]
  /\ UNCHANGED << file, written, frames, panesPage >>

\* A tick up to the read: none while one is at work, nothing for a file that
\* is not there or as old as it was.
StatFile(w) ==
  LET text == file[WatchedBy[w]]
  IN  /\ watcher[w].state = "on" /\ watcher[w].tick = "none"
      /\ text # 0 /\ text # watcher[w].lastMtime
      /\ watcher' = [watcher EXCEPT ![w].tick = "reading", ![w].lastMtime = text]
      /\ UNCHANGED << file, written, frames, panesPage >>

\* The read, of what is there by then.
ReadFile(w) ==
  /\ watcher[w].tick = "reading"
  /\ watcher' = [watcher EXCEPT ![w].tick = "read", ![w].text = file[WatchedBy[w]]]
  /\ UNCHANGED << file, written, frames, panesPage >>

\* The read is answered, even after the turn ended and another began: a text
\* this watcher did not publish last is published, however old it is.
PublishWorkspace(w) ==
  LET a     == WatchedBy[w]
      text  == watcher[w].text
      isNew == text # 0 /\ text # watcher[w].previous
      read  == [watcher EXCEPT ![w] =
                  IF @.state = "stopped" THEN Blank("stopped")
                  ELSE [@ EXCEPT !.tick = "none", !.text = 0,
                                 !.previous = IF isNew THEN text ELSE @]]
  IN  /\ watcher[w].tick = "read"
      /\ watcher' = IF isNew
                    THEN [v \in Watchers |->
                            IF WatchedBy[v] # a THEN read[v]
                            ELSE [read[v] EXCEPT !.overtaken = v # w /\ read[v].previous # 0]]
                    ELSE read
      /\ frames' = IF isNew THEN [frames EXCEPT ![a] = text] ELSE frames
      /\ channel' = IF isNew /\ channel.open
                    THEN [channel EXCEPT !.wire = Append(@, [agentId |-> a, content |-> text])]
                    ELSE channel
      /\ UNCHANGED << file, written, answers, panes, breaks >>

-----------------------------------------------------------------------------
(* The page. *)

files == << file, written, watcher, frames >>

Latest ==
  LET published == {a \in Panes : frames[a] # 0}
  IN  SetToSeq({[agentId |-> a, content |-> frames[a]] : a \in published})

\* The stream opens, or opens again: the latest frames first.
OpenFrames ==
  /\ ~channel.open
  /\ channel' = [open |-> TRUE, wire |-> Latest]
  /\ UNCHANGED << files, answers, panes, breaks >>

BreakFrames ==
  /\ channel.open /\ breaks < MaxBreaks
  /\ channel' = [open |-> FALSE, wire |-> <<>>]
  /\ breaks' = breaks + 1
  /\ UNCHANGED << files, answers, panes >>

\* setFrames of the stream: the agent's frame is replaced.
ReceiveFrame ==
  /\ channel.wire # <<>>
  /\ panes' = [panes EXCEPT ![Head(channel.wire).agentId] = Head(channel.wire).content]
  /\ channel' = [channel EXCEPT !.wire = Tail(@)]
  /\ UNCHANGED << files, answers, breaks >>

\* refresh asks for the frames; this is the moment the server answers.
AskFrames ==
  /\ frames \notin answers /\ Cardinality(answers) < MaxFetches
  /\ answers' = answers \cup {frames}
  /\ UNCHANGED << files, channel, panes, breaks >>

\* The answer is shown on a page that has no frame yet.
ShowFrames ==
  \E answer \in answers :
    /\ answers' = answers \ {answer}
    /\ panes' = IF panes = NoFrames THEN answer ELSE panes
    /\ UNCHANGED << files, channel, breaks >>

PanesNext ==
  \/ \E a \in Panes : WriteFile(a) \/ DeleteFile(a)
  \/ \E w \in Watchers : WatchFile(w) \/ StopWatching(w)
                         \/ StatFile(w) \/ ReadFile(w) \/ PublishWorkspace(w)
  \/ OpenFrames \/ BreakFrames \/ ReceiveFrame \/ AskFrames \/ ShowFrames

PanesSpec == PanesInit /\ [][PanesNext]_panesVars

-----------------------------------------------------------------------------
PanesTypeOK ==
  /\ file \in [Panes -> 0 .. written] /\ written \in 0 .. MaxWrites
  /\ frames \in [Panes -> 0 .. written] /\ panes \in [Panes -> 0 .. written]
  /\ answers \subseteq [Panes -> 0 .. written]
  /\ \A w \in Watchers : /\ watcher[w].state \in {"new", "on", "stopped"}
                         /\ watcher[w].tick \in {"none", "reading", "read"}
                         /\ watcher[w].text \in 0 .. written

(***************************************************************************)
(* The panes catch up: once an agent's file rests while it is watched, the *)
(* page shows it, after any number of broken streams ("this keeps the      *)
(* panes right if it drops", refresh) - unless the last frame came from a  *)
(* tick of an earlier turn: see PanesShowTheFile.                          *)
(***************************************************************************)
PanesAreRight ==
  \A w \in Watchers : LET a == WatchedBy[w] IN
    watcher[w].state = "on" /\ ~watcher[w].overtaken /\ file[a] # 0 => panes[a] = file[a]

\* "each Agent's own copy of the file, as it stands on disk right now"
\* (live/routes.ts:337-338), without "a watcher outliving its turn"
\* (workspace.ts:67-69). Stopping takes the timer off only: a tick at work
\* publishes what it read over what the next turn's watcher has published.
PanesShowTheFile ==
  \A w \in Watchers : LET a == WatchedBy[w] IN
    watcher[w].state = "on" /\ file[a] # 0 => panes[a] = file[a]

\* A pane never goes back to an earlier text. It does: an answer of the fallback
\* that meets an empty page is newer than the frames its stream still carries.
PanesNeverGoBack == [][\A a \in Panes : panes'[a] >= panes[a]]_panesVars

=============================================================================
