-------------------------------- MODULE Chat --------------------------------
(***************************************************************************)
(* The chat of the browser with its agents: state/useAgents.ts, and        *)
(* App.tsx, which has the same handlers. Every handler awaits requests     *)
(* that are answered and arrive later; meanwhile the user goes on, and     *)
(* what arrives must still be for the agent that is open.                  *)
(*                                                                         *)
(* A message is its agent and its place in the agent's conversation, a run *)
(* its agent and its number. Names and instructions are left out, and with *)
(* them what saving the settings changes.                                  *)
(***************************************************************************)
EXTENDS Naturals, Sequences, SequencesExt

CONSTANTS
  Chats,        \* the agents there may be
  AtFirst,      \* what may be there when the page opens
  NoAgent,         \* null
  MaxSends,     \* bound on messages sent
  MaxClicks,    \* bound on agents opened by hand
  MaxOps,       \* bound on agents created, started, stopped and deleted
  MaxFailures,  \* bound on requests that fail
  InOrder       \* whether requests are answered, and answers arrive, in order

ASSUME ChatAssumption ==
  /\ AtFirst \subseteq SUBSET Chats /\ NoAgent \notin Chats /\ InOrder \in BOOLEAN
  /\ \A n \in {MaxSends, MaxClicks, MaxOps, MaxFailures} : n \in Nat

VARIABLES
  state,      \* the server: the status of each agent
  said,       \* the server: the length of each conversation
  last,       \* the server: the latest run of each agent
  net,        \* requests of the page and their answers, oldest first
  listed,     \* the page: the agents and their status
  selectedId,   \* selectedId
  messages,   \* the page: the conversation on it
  activeRun,
  loads,      \* what has arrived for the agents that were opened
  polls,      \* pollingRunIds: who waits for each run, and for what
  working,    \* busy: an agent is being created, started, stopped or deleted
  hurt,       \* history: agents something failed for since they were opened
  opens, sends, clicks, ops, failures

chatServer == << state, said, last >>
chatPage   == << listed, selectedId, messages, activeRun >>
chatBounds == << sends, clicks, ops, failures >>
chatVars == << chatServer, net, chatPage, loads, polls, working, hurt, opens, chatBounds >>

Statuses == {"absent", "ready", "busy", "stopped"}

RunOf(a, n, ended) == [of |-> a, n |-> n, ended |-> ended]
NoRun == RunOf(NoAgent, 0, TRUE)

Conversation(a, length) == [k \in 1 .. length |-> << a, k >>]

There(agents) == {a \in Chats : agents[a] # "absent"}

\* A request: of which handler, for what, about which agent, run or load. The
\* answer fills in the rest.
Request(by, kind, a, n) ==
  [by |-> by, kind |-> kind, of |-> a, n |-> n, at |-> "asked",
   length |-> 0, run |-> NoRun, agents |-> [b \in Chats |-> "absent"]]

ListAgents(by) == Request(by, "agents", NoAgent, 0)

ChatInit ==
  /\ state \in {[a \in Chats |-> IF a \in first THEN "ready" ELSE "absent"] : first \in AtFirst}
  /\ said = [a \in Chats |-> 0]
  /\ last = [a \in Chats |-> RunOf(a, 0, TRUE)]
  /\ net = << ListAgents("page") >>
  /\ listed = [a \in Chats |-> "absent"] /\ selectedId = NoAgent
  /\ messages = <<>> /\ activeRun = NoRun
  /\ loads = {} /\ polls = {} /\ working = FALSE /\ hurt = {}
  /\ opens = 0 /\ sends = 0 /\ clicks = 0 /\ ops = 0 /\ failures = 0

-----------------------------------------------------------------------------
(* The server. *)

\* A run ends, with an answer or without one.
RunEnds(a) ==
  /\ state[a] = "busy"
  /\ state' = [state EXCEPT ![a] = "ready"]
  /\ last' = [last EXCEPT ![a].ended = TRUE]
  /\ \E answers \in {0, 1} : said' = [said EXCEPT ![a] = @ + answers]
  /\ UNCHANGED << net, chatPage, loads, polls, working, hurt, opens, chatBounds >>

ChatClient == << chatPage, loads, polls, working, hurt, opens, chatBounds >>

Asked(i)    == net[i].at = "asked" /\ (InOrder => i = 1)
Answered(i) == net[i].at = "answered" /\ (InOrder => i = 1)

Reply(i, request) == net' = [net EXCEPT ![i] = [request EXCEPT !.at = "answered"]]
Refuse(i)         == net' = [net EXCEPT ![i].at = "refused"]

\* The questions. Nobody knows a deleted agent and its runs.
Tell(i) ==
  LET request == net[i]
      a       == request.of
      known   == request.kind # "agents" => /\ a \in There(state)
                                            /\ request.kind = "run" => last[a].n = request.n
  IN  /\ Asked(i) /\ request.kind \in {"messages", "runs", "run", "agents"}
      /\ IF ~known THEN Refuse(i)
         ELSE IF request.kind = "agents" THEN Reply(i, [request EXCEPT !.agents = state])
         ELSE Reply(i, [request EXCEPT !.length = said[a], !.run = last[a]])
      /\ UNCHANGED << chatServer, ChatClient >>

\* A message to an agent that is ready starts a run.
Accept(i) ==
  LET a == net[i].of IN
  /\ Asked(i) /\ net[i].kind = "message"
  /\ IF state[a] = "ready"
       THEN /\ state' = [state EXCEPT ![a] = "busy"]
            /\ said' = [said EXCEPT ![a] = @ + 1]
            /\ last' = [last EXCEPT ![a] = RunOf(a, @.n + 1, FALSE)]
            /\ Reply(i, [net[i] EXCEPT !.run = last'[a], !.length = said'[a]])
       ELSE Refuse(i) /\ UNCHANGED chatServer
  /\ UNCHANGED ChatClient

\* Stopping and deleting an agent end its run first.
Perform(i) ==
  LET a == net[i].of
      kind == net[i].kind
  IN  /\ Asked(i) /\ kind \in {"create", "start", "stop", "delete"}
      /\ IF kind # "create" /\ a \notin There(state) THEN Refuse(i) /\ UNCHANGED chatServer
         ELSE /\ Reply(i, net[i])
              /\ state' = [state EXCEPT ![a] = CASE kind = "stop" -> "stopped"
                                                 [] kind = "delete" -> "absent"
                                                 [] OTHER -> "ready"]
              /\ said' = [said EXCEPT ![a] = IF kind = "delete" THEN 0 ELSE @]
              /\ last' = [last EXCEPT ![a] = CASE kind = "stop" -> [@ EXCEPT !.ended = TRUE]
                                               [] kind = "delete" -> RunOf(a, 0, TRUE)
                                               [] OTHER -> @]
      /\ UNCHANGED ChatClient

-----------------------------------------------------------------------------
(* An agent is opened. *)

\* selectedId changes: no run is shown, messages and runs are asked for.
OpenAgent(a, wire) ==
  /\ selectedId' = a
  /\ IF a = selectedId THEN net' = wire /\ UNCHANGED << messages, activeRun, loads, hurt, opens >>
     ELSE /\ activeRun' = NoRun
          /\ hurt' = hurt \ {b \in {a} \cap Chats : state[b] # "busy"}
          /\ IF a = NoAgent THEN messages' = <<>> /\ net' = wire /\ UNCHANGED << loads, opens >>
             ELSE /\ opens' = opens + 1
                  /\ loads' = loads \cup {[no |-> opens, left |-> {"messages", "runs"}, run |-> NoRun]}
                  /\ net' = wire \o << Request("load", "messages", a, opens),
                                       Request("load", "runs", a, opens) >>
                  /\ UNCHANGED messages

Click(a) ==
  /\ clicks < MaxClicks /\ a \in There(listed) \ {selectedId}
  /\ clicks' = clicks + 1
  /\ OpenAgent(a, net)
  /\ UNCHANGED << chatServer, listed, polls, working, sends, ops, failures >>

\* pollRun, unless the run is polled already.
PollOf(run, by) ==
  IF run.ended \/ \E p \in polls : p.of = run.of /\ p.n = run.n THEN {}
  ELSE {[of |-> run.of, n |-> run.n, by |-> by, left |-> {"wait"}]}

\* Both answers are there: a run under way is shown and polled.
Loaded(load, a) ==
  IF load.left # {} \/ selectedId # a THEN UNCHANGED << activeRun, polls >>
  ELSE /\ activeRun' = IF load.run.n = 0 THEN NoRun ELSE load.run
       /\ polls' = polls \cup PollOf(load.run, "load")

LoadArrives(i, load) ==
  LET arrived == [load EXCEPT !.left = @ \ {net[i].kind},
                              !.run = IF net[i].kind = "runs" THEN net[i].run ELSE @]
  IN  /\ loads' = (loads \ {load}) \cup (IF arrived.left = {} THEN {} ELSE {arrived})
      /\ Loaded(arrived, net[i].of)

\* A poll whose answers after the end have arrived is over.
ClosingArrives(i) ==
  LET left(p) == p.left \ {net[i].kind}
      closing == {p \in polls : p.of = net[i].of /\ p.n = net[i].n}
  IN  polls' = (polls \ closing) \cup
               {[p EXCEPT !.left = left(p)] : p \in {q \in closing : left(q) # {}}}

\* refreshMessages, for the agent that is open.
MessagesArrive(i) ==
  LET a == net[i].of IN
  /\ Answered(i) /\ net[i].kind \in {"messages", "runs"}
  /\ net' = RemoveAt(net, i)
  /\ messages' = IF net[i].kind = "messages" /\ selectedId = a
              THEN Conversation(a, net[i].length) ELSE messages
  /\ IF net[i].by = "poll" THEN ClosingArrives(i) /\ UNCHANGED << loads, activeRun >>
     ELSE IF \E load \in loads : load.no = net[i].n
       THEN \E load \in loads : load.no = net[i].n /\ LoadArrives(i, load)
       ELSE UNCHANGED << loads, activeRun, polls >>
  /\ UNCHANGED << chatServer, listed, selectedId, working, hurt, opens, chatBounds >>

\* refreshAgents: who is open stays open while listed. What was just created
\* is opened.
AgentsArrive(i) ==
  LET there == There(net[i].agents)
      wire  == RemoveAt(net, i)
  IN  /\ Answered(i) /\ net[i].kind = "agents"
      /\ listed' = net[i].agents
      /\ IF net[i].by = "poll" THEN ClosingArrives(i) ELSE UNCHANGED polls
      /\ working' = (working /\ net[i].by # "op")
      /\ IF net[i].by = "op" /\ net[i].of # NoAgent THEN OpenAgent(net[i].of, wire)
         ELSE IF selectedId \in there THEN OpenAgent(selectedId, wire)
         ELSE IF there = {} THEN OpenAgent(NoAgent, wire)
         ELSE \E a \in there : OpenAgent(a, wire)
      /\ UNCHANGED << chatServer, chatBounds >>

-----------------------------------------------------------------------------
(* pollRun. *)

Replaced(p, left) == polls' = (polls \ {p}) \cup {[p EXCEPT !.left = left]}

AskRun(p) ==
  /\ p.left = {"wait"}
  /\ Replaced(p, {"run"})
  /\ net' = Append(net, Request("poll", "run", p.of, p.n))
  /\ UNCHANGED << chatServer, chatPage, loads, working, hurt, opens, chatBounds >>

\* The run is shown. After its end the messages and the agents are asked for.
RunArrives(i, p) ==
  /\ Answered(i) /\ net[i].kind = "run" /\ p.of = net[i].of /\ p.n = net[i].n
  /\ activeRun' = IF selectedId = p.of THEN RunOf(p.of, p.n, net[i].run.ended) ELSE activeRun
  /\ IF ~net[i].run.ended THEN Replaced(p, {"wait"}) /\ net' = RemoveAt(net, i)
     ELSE /\ Replaced(p, {"messages", "agents"})
          /\ net' = RemoveAt(net, i) \o << Request("poll", "messages", p.of, p.n),
                                           Request("poll", "agents", p.of, p.n) >>
  /\ UNCHANGED << chatServer, listed, selectedId, messages, loads, working, hurt, opens, chatBounds >>

-----------------------------------------------------------------------------
(* sendMessage. *)

\* The composer, for the agent on the page as it is listed.
Composer == selectedId # NoAgent /\ listed[selectedId] = "ready" /\ activeRun.ended

Send ==
  /\ sends < MaxSends /\ Composer
  /\ sends' = sends + 1
  /\ net' = Append(net, Request("send", "message", selectedId, 0))
  /\ UNCHANGED << chatServer, chatPage, loads, polls, working, hurt, opens, clicks, ops, failures >>

\* Mutant: the run is shown whichever agent is open by now.
AcceptedAnywhere(i) ==
  LET a == net[i].of IN
  /\ Answered(i) /\ net[i].kind = "message"
  /\ net' = RemoveAt(net, i)
  /\ activeRun' = net[i].run
  /\ messages' = IF selectedId = a THEN Append(messages, << a, net[i].length >>) ELSE messages
  /\ listed' = [listed EXCEPT ![a] = IF @ = "absent" THEN @ ELSE "busy"]
  /\ polls' = polls \cup PollOf(net[i].run, "send")
  /\ UNCHANGED << chatServer, selectedId, loads, working, hurt, opens, chatBounds >>

\* The message and its run are shown if the agent is still open. The run is
\* polled anyway.
Accepted(i) ==
  LET a == net[i].of IN
  /\ Answered(i) /\ net[i].kind = "message"
  /\ net' = RemoveAt(net, i)
  /\ activeRun' = IF selectedId = a THEN net[i].run ELSE activeRun
  /\ messages' = IF selectedId = a THEN Append(messages, << a, net[i].length >>) ELSE messages
  /\ listed' = [listed EXCEPT ![a] = IF @ = "absent" THEN @ ELSE "busy"]
  /\ polls' = polls \cup PollOf(net[i].run, "send")
  /\ UNCHANGED << chatServer, selectedId, loads, working, hurt, opens, chatBounds >>

-----------------------------------------------------------------------------
(* createAgent, toggleAgent, deleteAgent. *)

\* The buttons: New Agent, and those of the agent on the page.
Buttons(kind, a) ==
  CASE kind = "create" -> a \notin There(state)
    [] kind = "start"  -> a = selectedId /\ listed[a] = "stopped"
    [] kind = "stop"   -> a = selectedId /\ listed[a] \in {"ready", "busy"}
    [] kind = "delete" -> a = selectedId /\ listed[a] \in {"ready", "stopped"}

Operate(kind, a) ==
  /\ ~working /\ ops < MaxOps /\ Buttons(kind, a)
  /\ ops' = ops + 1 /\ working' = TRUE
  /\ net' = Append(net, Request("op", kind, a, 0))
  /\ UNCHANGED << chatServer, chatPage, loads, polls, hurt, opens, sends, clicks, failures >>

Performed(i) ==
  /\ Answered(i) /\ net[i].by = "op" /\ net[i].kind # "agents"
  /\ net' = Append(RemoveAt(net, i),
                   Request("op", "agents", IF net[i].kind = "create" THEN net[i].of ELSE NoAgent, 0))
  /\ UNCHANGED << chatServer, ChatClient >>

-----------------------------------------------------------------------------
(* Failures: refusals, and requests that are lost. *)

\* What is left of the handler when one of its requests failed. Who sent a
\* message shows no run, and asks for the agents.
Failed(i) ==
  LET request == net[i]
      mine    == {p \in polls : request.by = "poll" /\ p.of = request.of /\ p.n = request.n}
      sender  == request.kind = "message" \/ \E p \in mine : p.by = "send"
      wire    == RemoveAt(net, i)
  IN  /\ polls' = polls \ mine
      /\ loads' = {l \in loads : request.by # "load" \/ l.no # request.n}
      /\ hurt' = hurt \cup {IF request.of = NoAgent THEN selectedId ELSE request.of}
      /\ working' = (working /\ request.by # "op")
      /\ activeRun' = IF sender THEN NoRun ELSE activeRun
      /\ net' = IF sender THEN Append(wire, ListAgents("send")) ELSE wire
      /\ UNCHANGED << chatServer, listed, selectedId, messages, opens, sends, clicks, ops >>

Refused(i) ==
  /\ net[i].at = "refused" /\ (InOrder => i = 1)
  /\ Failed(i) /\ UNCHANGED failures

LoseRequest(i) ==
  /\ failures < MaxFailures /\ failures' = failures + 1
  /\ Failed(i)

-----------------------------------------------------------------------------
Arrival(i) ==
  \/ Tell(i) \/ Accept(i) \/ Perform(i)
  \/ MessagesArrive(i) \/ AgentsArrive(i) \/ Accepted(i) \/ Performed(i) \/ Refused(i)
  \/ \E p \in polls : RunArrives(i, p)

System == (\E i \in DOMAIN net : Arrival(i)) \/ (\E p \in polls : AskRun(p))

ChatNext ==
  \/ \E a \in Chats : Click(a) \/ RunEnds(a)
  \/ \E a \in Chats : \E kind \in {"create", "start", "stop", "delete"} : Operate(kind, a)
  \/ Send \/ System
  \/ \E i \in DOMAIN net : LoseRequest(i)

ChatSpec == ChatInit /\ [][ChatNext]_chatVars

-----------------------------------------------------------------------------
ChatTypeOK ==
  /\ state \in [Chats -> Statuses] /\ listed \in [Chats -> Statuses]
  /\ said \in [Chats -> Nat]
  /\ selectedId \in Chats \cup {NoAgent}
  /\ ToSet(messages) \subseteq Chats \X Nat
  /\ activeRun \in [of : Chats \cup {NoAgent}, n : Nat, ended : BOOLEAN]
  /\ \A p \in polls : p.left \subseteq {"wait", "run", "messages", "agents"}

(***************************************************************************)
(* The run on the page is one of the agent that is open: it decides        *)
(* whether a message may be sent, and what is said to be under way. Every  *)
(* answer may arrive after another agent was opened (selectedIdRef).       *)
(***************************************************************************)
RunShownIsSelected == activeRun # NoRun => activeRun.of = selectedId

(***************************************************************************)
(* The page catches up with the agent that is open: its conversation as it *)
(* is, the answers of its runs included, and no run under way that is over *)
(* - or something failed, and the user was told. The status of the agent,  *)
(* which blocks the composer, catches up when nothing fails at all.        *)
(***************************************************************************)
ChatIsRight ==
  /\ selectedId \notin hurt \cup {NoAgent} =>
       messages = Conversation(selectedId, said[selectedId]) /\ activeRun.ended
  /\ selectedId # NoAgent /\ failures = 0 => listed[selectedId] = state[selectedId]

=============================================================================
