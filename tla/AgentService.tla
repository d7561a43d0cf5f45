---------------------------- MODULE AgentService ----------------------------
(***************************************************************************)
(* AgentService and JsonStore around the contained runner: messages sent   *)
(* to agents, their runs, stop, start and delete, and the restart.         *)
(*                                                                         *)
(* JsonStore.mutate is a queue: its head is applied to a copy, written and *)
(* made current in one step, or has no effect when the write fails. What   *)
(* the caller does when its mutation resolves, up to its own next await,   *)
(* belongs to that step. Runs outside ServiceRuns are those of turns,      *)
(* which share AEGIS and the runner and nothing else.                      *)
(***************************************************************************)
EXTENDS Containment, Sequences

CONSTANTS
  ServiceRuns,      \* one for each message that may be sent
  Stops,            \* requests to stop or delete an agent
  MaxEvents         \* bound: stops, starts, troubles, failed writes and restarts, together

ASSUME ServiceAssumption ==
  ServiceRuns \subseteq Runs /\ MaxEvents \in Nat

VARIABLES
  status,     \* Agent.status, or "gone"
  record,     \* AgentRun.status in the database, or "none"
  queue,      \* JsonStore.queue: the mutations not yet applied
  executing,  \* AgentService.activeExecutions: the latest run of each agent
  execution,  \* the promise of executeRun of each run
  flags,      \* cancellationRequests: agents, shared by all requests
  stop,       \* where each stop or delete request is
  unwritten,  \* history: a write of the store failed since the boot
  events

db     == << status, record >>
svars  == << db, queue, executing, execution, flags, stop, unwritten, events >>
vars   == << cvars, svars >>

Event == events' = events + 1

ServiceAgents == {AgentOf[r] : r \in ServiceRuns}
Terminal      == {"completed", "failed", "cancelled", "blocked", "killed", "quarantined"}
Places        == {"none", "cancelling", "awaiting", "archiving", "setting", "done"}

Stop == [at : Places, kind : {"stop", "delete"}, agent : ServiceAgents \cup {None}, run : Runs \cup {None}]

NoStop == [at |-> "none", kind |-> "stop", agent |-> None, run |-> None]

Mutation ==
  [op : {"send", "start"}, run : ServiceRuns]
    \cup [op : {"end"}, run : ServiceRuns, result : Terminal]
    \cup [op : {"ready"}, agent : ServiceAgents]
    \cup [op : {"stopped", "delete"}, stop : Stops]

Init ==
  /\ CInit
  /\ status = [a \in ServiceAgents |-> "ready"]
  /\ record = [r \in ServiceRuns |-> "none"]
  /\ queue = << >>
  /\ executing = [a \in ServiceAgents |-> None]
  /\ execution = [r \in ServiceRuns |-> "none"]
  /\ flags = {}
  /\ stop = [s \in Stops |-> NoStop]
  /\ unwritten = FALSE /\ events = 0

-----------------------------------------------------------------------------
(* A stop waits for the process it cancelled, then for the execution.      *)

\* Mutant: a stop goes on after an execution that resolved only.
WakesOver(s) ==
  \/ /\ stop[s].at = "cancelling"
     /\ stop[s].run = None \/ process[stop[s].agent] # stop[s].run
  \/ stop[s].at = "awaiting" /\ execution[stop[s].run] = "over"

Wakes(s) ==
  \/ /\ stop[s].at = "cancelling"
     /\ stop[s].run = None \/ process[stop[s].agent] # stop[s].run
  \/ stop[s].at = "awaiting" /\ execution[stop[s].run] \in {"over", "rejected"}

\* Promises that are resolved go on before anything else happens.
Quiet == \A s \in Stops : ~Wakes(s)

Leaves(s) ==
  /\ flags' = flags \ {stop[s].agent}
  /\ IF stop[s].kind = "delete"
     THEN stop' = [stop EXCEPT ![s].at = "archiving"] /\ UNCHANGED queue
     ELSE /\ stop' = [stop EXCEPT ![s].at = "setting"]
          /\ queue' = Append(queue, [op |-> "stopped", stop |-> s])

\* The second half of cancelExecution.
StopWakes(s) ==
  LET a == stop[s].agent
  IN  /\ Wakes(s)
      /\ \/ /\ stop[s].at = "cancelling" /\ executing[a] # None
            /\ stop' = [stop EXCEPT ![s].at = "awaiting", ![s].run = executing[a]]
            /\ UNCHANGED << flags, queue >>
         \/ /\ stop[s].at = "cancelling" /\ executing[a] = None
            /\ Leaves(s)
         \/ /\ stop[s].at = "awaiting" /\ execution[stop[s].run] = "over"
            /\ Leaves(s)
         \/ /\ stop[s].at = "awaiting" /\ execution[stop[s].run] = "rejected"
            /\ flags' = flags \ {a}
            /\ stop' = [stop EXCEPT ![s].at = "done"]
            /\ UNCHANGED queue
      /\ UNCHANGED << cvars, db, executing, execution, unwritten, events >>

\* stopAgent and deleteAgent, up to the await of runner.cancel. A run that
\* has no process yet is not told; its execution is awaited all the same.
RequestStop(s) ==
  \E a \in ServiceAgents, kind \in {"stop", "delete"} :
    /\ Event /\ stop[s].at = "none" /\ status[a] # "gone" /\ Quiet
    /\ flags' = flags \cup {a}
    /\ CancelStep(a)
    /\ stop' = [stop EXCEPT ![s] = [at |-> "cancelling", kind |-> kind, agent |-> a,
                                run |-> process[a]]]
    /\ UNCHANGED << db, queue, executing, execution, unwritten >>

\* The workspace of the deleted agent has been moved away.
Archived(s) ==
  /\ stop[s].at = "archiving" /\ Quiet
  /\ stop' = [stop EXCEPT ![s].at = "setting"]
  /\ queue' = Append(queue, [op |-> "delete", stop |-> s])
  /\ UNCHANGED << cvars, db, executing, execution, flags, unwritten, events >>

-----------------------------------------------------------------------------
(* Requests that enqueue a mutation.                                       *)

Send(r) ==
  /\ execution[r] = "none" /\ Quiet
  /\ execution' = [execution EXCEPT ![r] = "asked"]
  /\ queue' = Append(queue, [op |-> "send", run |-> r])
  /\ UNCHANGED << cvars, db, executing, flags, stop, unwritten, events >>

StartAgent(a) ==
  /\ Event /\ Quiet
  /\ queue' = Append(queue, [op |-> "ready", agent |-> a])
  /\ UNCHANGED << cvars, db, executing, execution, flags, stop, unwritten >>

-----------------------------------------------------------------------------
(* The head of the queue is applied.                                       *)

Commits(op) == queue # << >> /\ Head(queue).op = op /\ Quiet

Resolves(r, how) ==
  LET a == AgentOf[r]
  IN  /\ execution' = [execution EXCEPT ![r] = how]
      /\ executing' = IF executing[a] = r THEN [executing EXCEPT ![a] = None] ELSE executing

\* sendMessage: an idle agent becomes busy and the execution is registered,
\* whose first step is a mutation of its own.
CommitSend ==
  /\ Commits("send")
  /\ LET r == Head(queue).run
         a == AgentOf[r]
     IN  IF status[a] \in {"ready", "error"}
         THEN /\ status' = [status EXCEPT ![a] = "busy"]
              /\ record' = [record EXCEPT ![r] = "queued"]
              /\ execution' = [execution EXCEPT ![r] = "begun"]
              /\ executing' = [executing EXCEPT ![a] = r]
              /\ queue' = Append(Tail(queue), [op |-> "start", run |-> r])
         ELSE /\ execution' = [execution EXCEPT ![r] = "over"]
              /\ queue' = Tail(queue)
              /\ UNCHANGED << db, executing >>
  /\ UNCHANGED << cvars, flags, stop, unwritten, events >>

\* The status that the catch of executeRun gives the run: a containment
\* outcome is quarantined when lastSafety has a failed attestation.
Result(r) ==
  IF pep'[r].outcome \in {"blocked", "killed"} /\ safety'[AgentOf[r]] = "changed"
  THEN "quarantined" ELSE pep'[r].outcome

\* The record is running, and the runner is called - unless a stop has
\* asked for the agent: then the run is cancelled before it.
CommitStart ==
  \E r \in ServiceRuns :
    /\ Commits("start") /\ Head(queue).run = r
    /\ record' = [record EXCEPT ![r] = IF @ = "gone" THEN @ ELSE "running"]
    /\ \/ /\ AgentOf[r] \in flags
          /\ queue' = Append(Tail(queue), [op |-> "end", run |-> r, result |-> "cancelled"])
          /\ UNCHANGED cvars
       \/ /\ AgentOf[r] \notin flags
          /\ Admit(r) /\ queue' = Tail(queue)
       \/ /\ AgentOf[r] \notin flags
          /\ Refuse(r)
          /\ queue' = Append(Tail(queue), [op |-> "end", run |-> r, result |-> Result(r)])
    /\ UNCHANGED << status, executing, execution, flags, stop, unwritten, events >>

\* A step of the guarded runner; when the run leaves it, its result is
\* enqueued.
Step(r) ==
  /\ Quiet /\ RunStep(r)
  /\ queue' = IF r \in ServiceRuns /\ pep'[r].at = "over"
              THEN Append(queue, [op |-> "end", run |-> r, result |-> Result(r)])
              ELSE queue
  /\ UNCHANGED << db, executing, execution, flags, stop, unwritten, events >>

\* Mutant: an agent is given back by runs that completed only.
CommitEndCompleted ==
  /\ Commits("end")
  /\ LET r == Head(queue).run
         a == AgentOf[r]
     IN  /\ record' = [record EXCEPT ![r] = Head(queue).result]
         /\ status' = IF Head(queue).result # "completed" \/ status[a] = "gone"
                      THEN status ELSE [status EXCEPT ![a] = "ready"]
         /\ Resolves(r, "over")
  /\ queue' = Tail(queue)
  /\ UNCHANGED << cvars, flags, stop, unwritten, events >>

\* The end of executeRun: a completed run makes its agent ready whatever
\* its status is; any other leaves a stopped agent stopped.
CommitEnd ==
  /\ Commits("end")
  /\ LET r == Head(queue).run
         a == AgentOf[r]
         result == Head(queue).result
     IN  /\ IF status[a] = "gone" THEN UNCHANGED db
            ELSE /\ record' = [record EXCEPT ![r] = result]
                 /\ status' = [status EXCEPT ![a] =
                      CASE result = "completed" -> "ready"
                        [] @ = "stopped"         -> "stopped"
                        [] result = "cancelled"  -> "ready"
                        [] OTHER                 -> "error"]
         /\ Resolves(r, "over")
  /\ queue' = Tail(queue)
  /\ UNCHANGED << cvars, flags, stop, unwritten, events >>

\* setStatus(ready): refused while the agent is busy.
CommitReady ==
  /\ Commits("ready")
  /\ LET a == Head(queue).agent
     IN  status' = IF status[a] \in {"gone", "busy"} THEN status
                   ELSE [status EXCEPT ![a] = "ready"]
  /\ queue' = Tail(queue)
  /\ UNCHANGED << cvars, record, executing, execution, flags, stop, unwritten, events >>

\* setStatus(stopped): whatever the agent does by now.
CommitStopped ==
  /\ Commits("stopped")
  /\ LET s == Head(queue).stop
         a == stop[s].agent
     IN  /\ status' = IF status[a] = "gone" THEN status ELSE [status EXCEPT ![a] = "stopped"]
         /\ stop' = [stop EXCEPT ![s].at = "done"]
  /\ queue' = Tail(queue)
  /\ UNCHANGED << cvars, record, executing, execution, flags, unwritten, events >>

\* deleteAgent: the agent, its messages and its runs.
CommitDelete ==
  /\ Commits("delete")
  /\ LET s == Head(queue).stop
         a == stop[s].agent
     IN  /\ status' = [status EXCEPT ![a] = "gone"]
         /\ record' = [r \in ServiceRuns |-> IF AgentOf[r] = a /\ record[r] # "none"
                                             THEN "gone" ELSE record[r]]
         /\ stop' = [stop EXCEPT ![s].at = "done"]
  /\ queue' = Tail(queue)
  /\ UNCHANGED << cvars, executing, execution, flags, unwritten, events >>

(***************************************************************************)
(* The write of the head fails, and its caller with it. The end of a run   *)
(* that completed was written in the try, so it is tried again as failed;  *)
(* the start and the end in the catch are outside it, and nobody comes     *)
(* back to the run.                                                        *)
(***************************************************************************)
WriteFails ==
  /\ queue # << >> /\ Quiet
  /\ Event
  /\ unwritten' = TRUE
  /\ LET m == Head(queue)
     IN  \/ /\ m.op = "send"
            /\ execution' = [execution EXCEPT ![m.run] = "over"]
            /\ queue' = Tail(queue)
            /\ UNCHANGED << executing, stop >>
         \/ /\ m.op = "end" /\ m.result = "completed"
            /\ queue' = Append(Tail(queue), [m EXCEPT !.result = "failed"])
            /\ UNCHANGED << execution, executing, stop >>
         \/ /\ m.op = "start" \/ (m.op = "end" /\ m.result # "completed")
            /\ Resolves(m.run, "rejected")
            /\ queue' = Tail(queue)
            /\ UNCHANGED stop
         \/ /\ m.op = "ready"
            /\ queue' = Tail(queue)
            /\ UNCHANGED << execution, executing, stop >>
         \/ /\ m.op \in {"stopped", "delete"}
            /\ stop' = [stop EXCEPT ![m.stop].at = "done"]
            /\ queue' = Tail(queue)
            /\ UNCHANGED << execution, executing >>
  /\ UNCHANGED << cvars, db, flags >>

-----------------------------------------------------------------------------
\* Mutant: initialize cancels every run that did not complete.
RestartAll ==
  /\ Event
  /\ Reboot
  /\ record' = [r \in ServiceRuns |-> IF record[r] \in {"none", "completed", "gone"}
                                      THEN record[r] ELSE "cancelled"]
  /\ status' = [a \in ServiceAgents |-> IF status[a] = "busy" THEN "ready" ELSE status[a]]
  /\ queue' = << >> /\ flags' = {} /\ unwritten' = FALSE
  /\ executing' = [a \in ServiceAgents |-> None]
  /\ execution' = [r \in ServiceRuns |-> IF execution[r] = "none" THEN "none" ELSE "over"]
  /\ stop' = [s \in Stops |-> IF stop[s].at = "none" THEN NoStop ELSE [NoStop EXCEPT !.at = "done"]]

\* The process ends and initialize repairs the database.
Restart ==
  /\ Event
  /\ Reboot
  /\ record' = [r \in ServiceRuns |-> IF record[r] \in {"queued", "running"}
                                      THEN "cancelled" ELSE record[r]]
  /\ status' = [a \in ServiceAgents |-> IF status[a] = "busy" THEN "ready" ELSE status[a]]
  /\ queue' = << >> /\ flags' = {} /\ unwritten' = FALSE
  /\ executing' = [a \in ServiceAgents |-> None]
  /\ execution' = [r \in ServiceRuns |-> IF execution[r] = "none" THEN "none" ELSE "over"]
  /\ stop' = [s \in Stops |-> IF stop[s].at = "none" THEN NoStop ELSE [NoStop EXCEPT !.at = "done"]]

\* A turn calls the runner for an agent of its own.
TurnRun(r) ==
  /\ Quiet /\ (Admit(r) \/ Refuse(r))
  /\ UNCHANGED svars

Serve ==
  \/ CommitSend \/ CommitStart \/ CommitEnd
  \/ CommitReady \/ CommitStopped \/ CommitDelete

Next ==
  /\ \/ \E r \in ServiceRuns : Send(r)
     \/ \E a \in ServiceAgents : StartAgent(a)
     \/ \E s \in Stops : RequestStop(s) \/ StopWakes(s) \/ Archived(s)
     \/ \E r \in Runs \ ServiceRuns : TurnRun(r)
     \/ \E r \in Runs : Step(r)
     \/ Serve \/ WriteFails \/ Restart
     \/ Quiet /\ Around /\ UNCHANGED svars
  /\ troubles' + events' <= MaxEvents

Spec == Init /\ [][Next]_vars

\* The event loop runs what is ready, I/O completes, and every process ends:
\* the runner ends it when its time is over.
Fairness ==
  /\ WF_vars(Serve)
  /\ WF_vars(\E s \in Stops : StopWakes(s) \/ Archived(s))
  /\ \A r \in ServiceRuns : WF_vars(Step(r))

FairSpec == Spec /\ Fairness

-----------------------------------------------------------------------------
\* Type correctness of the database, the queue and the requests.
TypeOK ==
  /\ ContainmentTypeOK
  /\ status \in [ServiceAgents -> {"ready", "busy", "stopped", "error", "gone"}]
  /\ record \in [ServiceRuns -> {"none", "queued", "running", "gone"} \cup Terminal]
  /\ queue \in Seq(Mutation)
  /\ executing \in [ServiceAgents -> ServiceRuns \cup {None}]
  /\ execution \in [ServiceRuns -> {"none", "asked", "begun", "over", "rejected"}]
  /\ flags \subseteq ServiceAgents
  /\ stop \in [Stops -> Stop]
  /\ unwritten \in BOOLEAN /\ events \in 0 .. MaxEvents

(***************************************************************************)
(* An agent is busy only while an execution of one of its runs is under    *)
(* way, and so is a run that is not over, whatever stops, deletions,       *)
(* refusals and ends are interleaved with it. Only a write that failed     *)
(* leaves an agent busy with nobody to give it back, until the restart.    *)
(***************************************************************************)
BusyAgentsWork ==
  unwritten \/
    /\ \A a \in ServiceAgents :
         status[a] = "busy" => executing[a] # None /\ execution[executing[a]] = "begun"
    /\ \A r \in ServiceRuns : record[r] \in {"queued", "running"} => execution[r] = "begun"

\* What a run came to is never rewritten, by a late end of it, by a stop or
\* by the restart; it goes with its agent only.
ResultsAreFinal ==
  [][\A r \in ServiceRuns : record[r] \in Terminal => record'[r] \in {record[r], "gone"}]_vars

(***************************************************************************)
(* Every message that was accepted gets its result, and every request to   *)
(* stop an agent its answer: again and again nothing is waited for. A stop *)
(* waits for a process, for the execution and for the store, and a run     *)
(* that a failed write abandons must not keep it.                          *)
(***************************************************************************)
EverythingIsAnswered ==
  []<>( /\ \A r \in ServiceRuns : execution[r] # "begun"
        /\ \A s \in Stops : stop[s].at \in {"none", "done"})

(***************************************************************************)
(* types.ts:16 of "blocked": "AEGIS G1 refused admission; no container was *)
(* ever created". The catch of executeRun reads lastSafety, which is that  *)
(* of an earlier run of the agent when this one was refused.               *)
(***************************************************************************)
RefusedRunsAreBlocked ==
  \A r \in ServiceRuns :
    pep[r].outcome = "blocked" /\ record[r] \in Terminal => record[r] = "blocked"
=============================================================================
