-------------------------------- MODULE Audit --------------------------------
(***************************************************************************)
(* The safety log of AEGIS (aegis/audit.ts): an append-only list of        *)
(* records, each holding the hash of the one before, kept in memory up to  *)
(* a retention limit and in a file that a queue of appends writes; and who *)
(* writes to it - the gates around a run, the egress broker, and everybody *)
(* else (decisions on people's requests, outcomes of document writes).     *)
(*                                                                         *)
(* Nobody alters a record, so a record's hash is represented by its id.    *)
(***************************************************************************)
EXTENDS Policy, FiniteSets, FiniteSetsExt

CONSTANTS
  Runs,         \* runs of the guarded runner
  NoRun,        \* the run id of the records that belong to none
  Lines,        \* events a run's stream may hold
  MaxEvents,    \* RetentionOptions.maxEvents
  MaxRecords,   \* bound: records
  MaxCalls,     \* bound: requests of a run that the broker forwards at a time
  MaxTroubles   \* bound: appends that fail, and crashes

ASSUME AuditAssumption ==
  /\ NoRun \notin Runs /\ IsFiniteSet(Runs)
  /\ MaxEvents \in Nat \ {0} /\ MaxRecords \in Nat
  /\ MaxCalls \in Nat /\ MaxTroubles \in Nat

VARIABLES
  events,     \* AuditLog.events
  anchor,     \* the hash of the last record that was pruned
  head,       \* the hash of the last record
  seqByRun,   \* the last number given in each run
  queue,      \* lines whose appendFile is still to come
  file,       \* the lines of the file
  torn,       \* "yes" when the file has a line that does not parse
  server,     \* "up", "down", or "broken": initialize threw
  at,         \* where each run is between its gates
  violation,  \* Live.violation: the verdict that stopped it
  flying,     \* requests of each run the upstream has not answered
  failed,     \* history: records whose append failed
  crashed,    \* history: records that were lost with the process
  holed,      \* history: "yes" when memory was read from a file that misses one
  troubles

logVars == << events, anchor, head, seqByRun, queue >>
disk    == << file, torn, failed, crashed, holed, troubles >>
runVars == << at, violation, flying >>
vars    == << logVars, disk, server, runVars >>

GENESIS == 0

RunIds == Runs \cup {NoRun}

Rules == {"admitted", "refused", "confined", "denied", "settled", "crossing", "decision"}

\* Records are numbered as they are made, which stands for their hashes.
Record == [id : Nat \ {0}, run : RunIds, seq : Nat, prev : Nat, rule : Rules]

Init ==
  /\ events = <<>> /\ anchor = GENESIS /\ head = GENESIS
  /\ seqByRun = [r \in RunIds |-> -1]
  /\ queue = <<>> /\ file = <<>> /\ torn = "no"
  /\ server = "up"
  /\ at = [r \in Runs |-> "out"]
  /\ violation = [r \in Runs |-> {}]
  /\ flying = [r \in Runs |-> 0]
  /\ failed = {} /\ crashed = {} /\ holed = "no" /\ troubles = 0

-----------------------------------------------------------------------------
(* AuditLog                                                                *)

Made == Cardinality(failed) + Cardinality(crashed) + Len(file) + Len(queue)

Unhashed(run, rule) ==
  [id |-> Made + 1, run |-> run, seq |-> seqByRun[run] + 1, prev |-> head, rule |-> rule]

\* Mutant: the anchor stays where it was.
PruneForgetful(all, drop) ==
  /\ events' = SubSeq(all, drop + 1, Len(all))
  /\ UNCHANGED anchor

\* The oldest records are dropped and the anchor moves to the last of them.
Prune(all, drop) ==
  /\ events' = SubSeq(all, drop + 1, Len(all))
  /\ anchor' = IF drop = 0 THEN anchor ELSE all[drop].id

Larger(m, n) == IF m < n THEN n ELSE m

\* The old records past maxAgeMs are the first ones; how many there are is
\* the clock's affair.
append(run, rule) ==
  LET event == Unhashed(run, rule)
      all   == Append(events, event)
  IN  /\ server = "up" /\ Made < MaxRecords
      /\ \E old \in 0 .. Len(events) : Prune(all, Larger(old, Len(all) - MaxEvents))
      /\ head' = event.id
      /\ seqByRun' = [seqByRun EXCEPT ![run] = event.seq]
      /\ queue' = Append(queue, event)
      /\ UNCHANGED << disk, server >>

\* The next append of the queue.
Write ==
  /\ server = "up" /\ queue # <<>>
  /\ file' = Append(file, Head(queue)) /\ queue' = Tail(queue)
  /\ UNCHANGED << events, anchor, head, seqByRun, torn, failed, crashed, holed, troubles,
                  server, runVars >>

Ids(s) == {s[i].id : i \in DOMAIN s}

Trouble == troubles < MaxTroubles /\ troubles' = troubles + 1

\* Mutant: nothing catches the failure, and no later append of the chain runs.
WriteFailsForGood ==
  /\ server = "up" /\ queue # <<>> /\ Trouble
  /\ queue' = <<>> /\ crashed' = crashed \cup Ids(Tail(queue))
  /\ failed' = failed \cup {Head(queue).id}
  /\ UNCHANGED << events, anchor, head, seqByRun, file, torn, holed, server, runVars >>

\* It fails, having written nothing or a part of its line; nobody hears of it.
WriteFails ==
  /\ server = "up" /\ queue # <<>> /\ Trouble
  /\ queue' = Tail(queue)
  /\ failed' = failed \cup {Head(queue).id}
  /\ torn' \in {torn, "yes"}
  /\ UNCHANGED << events, anchor, head, seqByRun, file, crashed, holed, server, runVars >>

\* The process ends. The append that was under way may have written a part.
Crash ==
  /\ server = "up" /\ Trouble
  /\ server' = "down"
  /\ events' = <<>> /\ anchor' = GENESIS /\ head' = GENESIS
  /\ seqByRun' = [r \in RunIds |-> -1]
  /\ queue' = <<>> /\ crashed' = crashed \cup Ids(queue)
  /\ torn' \in {torn} \cup {t \in {"yes"} : queue # <<>>}
  /\ at' = [r \in Runs |-> IF at[r] = "out" THEN "out" ELSE "over"]
  /\ violation' = [r \in Runs |-> {}]
  /\ flying' = [r \in Runs |-> 0]
  /\ UNCHANGED << file, failed, holed >>

\* The last number the file has of a run; the number of the next follows it.
LastSeq(run) == Max({-1} \cup {file[i].seq : i \in {k \in DOMAIN file : file[k].run = run}})

Restore ==
  /\ events' = file
  /\ head' = IF file = <<>> THEN GENESIS ELSE Last(file).id
  /\ seqByRun' = [r \in RunIds |-> LastSeq(r)]

\* One line that does not parse, and bootstrap throws.
initialize ==
  /\ server = "down"
  /\ \/ /\ torn = "no" /\ server' = "up" /\ Restore
        /\ holed' = IF failed = {} THEN "no" ELSE "yes"
     \/ /\ torn = "yes" /\ server' = "broken"
        /\ UNCHANGED << events, head, seqByRun, holed >>
  /\ UNCHANGED << anchor, queue, file, torn, failed, crashed, troubles, runVars >>

-----------------------------------------------------------------------------
(* The gates of a run, and what they record.                               *)

Moves(r, from, to) == at[r] \in from /\ at' = [at EXCEPT ![r] = to]

\* When a run is refused is Containment's affair.
Refuse(r) == Moves(r, {"out"}, "over") /\ append(r, "refused") /\ UNCHANGED << violation, flying >>

Admit(r) == Moves(r, {"out"}, "live") /\ append(r, "admitted") /\ UNCHANGED << violation, flying >>

\* G2, where the runtime is a container: its profile.
Confine(r) ==
  Moves(r, {"live"}, "confined") /\ append(r, "confined") /\ UNCHANGED << violation, flying >>

\* No slot, or the latch was armed meanwhile, or a measurement threw: the
\* run ends and the log does not say so.
EndUnrecorded(r) ==
  /\ server = "up" /\ Moves(r, {"live", "confined", "contained"}, "over")
  /\ UNCHANGED << logVars, disk, server, violation, flying >>

TooManySteps == {Verdict("Deny", "KS-6.max-steps.exceeded")}

\* G3: the first event that is denied, or one more than maxSteps, aborts the run.
Inspect(r) ==
  /\ server = "up" /\ Moves(r, {"live", "confined"}, "stopped")
  /\ \E v \in {inspect(e) : e \in Lines} \cup {TooManySteps} :
       v # {} /\ violation' = [violation EXCEPT ![r] = v]
  /\ UNCHANGED << logVars, disk, server, flying >>

\* Mutant: the violation is recorded with the breaker, once all is settled.
ContainAfter(r) ==
  \/ Moves(r, {"stopped"}, "contained") /\ append(r, "settled") /\ UNCHANGED << violation, flying >>
  \/ Moves(r, {"contained"}, "over") /\ append(r, "denied") /\ UNCHANGED << violation, flying >>

Contain(r) ==
  Moves(r, {"stopped"}, "contained") /\ append(r, "denied") /\ UNCHANGED << violation, flying >>

\* G4; forgetRun follows before anything else runs.
Settle(r) ==
  Moves(r, {"live", "confined", "contained"}, "over") /\ append(r, "settled")
  /\ UNCHANGED << violation, flying >>

-----------------------------------------------------------------------------
(* The egress broker: a capability is looked up when its request arrives,  *)
(* and the crossing is recorded when the upstream's answer ends.           *)

Holds(r) == at[r] \in {"live", "confined", "stopped", "contained"}

Forward(r) ==
  /\ server = "up" /\ Holds(r) /\ flying[r] < MaxCalls
  /\ flying' = [flying EXCEPT ![r] = @ + 1]
  /\ UNCHANGED << logVars, disk, server, at, violation >>

\* Its run has ended, or there never was one.
NotLive(r) == at[r] = "over" /\ append(NoRun, "refused") /\ UNCHANGED runVars

\* It ended, or the upstream turned out to be unreachable.
Answered(r) ==
  /\ flying[r] > 0 /\ flying' = [flying EXCEPT ![r] = @ - 1]
  /\ append(r, "crossing")
  /\ UNCHANGED << at, violation >>

\* The answer breaks off after its headers: no "end" and no "error".
CutOff(r) ==
  /\ server = "up" /\ flying[r] > 0 /\ flying' = [flying EXCEPT ![r] = @ - 1]
  /\ UNCHANGED << logVars, disk, server, at, violation >>

\* WarrantPlane.record, recordConcord and the kill switch.
Decide == append(NoRun, "decision") /\ UNCHANGED runVars

RunStep(r) ==
  \/ Refuse(r) \/ Admit(r) \/ Confine(r) \/ EndUnrecorded(r) \/ Inspect(r) \/ Contain(r) \/ Settle(r)
  \/ Forward(r) \/ NotLive(r) \/ Answered(r) \/ CutOff(r)

Next ==
  \/ \E r \in Runs : RunStep(r)
  \/ Decide \/ Write \/ WriteFails \/ Crash \/ initialize

Spec == Init /\ [][Next]_vars

\* appendFile is called at once when the one before it has settled.
FairSpec == Spec /\ WF_vars(Write)

-----------------------------------------------------------------------------
(* Properties of the log.                                                  *)

LogTypeOK ==
  /\ events \in Seq(Record) /\ queue \in Seq(Record) /\ file \in Seq(Record)
  /\ anchor \in Nat /\ head \in Nat
  /\ seqByRun \in [RunIds -> Nat \cup {-1}]
  /\ torn \in {"no", "yes"} /\ holed \in {"no", "yes"}
  /\ server \in {"up", "down", "broken"}
  /\ failed \subseteq Nat /\ IsFiniteSet(failed)
  /\ crashed \subseteq Nat /\ IsFiniteSet(crashed)
  /\ troubles \in 0 .. MaxTroubles

\* Type correctness of the log, its file and the runs.
TypeOK ==
  /\ LogTypeOK
  /\ at \in [Runs -> {"out", "live", "confined", "stopped", "contained", "over"}]
  /\ flying \in [Runs -> 0 .. MaxCalls]

\* AuditLog.verify: the index of the first bad record, or -1.
verify(evs, from) ==
  LET bad == {i \in DOMAIN evs : evs[i].prev # (IF i = 1 THEN from ELSE evs[i - 1].id)}
  IN  IF bad = {} THEN -1 ELSE Min(bad) - 1

(***************************************************************************)
(* The chain verifies over the retained window, whatever was pruned, and   *)
(* however often the server was restarted with records still unwritten;    *)
(* until an append has failed and memory was read from the file without    *)
(* it (AuditLog.prune, initialize, verify).                                *)
(***************************************************************************)
ChainVerifies == server = "up" /\ holed = "no" => verify(events, anchor) = -1

(***************************************************************************)
(* The numbers of a run's records tell their order and never repeat: not   *)
(* over a restart, and not where records between them were lost or pruned. *)
(***************************************************************************)
NumbersDoNotRepeat ==
  \A i, k \in DOMAIN events :
    i < k /\ events[i].run = events[k].run => events[i].seq < events[k].seq

\* The log is sound: linked, and in order for each run (audit.ts).
LogIsSound == ChainVerifies /\ NumbersDoNotRepeat

(***************************************************************************)
(* What is retained of a run tells its story: it starts with its           *)
(* admission, a run that G3 stopped has its denial before it is settled,   *)
(* it is settled once, and after that only answers arrive that were on     *)
(* their way (guarded-runner.ts catch and finish, broker.ts handle).       *)
(***************************************************************************)
RecordsTellTheRun ==
  \A r \in Runs :
    LET mine  == {i \in DOMAIN events : events[i].run = r}
        At(rules) == {i \in mine : events[i].rule \in rules}
    IN  /\ \A i \in mine : events[i].seq = 0 <=> events[i].rule \in {"admitted", "refused"}
        /\ \A i \in At({"refused"}) : mine = {i}
        /\ \A i \in At({"settled"}), k \in mine : k > i => events[k].rule = "crossing"
        /\ violation[r] # {} /\ At({"settled"}) # {} /\ At({"admitted"}) # {}
             => At({"denied"}) # {}

(***************************************************************************)
(* Every record reaches the file, unless its own append fails or the       *)
(* process ends first: a failure costs one record (append's catch).        *)
(***************************************************************************)
AuditCatchesUp ==
  \A n \in 1 .. MaxRecords :
    (n \in Ids(queue)) ~> (n \in Ids(file) \cup failed \/ server # "up")

(***************************************************************************)
(* aegis/routes.ts chainValid: "Returns the index of the first bad record" *)
(* (audit.ts verify) for the records of one run. Records of others between *)
(* them make an untouched log invalid.                                     *)
(***************************************************************************)
Of(r) == SelectSeq(events, LAMBDA e : e.run = r)

OneRunVerifies ==
  \A r \in Runs : holed = "no" /\ Of(r) # <<>> => verify(Of(r), Of(r)[1].prev) = -1

\* A crash does not keep the server from starting: aegis-audit.jsonl may end
\* in a part of a line, and initialize throws on it at every start.
StartsAgain == server # "broken"
=============================================================================
