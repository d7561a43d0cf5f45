--------------------------- MODULE ConcordPersist ---------------------------
(***************************************************************************)
(* How the CONCORD store keeps its documents on disk (persist, initialize  *)
(* and serialize of concord/store.ts).                                     *)
(*                                                                         *)
(* All documents share one file. An operation changes its document in      *)
(* memory, hands a snapshot of the whole store to persistQueue and holds   *)
(* the document's critical section until that snapshot is renamed over the *)
(* file. Operations on other documents go on meanwhile. A document is the  *)
(* number of changes made to it.                                           *)
(***************************************************************************)
EXTENDS Integers, Sequences

CONSTANTS
  Docs,
  Torn,        \* what a file holds that was opened for writing and not filled
  MaxChanges,  \* bound: changes of one document
  MaxFaults,   \* bound: failed file operations
  MaxRestarts  \* bound: crashes of the process

ASSUME PersistAssumption ==
  /\ MaxChanges \in Nat /\ MaxFaults \in Nat /\ MaxRestarts \in Nat
  /\ Torn \notin [Docs -> Nat]

VARIABLES
  memory,   \* the store's docs
  busy,     \* documents whose critical section awaits its persist
  queue,    \* persistQueue: the snapshots not yet on disk, oldest first
  stage,    \* what the operation at the head of the queue is doing
  tmp,      \* the file persistPath.tmp
  file,     \* the file persistPath
  acked,    \* per document, the newest change a caller was told succeeded
  seen,     \* per document, the newest state a reader was given
  faults, restarts

vars == << memory, busy, queue, stage, tmp, file, acked, seen, faults, restarts >>

State == [Docs -> Nat]
Job   == [doc : Docs, payload : State]

Init ==
  /\ memory = [d \in Docs |-> 0] /\ busy = {}
  /\ queue = <<>> /\ stage = "idle"
  /\ tmp = Torn /\ file = [d \in Docs |-> 0]
  /\ acked = [d \in Docs |-> 0] /\ seen = [d \in Docs |-> 0]
  /\ faults = 0 /\ restarts = 0

\* Mutant: the newest snapshot does not wait for the ones under way.
EnqueueFirst(job) == queue' = << job >> \o queue /\ stage' = "idle"

Enqueue(job) == queue' = Append(queue, job) /\ UNCHANGED stage

(***************************************************************************)
(* An operation that changes the document: a commit, a pending conflict, a *)
(* decision, or a read whose merge base moved. The snapshot is taken when  *)
(* persist is called, before anything is awaited.                          *)
(***************************************************************************)
Change(d) ==
  /\ d \notin busy
  /\ memory[d] < MaxChanges
  /\ memory' = [memory EXCEPT ![d] = @ + 1]
  /\ busy' = busy \cup {d}
  /\ Enqueue([doc |-> d, payload |-> memory'])
  /\ UNCHANGED << tmp, file, acked, seen, faults, restarts >>

\* A read whose merge base did not move: no persist.
Look(d) ==
  /\ d \notin busy
  /\ seen' = [seen EXCEPT ![d] = memory[d]]
  /\ UNCHANGED << memory, busy, queue, stage, tmp, file, acked, faults, restarts >>

-----------------------------------------------------------------------------
\* writeFile(temporaryPath): opened and truncated, then filled.
Open ==
  /\ queue # <<>> /\ stage = "idle"
  /\ stage' = "writing"
  /\ tmp' = Torn
  /\ UNCHANGED << memory, busy, queue, file, acked, seen, faults, restarts >>

Fill ==
  /\ stage = "writing"
  /\ stage' = "written"
  /\ tmp' = Head(queue).payload
  /\ UNCHANGED << memory, busy, queue, file, acked, seen, faults, restarts >>

\* The promise of the head settles: the next one starts, the section ends.
Settle ==
  /\ queue' = Tail(queue)
  /\ stage' = "idle"
  /\ busy' = busy \ {Head(queue).doc}

\* rename(temporaryPath, file)
Rename ==
  /\ stage = "written"
  /\ file' = tmp /\ tmp' = Torn
  /\ Settle
  /\ acked' = [acked EXCEPT ![Head(queue).doc] = Head(queue).payload[Head(queue).doc]]
  /\ UNCHANGED << memory, seen, faults, restarts >>

\* Mutant: the queue goes on from the rejected promise itself.
FailStalls ==
  /\ stage \in {"writing", "written"}
  /\ faults < MaxFaults
  /\ faults' = faults + 1
  /\ stage' = "stalled"
  /\ UNCHANGED << memory, busy, queue, tmp, file, acked, seen, restarts >>

\* Mutant: persist returns the queue, whose errors are caught, to its caller.
FailAcks ==
  /\ stage \in {"writing", "written"}
  /\ faults < MaxFaults
  /\ faults' = faults + 1
  /\ Settle
  /\ acked' = [acked EXCEPT ![Head(queue).doc] = Head(queue).payload[Head(queue).doc]]
  /\ UNCHANGED << memory, tmp, file, seen, restarts >>

\* writeFile or rename rejects: the caller gets the error. The change stays
\* in memory, and the catch of persistQueue lets the next snapshot start.
Fail ==
  /\ stage \in {"writing", "written"}
  /\ faults < MaxFaults
  /\ faults' = faults + 1
  /\ Settle
  /\ UNCHANGED << memory, tmp, file, acked, seen, restarts >>

\* The process dies; initialize reads the file back.
Restart ==
  /\ restarts < MaxRestarts
  /\ restarts' = restarts + 1
  /\ memory' = file
  /\ busy' = {} /\ queue' = <<>> /\ stage' = "idle"
  /\ UNCHANGED << tmp, file, acked, seen, faults >>

Next ==
  \/ \E d \in Docs : Change(d) \/ Look(d)
  \/ Open \/ Fill \/ Rename \/ Fail
  \/ Restart

Spec == Init /\ [][Next]_vars

\* File operations that were started end, one way or the other.
FairSpec == Spec /\ WF_vars(Open \/ Fill \/ Rename \/ Fail)

-----------------------------------------------------------------------------
(***************************************************************************)
(* Type invariant. Its part that is more than a type: the file initialize  *)
(* parses is a whole snapshot at every moment the process can die.         *)
(***************************************************************************)
TypeOK ==
  /\ memory \in State /\ file \in State /\ acked \in State /\ seen \in State
  /\ busy \subseteq Docs
  /\ queue \in Seq(Job)
  /\ stage \in {"idle", "writing", "written"}
  /\ stage # "idle" => queue # <<>>
  /\ tmp \in State \cup {Torn}
  /\ faults \in Nat /\ restarts \in Nat

(***************************************************************************)
(* What a caller was told is done is on disk: no crash and no failed file  *)
(* operation takes it back (persist is awaited before the reply).          *)
(***************************************************************************)
AckedIsDurable == \A d \in Docs : acked[d] <= file[d]

(***************************************************************************)
(* The file never goes back to an older state of any document, although    *)
(* every snapshot holds all of them and the operations of different        *)
(* documents overlap (persist, persistQueue).                              *)
(***************************************************************************)
FileNeverGoesBack == [][\A d \in Docs : file[d] <= file'[d]]_vars

(***************************************************************************)
(* As long as no file operation failed, a state that a reader was given    *)
(* survives a crash; otherwise the version the reader states in its next   *)
(* write could be a different text (read, serialize). After a failed       *)
(* persist it does not hold: the change stays visible in memory.           *)
(***************************************************************************)
ReadsAreDurable == faults = 0 => \A d \in Docs : seen[d] <= file[d]

(***************************************************************************)
(* A failed persist stalls neither the document's chain nor the queue that *)
(* all documents share (the catch of persistQueue, serialize).             *)
(***************************************************************************)
SectionsEnd == \A d \in Docs : d \in busy ~> d \notin busy
=============================================================================
