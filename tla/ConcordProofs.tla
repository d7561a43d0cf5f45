--------------------------- MODULE ConcordProofs ---------------------------
(***************************************************************************)
(* Proofs about ConcordPersist, for every set of documents and any number  *)
(* of changes, failures and crashes; and about Merge, Sections and         *)
(* Provenance, for texts of any length: what the diff and the merge of     *)
(* three texts are, whom the blame of a merge names, and that the owners   *)
(* of two sections do not collide.                                         *)
(***************************************************************************)
EXTENDS ConcordPersist, MCMerge, SequenceTheorems, FiniteSetTheorems,
        NaturalsInduction, WellFoundedInduction, TLAPS

\* No document is older in t than in s.
Upto(s, t) == \A d \in Docs : s[d] <= t[d]

(***************************************************************************)
(* Along the way from memory to disk a snapshot meets only newer ones: the *)
(* file, the queue in its order, and memory are ordered. A job is in the   *)
(* queue exactly while its document's section is held, and it holds that   *)
(* document as it is in memory.                                            *)
(***************************************************************************)
Ordered ==
  /\ \A i \in 1 .. Len(queue) : Upto(file, queue[i].payload) /\ Upto(queue[i].payload, memory)
  /\ \A i, j \in 1 .. Len(queue) : i <= j => Upto(queue[i].payload, queue[j].payload)
  /\ Upto(file, memory)
  /\ stage = "written" => tmp = Head(queue).payload

Held ==
  /\ \A i, j \in 1 .. Len(queue) : i # j => queue[i].doc # queue[j].doc
  /\ \A i \in 1 .. Len(queue) : /\ queue[i].doc \in busy
                                /\ queue[i].payload[queue[i].doc] = memory[queue[i].doc]

\* Until a file operation fails, a document whose section is free is on disk
\* as it is in memory, and what was seen is not ahead of memory.
Saved ==
  faults = 0 => /\ \A d \in Docs \ busy : memory[d] = file[d]
                /\ \A d \in Docs : seen[d] <= file[d]

IInv == TypeOK /\ Ordered /\ Held /\ AckedIsDurable /\ Saved

\* What is left of the queue when its head is done.
LEMMA TailOfQueue ==
  ASSUME TypeOK, queue # <<>>
  PROVE  /\ Head(queue) \in Job /\ Head(queue) = queue[1] /\ 1 \in 1 .. Len(queue)
         /\ Tail(queue) \in Seq(Job)
         /\ \A i \in 1 .. Len(Tail(queue)) :
               i + 1 \in 1 .. Len(queue) /\ Tail(queue)[i] = queue[i + 1]
<1>1. queue \in Seq(Job) /\ Len(queue) \in Nat
  BY LenProperties DEF TypeOK
<1>2. Len(queue) # 0
  BY <1>1, EmptySeq
<1>3. Head(queue) \in Job /\ Tail(queue) \in Seq(Job) /\ Len(Tail(queue)) = Len(queue) - 1
  BY <1>1, HeadTailProperties
<1>4. \A i \in 1 .. Len(Tail(queue)) : Tail(queue)[i] = queue[i + 1]
  BY <1>1, HeadTailProperties
<1>5. Head(queue) = queue[1]
  OBVIOUS
<1>. QED
  BY <1>1, <1>2, <1>3, <1>4, <1>5

LEMMA InitIInv == Init => IInv
<1>. SUFFICES ASSUME Init PROVE IInv
  OBVIOUS
<1>1. queue = <<>> /\ Len(queue) = 0 /\ queue \in Seq(Job)
  BY DEF Init
<1>2. TypeOK
  BY <1>1 DEF Init, TypeOK, State
<1>. QED
  BY <1>1, <1>2 DEF Init, IInv, Ordered, Held, AckedIsDurable, Saved, Upto

LEMMA NextTypeOK == TypeOK /\ Ordered /\ [Next]_vars => TypeOK'
<1>. SUFFICES ASSUME TypeOK, Ordered, [Next]_vars PROVE TypeOK'
  OBVIOUS
<1>1. ASSUME NEW d \in Docs, Change(d) PROVE TypeOK'
  <2>1. memory' \in State
    BY <1>1 DEF Change, TypeOK, State
  <2>2. [doc |-> d, payload |-> memory'] \in Job
    BY <2>1 DEF Job
  <2>3. queue' \in Seq(Job) /\ queue' # <<>>
    BY <1>1, <2>2, AppendProperties DEF Change, Enqueue, TypeOK
  <2>. QED
    BY <1>1, <2>1, <2>3 DEF Change, Enqueue, TypeOK
<1>2. ASSUME NEW d \in Docs, Look(d) PROVE TypeOK'
  BY <1>2 DEF Look, TypeOK, State
<1>3. CASE Open
  BY <1>3 DEF Open, TypeOK
<1>4. CASE Fill
  <2>1. Head(queue).payload \in State
    BY <1>4, TailOfQueue DEF Fill, TypeOK, Job
  <2>. QED
    BY <1>4, <2>1 DEF Fill, TypeOK
<1>5. CASE Rename
  <2>1. queue # <<>> /\ tmp = Head(queue).payload
    BY <1>5 DEF Rename, TypeOK, Ordered
  <2>2. Head(queue).doc \in Docs /\ Head(queue).payload \in State /\ Tail(queue) \in Seq(Job)
    BY <2>1, TailOfQueue DEF Job
  <2>3. acked' \in State
    BY <1>5, <2>2 DEF Rename, TypeOK, State
  <2>. QED
    BY <1>5, <2>1, <2>2, <2>3 DEF Rename, Settle, TypeOK
<1>6. CASE Fail
  <2>1. Tail(queue) \in Seq(Job)
    BY <1>6, TailOfQueue DEF Fail, TypeOK
  <2>. QED
    BY <1>6, <2>1 DEF Fail, Settle, TypeOK
<1>7. CASE Restart
  BY <1>7 DEF Restart, TypeOK
<1>8. CASE UNCHANGED vars
  BY <1>8 DEF vars, TypeOK
<1>. QED
  BY <1>1, <1>2, <1>3, <1>4, <1>5, <1>6, <1>7, <1>8 DEF Next

LEMMA NextIInv == IInv /\ [Next]_vars => IInv' /\ Upto(file, file')
<1>. SUFFICES ASSUME IInv, [Next]_vars PROVE IInv' /\ Upto(file, file')
  OBVIOUS
<1>1. TypeOK /\ Ordered /\ Held /\ AckedIsDurable /\ Saved /\ TypeOK'
  BY NextTypeOK DEF IInv
<1>. /\ memory \in [Docs -> Nat] /\ file \in [Docs -> Nat]
     /\ acked \in [Docs -> Nat] /\ seen \in [Docs -> Nat]
  BY <1>1 DEF TypeOK, State
<1>2. Upto(file, file)
  BY DEF Upto
<1>3. ASSUME NEW d \in Docs, Change(d) PROVE IInv' /\ Upto(file, file')
  <2>. DEFINE job == [doc |-> d, payload |-> memory']
  <2>1. /\ d \notin busy /\ memory' = [memory EXCEPT ![d] = @ + 1] /\ busy' = busy \cup {d}
        /\ queue' = Append(queue, job)
        /\ UNCHANGED << stage, tmp, file, acked, seen, faults >>
    BY <1>3 DEF Change, Enqueue
  <2>2. job.doc = d /\ job.payload = memory' /\ job \in Job
    BY <1>1 DEF TypeOK, Job
  <2>3. Upto(memory, memory') /\ memory' \in [Docs -> Nat]
    BY <2>1 DEF Upto
  <2>. HIDE DEF job
  <2>4. /\ Len(queue) \in Nat /\ Len(queue') = Len(queue) + 1
        /\ queue'[Len(queue) + 1] = job
        /\ \A i \in 1 .. Len(queue) : queue'[i] = queue[i]
    BY <1>1, <2>1, <2>2, AppendProperties, LenProperties DEF TypeOK
  <2>5. \A i \in 1 .. Len(queue) : queue[i] \in Job /\ queue[i].payload \in [Docs -> Nat]
    <3>1. \A i \in 1 .. Len(queue) : queue[i] \in Job
      BY <1>1, ElementOfSeq DEF TypeOK
    <3>. QED
      BY <3>1 DEF Job, State
  <2>6. \A i \in 1 .. Len(queue) : Upto(queue[i].payload, memory')
    BY <1>1, <2>3, <2>5, SMTT(40) DEF Ordered, Upto
  <2>7. Upto(file, memory')
    BY <1>1, <2>3 DEF Ordered, Upto
  <2>8. Upto(memory', memory')
    BY <2>3 DEF Upto
  <2>9. stage' = "written" => tmp' = Head(queue').payload
    <3>. SUFFICES ASSUME stage = "written" PROVE tmp = Head(queue').payload
      BY <2>1
    <3>1. queue # <<>> /\ tmp = Head(queue).payload
      BY <1>1 DEF TypeOK, Ordered
    <3>2. Head(queue) = queue[1] /\ 1 \in 1 .. Len(queue)
      BY <1>1, <3>1, TailOfQueue
    <3>3. Head(queue') = queue'[1]
      OBVIOUS
    <3>. QED
      BY <2>4, <3>1, <3>2, <3>3
  <2>10. Ordered'
    <3>1. \A i \in 1 .. Len(queue') : i \in 1 .. Len(queue) \/ i = Len(queue) + 1
      BY <2>4
    <3>2. \A i \in 1 .. Len(queue') :
            Upto(file, queue'[i].payload) /\ Upto(queue'[i].payload, memory')
      BY <1>1, <2>2, <2>4, <2>6, <2>7, <2>8, <3>1 DEF Ordered
    <3>3. ASSUME NEW i \in 1 .. Len(queue'), NEW j \in 1 .. Len(queue'), i <= j
          PROVE  Upto(queue'[i].payload, queue'[j].payload)
      <4>1. CASE j = Len(queue) + 1
        BY <2>2, <2>4, <3>2, <4>1
      <4>2. CASE j \in 1 .. Len(queue)
        <5>1. i \in 1 .. Len(queue)
          BY <2>4, <3>3, <4>2
        <5>. QED
          BY <1>1, <2>4, <3>3, <4>2, <5>1 DEF Ordered
      <4>. QED
        BY <3>1, <4>1, <4>2
    <3>. QED
      BY <2>1, <2>7, <2>9, <3>2, <3>3 DEF Ordered, Upto
  <2>11. Held'
    <3>1. \A i \in 1 .. Len(queue) : queue[i].doc \in Docs /\ queue[i].doc # d
      BY <1>1, <2>1, <2>5 DEF Held, Job
    <3>2. \A i \in 1 .. Len(queue) : memory'[queue[i].doc] = memory[queue[i].doc]
      BY <2>1, <3>1
    <3>3. \A i \in 1 .. Len(queue') : i \in 1 .. Len(queue) \/ i = Len(queue) + 1
      BY <2>4
    <3>4. \A i, j \in 1 .. Len(queue') : i # j => queue'[i].doc # queue'[j].doc
      BY <1>1, <2>2, <2>4, <3>1, <3>3, SMTT(40) DEF Held
    <3>5. \A i \in 1 .. Len(queue') : /\ queue'[i].doc \in busy'
                                     /\ queue'[i].payload[queue'[i].doc] = memory'[queue'[i].doc]
      <4>. SUFFICES ASSUME NEW i \in 1 .. Len(queue')
                    PROVE  /\ queue'[i].doc \in busy'
                           /\ queue'[i].payload[queue'[i].doc] = memory'[queue'[i].doc]
        OBVIOUS
      <4>1. CASE i \in 1 .. Len(queue)
        BY <1>1, <2>1, <2>4, <3>2, <4>1 DEF Held
      <4>2. CASE i = Len(queue) + 1
        BY <2>1, <2>2, <2>4, <4>2
      <4>. QED
        BY <3>3, <4>1, <4>2
    <3>. QED
      BY <3>4, <3>5 DEF Held
  <2>12. AckedIsDurable' /\ Saved'
    BY <1>1, <2>1 DEF AckedIsDurable, Saved
  <2>. QED
    BY <1>1, <1>2, <2>1, <2>10, <2>11, <2>12 DEF IInv
<1>4. ASSUME NEW d \in Docs, Look(d) PROVE IInv' /\ Upto(file, file')
  <2>1. Saved'
    BY <1>1, <1>4 DEF Look, Saved
  <2>. QED
    BY <1>1, <1>2, <1>4, <2>1 DEF Look, IInv, Ordered, Held, AckedIsDurable, Upto
<1>5. CASE Open \/ Fill
  <2>1. UNCHANGED << memory, busy, queue, file, acked, seen, faults >>
    BY <1>5 DEF Open, Fill
  <2>2. stage' = "written" => tmp' = Head(queue').payload
    BY <1>5 DEF Open, Fill
  <2>3. Ordered'
    BY <1>1, <2>1, <2>2 DEF Ordered, Upto
  <2>. QED
    BY <1>1, <1>2, <2>1, <2>3 DEF IInv, Held, AckedIsDurable, Saved
\* The head of the queue is done: what is behind it stays in order.
<1>6. ASSUME Settle, queue # <<>>, UNCHANGED memory, Upto(file, file'),
             file' = file \/ file' = Head(queue).payload
      PROVE  Ordered' /\ Held'
  <2>1. /\ Head(queue) = queue[1] /\ 1 \in 1 .. Len(queue)
        /\ \A i \in 1 .. Len(queue') :
              i + 1 \in 1 .. Len(queue) /\ queue'[i] = queue[i + 1] /\ 1 <= i + 1
    BY <1>1, <1>6, TailOfQueue DEF Settle
  <2>2. \A i \in 1 .. Len(queue') : Upto(file', queue'[i].payload)
    BY <1>1, <1>6, <2>1 DEF Ordered
  <2>3. Upto(file', memory')
    BY <1>1, <1>6, <2>1 DEF Ordered
  <2>4. stage' # "written"
    BY <1>6 DEF Settle
  <2>5. \A i \in 1 .. Len(queue') : Upto(queue'[i].payload, memory')
    BY <1>1, <1>6, <2>1 DEF Ordered
  <2>6. \A i, j \in 1 .. Len(queue') : i <= j => Upto(queue'[i].payload, queue'[j].payload)
    <3>. SUFFICES ASSUME NEW i \in 1 .. Len(queue'), NEW j \in 1 .. Len(queue'), i <= j
                  PROVE  Upto(queue'[i].payload, queue'[j].payload)
      OBVIOUS
    <3>1. i + 1 <= j + 1
      OBVIOUS
    <3>. QED
      BY <1>1, <2>1, <3>1 DEF Ordered
  <2>7. Ordered'
    BY <2>2, <2>3, <2>4, <2>5, <2>6 DEF Ordered, Upto
  <2>8. Held'
    <3>1. \A i \in 1 .. Len(queue') : queue[i + 1].doc # Head(queue).doc
      BY <1>1, <2>1 DEF Held
    <3>. QED
      BY <1>1, <1>6, <2>1, <3>1 DEF Held, Settle
  <2>. QED
    BY <2>7, <2>8
<1>7. CASE Rename
  <2>. DEFINE doc == Head(queue).doc
              payload == Head(queue).payload
  <2>1. /\ queue # <<>> /\ Settle /\ file' = payload
        /\ acked' = [acked EXCEPT ![doc] = payload[doc]]
        /\ busy' = busy \ {doc} /\ UNCHANGED << memory, seen, faults >>
    BY <1>1, <1>7 DEF Rename, Settle, TypeOK, Ordered
  <2>2. /\ doc \in Docs /\ payload \in [Docs -> Nat]
        /\ Upto(file, payload) /\ Upto(payload, memory) /\ payload[doc] = memory[doc]
    BY <1>1, <2>1, TailOfQueue DEF Job, State, Ordered, Held
  <2>3. Ordered' /\ Held'
    <3>1. file' = Head(queue).payload /\ Settle /\ queue # <<>> /\ memory' = memory
      BY <2>1
    <3>2. Upto(file, file')
      BY <2>1, <2>2 DEF Upto
    <3>. QED
      BY <1>6, <3>1, <3>2
  <2>. HIDE DEF doc, payload
  <2>4. AckedIsDurable'
    <3>. SUFFICES ASSUME NEW d \in Docs PROVE acked'[d] <= payload[d]
      BY <2>1 DEF AckedIsDurable
    <3>1. acked'[d] = IF d = doc THEN payload[d] ELSE acked[d]
      BY <2>1
    <3>2. acked[d] <= file[d] /\ file[d] <= payload[d]
      BY <1>1, <2>2 DEF AckedIsDurable, Upto
    <3>3. acked[d] \in Nat /\ file[d] \in Nat /\ payload[d] \in Nat
      BY <2>2
    <3>. QED
      BY <3>1, <3>2, <3>3
  <2>5. Saved'
    <3>. SUFFICES ASSUME faults = 0
                  PROVE  /\ \A d \in Docs \ busy' : memory[d] = payload[d]
                         /\ \A d \in Docs : seen[d] <= payload[d]
      BY <2>1 DEF Saved
    <3>1. ASSUME NEW d \in Docs \ busy' PROVE memory[d] = payload[d]
      <4>1. CASE d = doc
        BY <2>2, <4>1
      <4>2. CASE d # doc
        <5>1. d \in Docs \ busy /\ memory[d] \in Nat /\ payload[d] \in Nat
          BY <2>1, <2>2, <4>2
        <5>2. memory[d] = file[d] /\ file[d] <= payload[d] /\ payload[d] <= memory[d]
          BY <1>1, <2>2, <5>1 DEF Saved, Upto
        <5>. QED
          BY <5>1, <5>2
      <4>. QED
        BY <4>1, <4>2
    <3>2. ASSUME NEW d \in Docs PROVE seen[d] <= payload[d]
      BY <1>1, <2>2 DEF Saved, Upto
    <3>. QED
      BY <3>1, <3>2
  <2>. QED
    BY <1>1, <2>1, <2>2, <2>3, <2>4, <2>5 DEF IInv
<1>8. CASE Fail
  <2>1. /\ queue # <<>> /\ Settle /\ UNCHANGED << memory, file, acked, seen >>
        /\ faults' = faults + 1
    BY <1>1, <1>8 DEF Fail, TypeOK
  <2>2. Ordered' /\ Held'
    BY <1>2, <1>6, <2>1
  <2>3. Saved'
    BY <1>1, <2>1 DEF Saved, TypeOK
  <2>. QED
    BY <1>1, <1>2, <2>1, <2>2, <2>3 DEF IInv, AckedIsDurable
<1>9. CASE Restart
  <2>1. /\ memory' = file /\ busy' = {} /\ queue' = <<>> /\ stage' = "idle"
        /\ UNCHANGED << file, acked, seen, faults >>
    BY <1>9 DEF Restart
  <2>2. Len(queue') = 0
    BY <2>1
  <2>. QED
    BY <1>1, <1>2, <2>1, <2>2 DEF IInv, Ordered, Held, AckedIsDurable, Saved, Upto
<1>10. CASE UNCHANGED vars
  BY <1>1, <1>2, <1>10 DEF vars, IInv, Ordered, Held, AckedIsDurable, Saved, Upto
<1>. QED
  BY <1>3, <1>4, <1>5, <1>7, <1>8, <1>9, <1>10 DEF Next

(***************************************************************************)
(* What a caller was told is done is on disk, through failed file          *)
(* operations and crashes (persist, initialize).                           *)
(***************************************************************************)
THEOREM AckedSurvives == Spec => []AckedIsDurable
<1>1. IInv => AckedIsDurable
  BY DEF IInv
<1>. QED
  BY <1>1, InitIInv, NextIInv, PTL DEF Spec

(***************************************************************************)
(* Until a file operation fails, what a reader was given is on disk        *)
(* (read waits for its turn in the document's chain).                      *)
(***************************************************************************)
THEOREM SeenSurvives == Spec => []ReadsAreDurable
<1>1. IInv => ReadsAreDurable
  BY DEF IInv, Saved, ReadsAreDurable
<1>. QED
  BY <1>1, InitIInv, NextIInv, PTL DEF Spec

(***************************************************************************)
(* The file only ever moves forward (persistQueue, rename).                *)
(***************************************************************************)
THEOREM FileMovesForward == Spec => FileNeverGoesBack
<1>1. IInv /\ [Next]_vars => [\A d \in Docs : file[d] <= file'[d]]_vars
  BY NextIInv DEF Upto
<1>. QED
  BY <1>1, InitIInv, NextIInv, PTL DEF Spec, FileNeverGoesBack

-----------------------------------------------------------------------------
(***************************************************************************)
(* Merge. The texts are sequences, and what diffLines and ApplyHunks       *)
(* compute follows the texts' lines: a proof by induction is a set of      *)
(* numbers that holds 0 and the successor of each of its members.          *)
(***************************************************************************)

LEMMA Induction ==
  ASSUME NEW N, 0 \in N, \A n \in Nat : n \in N => n + 1 \in N
  PROVE  Nat \subseteq N
<1> DEFINE T == Nat \ N
<1> SUFFICES ASSUME T # {} PROVE FALSE
  OBVIOUS
<1>1. IsWellFoundedOn({q \in Nat \X Nat : q[1] < q[2]}, Nat)
  BY NatLessThanWellFounded DEF OpToRel
<1>2. \E t \in T : \A u \in T : ~(<< u, t >> \in {q \in Nat \X Nat : q[1] < q[2]})
  <2>1. T \subseteq Nat /\ T # {}
    OBVIOUS
  <2> HIDE DEF T
  <2> QED BY ONLY <2>1, <1>1, WFMin
<1>3. PICK t \in T : \A u \in T : ~(u < t)
  BY <1>2
<1>4. t # 0 /\ t \in Nat
  BY <1>3
<1>5. t - 1 \in Nat /\ t - 1 \notin T
  BY <1>3, <1>4
<1>6. t - 1 \in N /\ (t - 1) + 1 = t
  BY <1>4, <1>5
<1>7. t \in N
  BY <1>5, <1>6
<1> QED BY <1>3, <1>7

-----------------------------------------------------------------------------
(* FlattenSeq, from the left as it is defined and from the right. *)

\* v[i] is what the first i sequences of s are, one after the other.
Runs(v, s) == v[0] = <<>> /\ \A i \in 1 .. Len(s) : v[i] = v[i - 1] \o s[i]

LEMMA FlattenIs ==
  ASSUME NEW X, NEW s \in Seq(Seq(X))
  PROVE  \E v : /\ Runs(v, s)
                /\ FlattenSeq(s) = v[Len(s)]
                /\ \A i \in 0 .. Len(s) : v[i] \in Seq(X)
<1> DEFINE n == Len(s)
           Val(f, i) == IF i = 1 THEN s[i] ELSE f[i - 1] \o s[i]
           N == {k \in Nat : k <= n => \E f : f = [i \in 1 .. k |-> Val(f, i)]}
<1>1. n \in Nat /\ \A i \in 1 .. n : s[i] \in Seq(X)
  BY LenProperties, ElementOfSeq
<1>2. 0 \in N
  <2> DEFINE f == [i \in 1 .. 0 |-> <<>>]
  <2>1. f = [i \in 1 .. 0 |-> Val(f, i)]
    OBVIOUS
  <2> HIDE DEF f, Val
  <2> QED BY <2>1
<1>3. ASSUME NEW k \in Nat, k \in N PROVE k + 1 \in N
  <2> SUFFICES ASSUME k + 1 <= n PROVE \E f : f = [i \in 1 .. k + 1 |-> Val(f, i)]
    <3> HIDE DEF Val
    <3> QED BY DEF N
  <2>1. PICK f : f = [i \in 1 .. k |-> Val(f, i)]
    <3> HIDE DEF Val
    <3> QED BY <1>1, <1>3
  <2> DEFINE g == [i \in 1 .. k + 1 |-> Val(f, i)]
  <2>2. \A i \in 1 .. k : g[i] = f[i]
    <3> HIDE DEF Val
    <3> QED BY <2>1
  <2>3. \A i \in 1 .. k + 1 : Val(f, i) = Val(g, i)
    <3> HIDE DEF g
    <3>1. \A i \in 1 .. k + 1 : i # 1 => i - 1 \in 1 .. k
      OBVIOUS
    <3> QED BY <2>2, <3>1
  <2>4. g = [i \in 1 .. k + 1 |-> Val(g, i)]
    <3> HIDE DEF Val
    <3> QED BY <2>3
  <2> HIDE DEF g, Val
  <2> QED BY <2>4
<1>4. n \in N
  <2> HIDE DEF N
  <2> QED BY <1>1, <1>2, <1>3, Induction
<1> DEFINE flatten == CHOOSE f : f = [i \in 1 .. n |-> Val(f, i)]
<1>5. flatten = [i \in 1 .. n |-> Val(flatten, i)]
  <2>1. \E f : f = [i \in 1 .. n |-> Val(f, i)]
    <3> HIDE DEF Val
    <3> QED BY <1>1, <1>4
  <2> HIDE DEF Val
  <2> QED BY <2>1
<1>6. FlattenSeq(s) = IF n = 0 THEN s ELSE flatten[n]
  BY DEF FlattenSeq
<1> HIDE DEF flatten, n
<1> DEFINE v == [i \in 0 .. n |-> IF i = 0 THEN <<>> ELSE flatten[i]]
<1>7. ASSUME NEW i \in 1 .. n PROVE v[i] = v[i - 1] \o s[i]
  <2>1. v[i] = Val(flatten, i)
    <3> HIDE DEF Val
    <3> QED BY <1>1, <1>5
  <2>2. CASE i = 1
    <3>1. v[i - 1] = <<>> /\ s[i] \in Seq(X)
      BY <1>1, <2>2
    <3>2. <<>> \o s[i] = s[i]
      BY <3>1, ConcatEmptySeq
    <3> QED BY <2>1, <2>2, <3>1, <3>2
  <2>3. CASE i # 1
    <3>1. i - 1 \in 0 .. n /\ i - 1 # 0
      BY <1>1, <2>3
    <3> QED BY <2>1, <2>3, <3>1
  <2> QED BY <2>2, <2>3
<1>8. v[0] = <<>>
  BY <1>1
<1> DEFINE M == {i \in Nat : i <= n => v[i] \in Seq(X)}
<1>9. 0 \in M
  BY <1>8
<1> HIDE DEF v
<1>10. ASSUME NEW i \in Nat, i \in M PROVE i + 1 \in M
  <2> SUFFICES ASSUME i + 1 <= n PROVE v[i + 1] \in Seq(X)
    OBVIOUS
  <2>1. i + 1 \in 1 .. n /\ (i + 1) - 1 = i /\ i <= n
    BY <1>1
  <2>2. v[i] \in Seq(X) /\ s[i + 1] \in Seq(X)
    BY <1>1, <1>10, <2>1
  <2>3. v[i + 1] = v[i] \o s[i + 1]
    BY <1>7, <2>1
  <2> QED BY <2>2, <2>3, ConcatProperties
<1>11. \A i \in 0 .. n : v[i] \in Seq(X)
  <2>1. Nat \subseteq M
    <3> HIDE DEF M
    <3> QED BY <1>9, <1>10, Induction
  <2> QED BY <1>1, <2>1
<1>12. FlattenSeq(s) = v[n]
  <2>1. n = 0 => s = <<>>
    BY EmptySeq, LenProperties DEF n
  <2>2. n # 0 => v[n] = flatten[n]
    BY <1>1 DEF v
  <2> QED BY <1>6, <1>8, <2>1, <2>2
<1> QED BY <1>7, <1>8, <1>11, <1>12 DEF Runs, n

\* v starts with x and goes on as w does.
Shifted(X, n, x, t, v, w) ==
  /\ n \in Nat /\ x \in Seq(X) /\ v[1] = x /\ w[0] = <<>>
  /\ \A i \in 1 .. n : /\ t[i] \in Seq(X) /\ w[i] \in Seq(X)
                       /\ w[i] = w[i - 1] \o t[i]
                       /\ v[i + 1] = v[i] \o t[i]

LEMMA RunsShift ==
  ASSUME NEW X, NEW n, NEW x, NEW t, NEW v, NEW w, Shifted(X, n, x, t, v, w)
  PROVE  v[n + 1] = x \o w[n]
<1>0. /\ n \in Nat /\ x \in Seq(X) /\ v[1] = x /\ w[0] = <<>>
      /\ \A i \in 1 .. n : /\ t[i] \in Seq(X) /\ w[i] \in Seq(X)
                           /\ w[i] = w[i - 1] \o t[i]
                           /\ v[i + 1] = v[i] \o t[i]
  BY DEF Shifted
<1> DEFINE N == {i \in Nat : i <= n => v[i + 1] = x \o w[i]}
<1>1. 0 \in N
  <2>1. x \o <<>> = x
    BY <1>0, ConcatEmptySeq
  <2> QED BY <1>0, <2>1
<1>2. ASSUME NEW i \in Nat, i \in N PROVE i + 1 \in N
  <2>0. SUFFICES ASSUME i + 1 <= n PROVE v[(i + 1) + 1] = x \o w[i + 1]
    BY DEF N
  <2> DEFINE a == w[i]
             b == t[i + 1]
  <2>1. i + 1 \in 1 .. n /\ (i + 1) - 1 = i /\ i <= n
    BY <1>0, <2>0
  <2>2. w[i + 1] = a \o b /\ v[(i + 1) + 1] = v[i + 1] \o b /\ b \in Seq(X)
    BY <1>0, <2>1
  <2>3. a \in Seq(X)
    <3>1. i = 0 \/ i \in 1 .. n
      BY <1>0, <2>1
    <3>2. <<>> \in Seq(X)
      OBVIOUS
    <3> QED BY <1>0, <3>1, <3>2
  <2>4. v[i + 1] = x \o a
    BY <1>2, <2>1
  <2> HIDE DEF a, b
  <2>5. (x \o a) \o b = x \o (a \o b)
    <3>1. x \in Seq(X) /\ a \in Seq(X) /\ b \in Seq(X)
      BY <1>0, <2>2, <2>3
    <3> QED BY ONLY <3>1, ConcatAssociative, SMTT(30)
  <2> QED BY <2>2, <2>4, <2>5
<1>3. n \in N
  <2> HIDE DEF N
  <2> QED BY <1>0, <1>1, <1>2, Induction
<1> QED BY <1>3

LEMMA FlattenFirst ==
  ASSUME NEW X, NEW s \in Seq(Seq(X)), NEW t \in Seq(Seq(X)), Len(s) = Len(t) + 1,
         \A i \in 1 .. Len(t) : t[i] = s[i + 1]
  PROVE  FlattenSeq(s) = s[1] \o FlattenSeq(t) /\ FlattenSeq(t) \in Seq(X)
<1> DEFINE n == Len(t)
<1>1. n \in Nat /\ Len(s) = n + 1 /\ \A i \in 1 .. n + 1 : s[i] \in Seq(X)
  BY LenProperties, ElementOfSeq
<1>2. \A i \in 1 .. n : t[i] = s[i + 1] /\ t[i] \in Seq(X)
  BY ElementOfSeq
<1>3. PICK v : Runs(v, s) /\ FlattenSeq(s) = v[n + 1]
  BY <1>1, FlattenIs
<1>4. PICK w : Runs(w, t) /\ FlattenSeq(t) = w[n] /\ \A i \in 0 .. n : w[i] \in Seq(X)
  BY FlattenIs
<1>5. /\ v[0] = <<>> /\ \A i \in 1 .. n + 1 : v[i] = v[i - 1] \o s[i]
      /\ w[0] = <<>> /\ \A i \in 1 .. n : w[i] = w[i - 1] \o t[i]
  BY <1>1, <1>3, <1>4 DEF Runs
<1> DEFINE x == s[1]
<1> HIDE DEF n
<1>6. x \in Seq(X) /\ v[1] = x
  <2>1. 1 \in 1 .. n + 1 /\ 1 - 1 = 0
    BY <1>1
  <2>2. x \in Seq(X) /\ v[1] = <<>> \o x
    BY <1>1, <1>5, <2>1
  <2> HIDE DEF x
  <2> QED BY <2>2, ConcatEmptySeq
<1>7. \A i \in 1 .. n : v[i + 1] = v[i] \o t[i]
  <2> SUFFICES ASSUME NEW i \in 1 .. n PROVE v[i + 1] = v[i] \o t[i]
    OBVIOUS
  <2>1. i + 1 \in 1 .. n + 1 /\ (i + 1) - 1 = i
    BY <1>1
  <2> QED BY <1>2, <1>5, <2>1
<1>8. \A i \in 1 .. n : w[i] \in Seq(X)
  <2>1. \A i \in 1 .. n : i \in 0 .. n
    BY <1>1
  <2> QED BY <1>4, <2>1
<1> HIDE DEF x
<1>9. v[n + 1] = x \o w[n]
  <2>1. Shifted(X, n, x, t, v, w)
    BY ONLY <1>1, <1>2, <1>5, <1>6, <1>7, <1>8 DEF Shifted
  <2> QED BY ONLY <2>1, RunsShift
<1>10. n \in 0 .. n
  BY <1>1
<1> QED BY <1>3, <1>4, <1>9, <1>10 DEF x

-----------------------------------------------------------------------------
(* Slots: what stands for a line of the base in a merge. *)

Hunk == [start : Nat, deleted : Nat, inserted : Seq(Line)]

\* What hunks put before the line after p, whether one deletes that line, and
\* what is left of it.
Ins(hunks, p) ==
  IF {h \in hunks : h.start = p} = {} THEN <<>>
  ELSE (CHOOSE h \in {h \in hunks : h.start = p} : TRUE).inserted

Gone(hunks, p) == \E h \in hunks : h.start <= p /\ p < h.start + h.deleted

Kept(lines, hunks, p) ==
  IF p < Len(lines) /\ ~Gone(hunks, p) THEN << lines[p + 1] >> ELSE <<>>

Slot(lines, hunks, p) == Ins(hunks, p) \o Kept(lines, hunks, p)

Slots(lines, hunks, p) == [q \in 1 .. Len(lines) + 1 - p |-> Slot(lines, hunks, p + q - 1)]

\* The merge from the line after p on.
Rest(lines, hunks, p) == FlattenSeq(Slots(lines, hunks, p))

LEMMA InsAt ==
  ASSUME NEW hunks \in SUBSET Hunk, NEW p
  PROVE  /\ Ins(hunks, p) \in Seq(Line)
         /\ (\A h \in hunks : h.start # p) => Ins(hunks, p) = <<>>
         /\ \A h \in hunks : h.start = p /\ (\A g \in hunks : g.start = p => g = h)
                             => Ins(hunks, p) = h.inserted
<1> DEFINE H == {h \in hunks : h.start = p}
           c == CHOOSE h \in H : TRUE
<1>1. H # {} => c \in H
  OBVIOUS
<1>2. Ins(hunks, p) = IF H = {} THEN <<>> ELSE c.inserted
  BY DEF Ins
<1> HIDE DEF c
<1>3. H # {} => c \in hunks /\ c.start = p /\ c.inserted \in Seq(Line)
  BY <1>1 DEF Hunk
<1>4. <<>> \in Seq(Line)
  OBVIOUS
<1>5. ASSUME NEW h \in hunks, h.start = p PROVE H # {}
  BY <1>5
<1> HIDE DEF H
<1>6. Ins(hunks, p) \in Seq(Line)
  BY <1>2, <1>3, <1>4
<1>7. ASSUME \A h \in hunks : h.start # p PROVE Ins(hunks, p) = <<>>
  BY <1>2, <1>3, <1>7
<1>8. ASSUME NEW h \in hunks, h.start = p, \A g \in hunks : g.start = p => g = h
      PROVE  Ins(hunks, p) = h.inserted
  BY <1>2, <1>3, <1>5, <1>8
<1> QED BY <1>6, <1>7, <1>8

LEMMA InsSame ==
  ASSUME NEW hunks, NEW others, NEW p,
         {h \in hunks : h.start = p} = {h \in others : h.start = p}
  PROVE  Ins(hunks, p) = Ins(others, p)
<1> DEFINE H == {h \in hunks : h.start = p}
           G == {h \in others : h.start = p}
<1>1. Ins(hunks, p) = IF H = {} THEN <<>> ELSE (CHOOSE h \in H : TRUE).inserted
  BY DEF Ins
<1>2. Ins(others, p) = IF G = {} THEN <<>> ELSE (CHOOSE h \in G : TRUE).inserted
  BY DEF Ins
<1>3. H = G
  OBVIOUS
<1> HIDE DEF H, G
<1> QED BY <1>1, <1>2, <1>3

LEMMA Glue ==
  ASSUME NEW a \in Seq(Line), NEW b \in Seq(Line), NEW c \in Seq(Line)
  PROVE  a \o (b \o c) = (a \o b) \o c
BY SMTT(30), ConcatAssociative

LEMMA SlotAt ==
  ASSUME NEW lines \in Seq(Line), NEW hunks \in SUBSET Hunk, NEW p \in Nat
  PROVE  /\ Kept(lines, hunks, p) \in Seq(Line)
         /\ Slot(lines, hunks, p) \in Seq(Line)
<1>1. p < Len(lines) => p + 1 \in 1 .. Len(lines)
  BY LenProperties
<1>2. p < Len(lines) => << lines[p + 1] >> \in Seq(Line)
  BY <1>1, ElementOfSeq
<1>3. <<>> \in Seq(Line)
  OBVIOUS
<1>4. Kept(lines, hunks, p) \in Seq(Line)
  BY <1>2, <1>3 DEF Kept
<1>5. Ins(hunks, p) \in Seq(Line)
  BY InsAt
<1> QED BY <1>4, <1>5, ConcatProperties DEF Slot

LEMMA SlotsAre ==
  ASSUME NEW lines \in Seq(Line), NEW hunks \in SUBSET Hunk,
         NEW p \in Nat, p <= Len(lines) + 1
  PROVE  /\ Slots(lines, hunks, p) \in Seq(Seq(Line))
         /\ Len(Slots(lines, hunks, p)) = Len(lines) + 1 - p
<1> DEFINE n == Len(lines) + 1 - p
           s == Slots(lines, hunks, p)
<1>1. n \in Nat
  BY LenProperties
<1>2. \A q \in 1 .. n : p + q - 1 \in Nat
  BY <1>1
<1>3. \A q \in 1 .. n : Slot(lines, hunks, p + q - 1) \in Seq(Line)
  BY <1>2, SlotAt
<1>4. s \in [1 .. n -> Seq(Line)]
  BY <1>3 DEF Slots
<1> HIDE DEF n, s
<1> DEFINE X == Seq(Line)
<1>5. s \in [1 .. n -> X]
  BY <1>4
<1> HIDE DEF X
<1>6. s \in Seq(X)
  BY <1>1, <1>5
<1>7. Len(s) = n
  BY <1>1, <1>5, <1>6, LenProperties
<1> QED BY <1>6, <1>7 DEF X, s, n

LEMMA RestFirst ==
  ASSUME NEW lines \in Seq(Line), NEW hunks \in SUBSET Hunk, NEW p \in 0 .. Len(lines)
  PROVE  /\ Rest(lines, hunks, p) = Slot(lines, hunks, p) \o Rest(lines, hunks, p + 1)
         /\ Rest(lines, hunks, p) \in Seq(Line) /\ Rest(lines, hunks, p + 1) \in Seq(Line)
<1> DEFINE n == Len(lines)
           s == Slots(lines, hunks, p)
           t == Slots(lines, hunks, p + 1)
<1>1. n \in Nat /\ p \in Nat /\ p + 1 \in Nat /\ p <= n + 1 /\ p + 1 <= n + 1
  BY LenProperties
<1>2. /\ s \in Seq(Seq(Line)) /\ Len(s) = n + 1 - p
      /\ t \in Seq(Seq(Line)) /\ Len(t) = n + 1 - (p + 1)
  BY <1>1, SlotsAre
<1>3. Len(s) = Len(t) + 1
  <2> HIDE DEF n, s, t
  <2> QED BY <1>1, <1>2
<1>4. \A q \in 1 .. n + 1 - (p + 1) : t[q] = s[q + 1]
  <2> SUFFICES ASSUME NEW q \in 1 .. n + 1 - (p + 1) PROVE t[q] = s[q + 1]
    OBVIOUS
  <2>1. q + 1 \in 1 .. n + 1 - p /\ p + (q + 1) - 1 = (p + 1) + q - 1
    BY <1>1
  <2> QED BY <2>1 DEF Slots
<1>5. s[1] = Slot(lines, hunks, p)
  <2>1. 1 \in 1 .. n + 1 - p /\ p + 1 - 1 = p
    BY <1>1
  <2> QED BY <2>1 DEF Slots
<1> HIDE DEF s, t
<1>6. FlattenSeq(s) = s[1] \o FlattenSeq(t) /\ FlattenSeq(t) \in Seq(Line)
  BY <1>2, <1>3, <1>4, FlattenFirst
<1>7. s[1] \in Seq(Line)
  BY <1>1, <1>5, SlotAt
<1>8. FlattenSeq(s) \in Seq(Line)
  BY <1>6, <1>7, ConcatProperties
<1> QED BY <1>5, <1>6, <1>8 DEF Rest, s, t

LEMMA RestEnd ==
  ASSUME NEW lines \in Seq(Line), NEW hunks \in SUBSET Hunk
  PROVE  Rest(lines, hunks, Len(lines) + 1) = <<>>
<1>1. Len(lines) \in Nat
  BY LenProperties
<1>2. Len(Slots(lines, hunks, Len(lines) + 1)) = 0
      /\ Slots(lines, hunks, Len(lines) + 1) \in Seq(Seq(Line))
  BY <1>1, SlotsAre
<1>3. Slots(lines, hunks, Len(lines) + 1) = <<>>
  BY <1>2, EmptySeq
<1> QED BY <1>2, <1>3 DEF Rest, FlattenSeq

LEMMA RestSame ==
  ASSUME NEW lines \in Seq(Line), NEW hunks, NEW others, NEW p \in Nat,
         \A q \in p .. Len(lines) : Slot(lines, hunks, q) = Slot(lines, others, q)
  PROVE  Rest(lines, hunks, p) = Rest(lines, others, p)
<1>1. Len(lines) \in Nat
  BY LenProperties
<1>2. \A q \in 1 .. Len(lines) + 1 - p : p + q - 1 \in p .. Len(lines)
  BY <1>1
<1>3. \A q \in 1 .. Len(lines) + 1 - p :
        Slot(lines, hunks, p + q - 1) = Slot(lines, others, p + q - 1)
  BY <1>2
<1>4. Slots(lines, hunks, p) = Slots(lines, others, p)
  BY <1>3 DEF Slots
<1> QED BY <1>4 DEF Rest

LEMMA SlotMergeIsRest ==
  ASSUME NEW lines \in Seq(Line), NEW hunks
  PROVE  SlotMerge(lines, hunks) = Rest(lines, hunks, 0)
<1> DEFINE n == Len(lines)
<1>1. n \in Nat
  BY LenProperties
<1>2. [p \in 1 .. n + 1 |-> Slot(lines, hunks, p - 1)] = Slots(lines, hunks, 0)
  <2>1. \A p \in 1 .. n + 1 : 0 + p - 1 = p - 1
    BY <1>1
  <2>2. n + 1 - 0 = n + 1
    BY <1>1
  <2> HIDE DEF n
  <2> QED BY <2>1, <2>2 DEF Slots, n
<1>3. SlotMerge(lines, hunks) = FlattenSeq([p \in 1 .. n + 1 |-> Slot(lines, hunks, p - 1)])
  BY DEF SlotMerge, Slot, Ins, Kept, Gone
<1> QED BY <1>2, <1>3 DEF Rest

-----------------------------------------------------------------------------
(* A diff: hunks in order, a line that is kept between two of them. *)

Chain(hunks, i, n) ==
  /\ hunks \in Seq(Hunk)
  /\ \A k \in DOMAIN hunks : i <= hunks[k].start /\ hunks[k].start + hunks[k].deleted <= n
  /\ \A k, l \in DOMAIN hunks : k < l => hunks[k].start + hunks[k].deleted < hunks[l].start

LEMMA ChainFirst ==
  ASSUME NEW i \in Nat, NEW n \in Nat, NEW h \in Hunk, NEW hunks, NEW k \in Nat, Chain(hunks, k, n),
         i <= h.start, h.start + h.deleted <= n,
         \A g \in ToSet(hunks) : h.start + h.deleted < g.start
  PROVE  /\ Chain(<< h >> \o hunks, i, n)
         /\ ToSet(<< h >> \o hunks) = {h} \cup ToSet(hunks)
<1> DEFINE s == << h >> \o hunks
           m == Len(hunks)
<1>1. hunks \in Seq(Hunk) /\ m \in Nat /\ DOMAIN hunks = 1 .. m
  BY LenProperties DEF Chain
<1>2. << h >> \in Seq(Hunk) /\ Len(<< h >>) = 1 /\ << h >>[1] = h
  OBVIOUS
<1>3. /\ s \in Seq(Hunk) /\ Len(s) = 1 + m
      /\ \A j \in 1 .. 1 + m : s[j] = IF j <= 1 THEN << h >>[j] ELSE hunks[j - 1]
  BY <1>1, <1>2, ConcatProperties
<1>4. DOMAIN s = 1 .. 1 + m
  BY <1>1, <1>3, LenProperties
<1> HIDE DEF s, m
<1>5. s[1] = h /\ \A j \in 1 .. m : j + 1 \in DOMAIN s /\ s[j + 1] = hunks[j]
  BY <1>1, <1>2, <1>3, <1>4
<1>6. \A j \in DOMAIN s : j = 1 \/ (j - 1 \in DOMAIN hunks /\ s[j] = hunks[j - 1])
  BY <1>1, <1>3, <1>4
<1>7. \A j \in DOMAIN hunks : hunks[j] \in ToSet(hunks) /\ hunks[j] \in Hunk
  BY <1>1, ElementOfSeq DEF ToSet, m
<1>8. \A j \in DOMAIN s : i <= s[j].start /\ s[j].start + s[j].deleted <= n
  <2> SUFFICES ASSUME NEW j \in DOMAIN s, j # 1
               PROVE  i <= s[j].start /\ s[j].start + s[j].deleted <= n
    BY <1>5
  <2>1. j - 1 \in DOMAIN hunks /\ s[j] = hunks[j - 1]
    BY <1>6
  <2>2. h.start + h.deleted < s[j].start /\ s[j].start + s[j].deleted <= n /\ s[j].start \in Nat
    BY <1>7, <2>1 DEF Chain, Hunk
  <2> QED BY <2>2 DEF Hunk
<1>9. \A j, l \in DOMAIN s : j < l => s[j].start + s[j].deleted < s[l].start
  <2> SUFFICES ASSUME NEW j \in DOMAIN s, NEW l \in DOMAIN s, j < l
               PROVE  s[j].start + s[j].deleted < s[l].start
    OBVIOUS
  <2>1. l # 1 /\ j \in Nat /\ l \in Nat
    BY <1>1, <1>4
  <2>2. l - 1 \in DOMAIN hunks /\ s[l] = hunks[l - 1]
    BY <1>6, <2>1
  <2>3. CASE j = 1
    BY <1>5, <1>7, <2>2, <2>3
  <2>4. CASE j # 1
    <3>1. j - 1 \in DOMAIN hunks /\ s[j] = hunks[j - 1] /\ j - 1 < l - 1
      BY <1>6, <2>1, <2>4
    <3> QED BY <2>2, <3>1 DEF Chain
  <2> QED BY <2>3, <2>4
<1>10. ToSet(s) = {h} \cup ToSet(hunks)
  <2>1. 1 \in DOMAIN s
    BY <1>1, <1>4
  <2>2. ToSet(s) = {s[j] : j \in DOMAIN s} /\ ToSet(hunks) = {hunks[j] : j \in DOMAIN hunks}
    BY DEF ToSet
  <2>3. \A j \in DOMAIN s : s[j] \in {h} \cup ToSet(hunks)
    BY <1>5, <1>6, <2>2
  <2>4. \A j \in DOMAIN hunks : hunks[j] \in ToSet(s)
    BY <1>1, <1>5, <2>2
  <2>5. h \in ToSet(s)
    BY <1>5, <2>1, <2>2
  <2> QED BY <2>2, <2>3, <2>4, <2>5
<1> QED BY <1>3, <1>8, <1>9, <1>10 DEF Chain, s

LEMMA ChainRest ==
  ASSUME NEW i \in Nat, NEW n \in Nat, NEW hunks, Chain(hunks, i, n), hunks # <<>>
  PROVE  /\ Head(hunks) \in Hunk /\ i <= Head(hunks).start
         /\ Head(hunks).start + Head(hunks).deleted <= n
         /\ Chain(Tail(hunks), i, n)
         /\ \A g \in ToSet(Tail(hunks)) : Head(hunks).start + Head(hunks).deleted < g.start
         /\ ToSet(hunks) = {Head(hunks)} \cup ToSet(Tail(hunks))
<1> DEFINE h == Head(hunks)
           t == Tail(hunks)
           m == Len(t)
<1>1. hunks \in Seq(Hunk) /\ hunks # <<>>
  BY DEF Chain
<1>2. /\ h \in Hunk /\ t \in Seq(Hunk) /\ m = Len(hunks) - 1
      /\ \A j \in 1 .. m : t[j] = hunks[j + 1]
  BY <1>1, HeadTailProperties
<1>3. m \in Nat /\ DOMAIN t = 1 .. m
  BY <1>2, LenProperties
<1>4. DOMAIN hunks = 1 .. m + 1
  BY <1>1, <1>2, <1>3, LenProperties
<1>5. h = hunks[1]
  BY <1>1
<1> HIDE DEF h, t, m
<1>6. \A j \in DOMAIN t : j + 1 \in DOMAIN hunks /\ t[j] = hunks[j + 1] /\ 1 < j + 1
  BY <1>2, <1>3, <1>4
<1>7. 1 \in DOMAIN hunks
  BY <1>3, <1>4
<1>8. i <= h.start /\ h.start + h.deleted <= n
  BY <1>5, <1>7 DEF Chain
<1>9. \A j \in DOMAIN t : h.start + h.deleted < t[j].start
  BY <1>5, <1>6, <1>7 DEF Chain
<1>10. \A j \in DOMAIN t : i <= t[j].start /\ t[j].start + t[j].deleted <= n
  BY <1>6 DEF Chain
<1>11. \A k, l \in DOMAIN t : k < l => t[k].start + t[k].deleted < t[l].start
  <2> SUFFICES ASSUME NEW k \in DOMAIN t, NEW l \in DOMAIN t, k < l
               PROVE  t[k].start + t[k].deleted < t[l].start
    OBVIOUS
  <2>1. k + 1 < l + 1
    BY <1>3
  <2> QED BY <1>6, <2>1 DEF Chain
<1>12. Chain(t, i, n)
  BY <1>2, <1>10, <1>11 DEF Chain
<1>13. ToSet(hunks) = {h} \cup ToSet(t)
  <2>1. ToSet(hunks) = {hunks[j] : j \in DOMAIN hunks} /\ ToSet(t) = {t[j] : j \in DOMAIN t}
    BY DEF ToSet
  <2>2. \A j \in DOMAIN hunks : j = 1 \/ (j - 1 \in DOMAIN t /\ hunks[j] = t[j - 1])
    BY <1>2, <1>3, <1>4
  <2> QED BY <1>5, <1>6, <1>7, <2>1, <2>2
<1> QED BY <1>2, <1>8, <1>9, <1>12, <1>13 DEF ToSet, h, t

LEMMA ChainSet ==
  ASSUME NEW i \in Nat, NEW n \in Nat, NEW hunks, Chain(hunks, i, n)
  PROVE  /\ ToSet(hunks) \in SUBSET Hunk
         /\ \A g \in ToSet(hunks) : i <= g.start /\ g.start + g.deleted <= n
         /\ \A g, h \in ToSet(hunks) : g # h => \/ g.start + g.deleted < h.start
                                                \/ h.start + h.deleted < g.start
<1>1. hunks \in Seq(Hunk) /\ ToSet(hunks) = {hunks[k] : k \in DOMAIN hunks}
  BY DEF Chain, ToSet
<1>2. \A k \in DOMAIN hunks : hunks[k] \in Hunk /\ k \in Nat
  BY <1>1, ElementOfSeq, LenProperties
<1>3. \A k, l \in DOMAIN hunks : hunks[k] # hunks[l] => k < l \/ l < k
  BY <1>2
<1> QED BY <1>1, <1>2, <1>3 DEF Chain

\* What the hunks from the lines after i and j on are to be: a diff of the
\* rest of the texts.
DiffFrom(one, other, i, j, hunks) ==
  /\ Chain(hunks, i, Len(one))
  /\ Rest(one, ToSet(hunks), i) = SubSeq(other, j + 1, Len(other))

LEMMA KeepALine ==
  ASSUME NEW one \in Seq(Line), NEW other \in Seq(Line), NEW hunks,
         NEW i \in 0 .. Len(one), NEW j \in 0 .. Len(other), i < Len(one), j < Len(other),
         one[i + 1] = other[j + 1], DiffFrom(one, other, i + 1, j + 1, hunks)
  PROVE  DiffFrom(one, other, i, j, hunks)
<1> DEFINE n == Len(one)
           m == Len(other)
           S == ToSet(hunks)
<1>1. /\ n \in Nat /\ m \in Nat /\ i \in Nat /\ j \in Nat /\ i + 1 \in Nat
      /\ j + 1 \in 1 .. m /\ m \in j + 1 .. m
  BY LenProperties
<1>2. Chain(hunks, i + 1, n) /\ Rest(one, S, i + 1) = SubSeq(other, (j + 1) + 1, m)
  BY DEF DiffFrom
<1>3. S \in SUBSET Hunk /\ \A g \in S : i + 1 <= g.start
  BY <1>1, <1>2, ChainSet
<1>4. Chain(hunks, i, n)
  <2>1. \A g \in Hunk : i + 1 <= g.start => i <= g.start
    BY <1>1 DEF Hunk
  <2>2. \A k \in DOMAIN hunks : hunks[k] \in Hunk
    BY <1>2, ElementOfSeq, LenProperties DEF Chain
  <2> QED BY <1>2, <2>1, <2>2 DEF Chain
<1>5. Slot(one, S, i) = << one[i + 1] >>
  <2>1. \A g \in S : g.start \in Nat /\ ~(g.start <= i)
    BY <1>1, <1>3 DEF Hunk
  <2>2. Ins(S, i) = <<>>
    BY <1>1, <1>3, <2>1, InsAt
  <2>3. Kept(one, S, i) = << one[i + 1] >>
    BY <2>1 DEF Kept, Gone
  <2>4. << one[i + 1] >> \in Seq(Line)
    BY <1>1, <1>3, <2>3, SlotAt
  <2> QED BY <2>2, <2>3, <2>4, ConcatEmptySeq DEF Slot
<1>6. Rest(one, S, i) = << one[i + 1] >> \o Rest(one, S, i + 1)
  BY <1>3, <1>5, RestFirst
<1>7. SubSeq(other, j + 1, m) = << other[j + 1] >> \o SubSeq(other, (j + 1) + 1, m)
  BY <1>1, SubSeqRecursiveFirst
<1> QED BY <1>2, <1>4, <1>6, <1>7 DEF DiffFrom

LEMMA DropALine ==
  ASSUME NEW one \in Seq(Line), NEW other \in Seq(Line), NEW hunks,
         NEW i \in 0 .. Len(one), NEW j \in 0 .. Len(other), i < Len(one),
         DiffFrom(one, other, i + 1, j, hunks)
  PROVE  DiffFrom(one, other, i, j,
                  Push([start |-> i, deleted |-> 1, inserted |-> <<>>], hunks))
<1> DEFINE n == Len(one)
           h == [start |-> i, deleted |-> 1, inserted |-> <<>>]
           E == ToSet(hunks)
           p == Push(h, hunks)
           P == ToSet(p)
           rest == SubSeq(other, j + 1, Len(other))
<1>1. n \in Nat /\ i \in Nat /\ i + 1 \in Nat /\ i + 1 \in 0 .. n /\ i \in 0 .. n /\ i < n
  BY LenProperties
<1>2. Chain(hunks, i + 1, n) /\ Rest(one, E, i + 1) = rest
  BY DEF DiffFrom
<1>3. E \in SUBSET Hunk /\ \A g \in E : g.start \in Nat /\ g.deleted \in Nat /\ i + 1 <= g.start
  <2>1. \A g \in Hunk : g.start \in Nat /\ g.deleted \in Nat
    BY DEF Hunk
  <2> QED BY <1>1, <1>2, <2>1, ChainSet
<1>4. h \in Hunk /\ h.start = i /\ h.deleted = 1 /\ h.inserted = <<>> /\ h.start + h.deleted = i + 1
  BY <1>1 DEF Hunk
<1> HIDE DEF h, E, rest
<1>5. CASE hunks # <<>> /\ Head(hunks).start = i + 1
  <2> DEFINE g == Head(hunks)
             T == ToSet(Tail(hunks))
             gm == [start |-> i, deleted |-> 1 + g.deleted, inserted |-> g.inserted]
  <2>1. /\ g \in Hunk /\ g.start + g.deleted <= n /\ Chain(Tail(hunks), i + 1, n)
        /\ \A t \in T : g.start + g.deleted < t.start
        /\ E = {g} \cup T
    BY <1>1, <1>2, <1>5, ChainRest DEF E
  <2>2. /\ g.start = i + 1 /\ g.deleted \in Nat /\ g.inserted \in Seq(Line)
        /\ gm \in Hunk /\ gm.start = i /\ gm.deleted = 1 + g.deleted /\ gm.inserted = g.inserted
        /\ gm.start + gm.deleted = g.start + g.deleted
    <3>1. g.start = i + 1 /\ g.start \in Nat /\ g.deleted \in Nat /\ g.inserted \in Seq(Line)
      BY <1>5, <2>1 DEF Hunk
    <3> HIDE DEF g
    <3>2. gm.start = i /\ gm.deleted = 1 + g.deleted /\ gm.inserted = g.inserted
      OBVIOUS
    <3>3. gm \in Hunk
      BY <1>1, <3>1 DEF Hunk
    <3> HIDE DEF gm
    <3>4. \A a, b \in Nat : a + (1 + b) = (a + 1) + b
      OBVIOUS
    <3>5. i + (1 + g.deleted) = (i + 1) + g.deleted
      BY <1>1, <3>1, <3>4
    <3> QED BY <3>1, <3>2, <3>3, <3>5
  <2>3. p = << gm >> \o Tail(hunks)
    <3>1. <<>> \o g.inserted = g.inserted
      BY <2>2, ConcatEmptySeq
    <3> QED BY <1>4, <1>5, <3>1 DEF Push
  <2> HIDE DEF g, T, gm, p
  <2>4. Chain(p, i, n) /\ P = {gm} \cup T
    <3>1. /\ i <= gm.start /\ gm.start + gm.deleted <= n
          /\ \A t \in ToSet(Tail(hunks)) : gm.start + gm.deleted < t.start
      BY <1>1, <2>1, <2>2 DEF T
    <3> DEFINE tl == Tail(hunks)
    <3>2. /\ i \in Nat /\ i + 1 \in Nat /\ n \in Nat /\ gm \in Hunk /\ Chain(tl, i + 1, n)
          /\ i <= gm.start /\ gm.start + gm.deleted <= n
          /\ \A t \in ToSet(tl) : gm.start + gm.deleted < t.start
      BY <1>1, <2>1, <2>2, <3>1
    <3> HIDE DEF tl, n
    <3>3. /\ Chain(<< gm >> \o tl, i, n)
          /\ ToSet(<< gm >> \o tl) = {gm} \cup ToSet(tl)
      BY ONLY <3>2, ChainFirst
    <3> QED BY <2>3, <3>3 DEF T, tl, n
  <2>5. /\ T \in SUBSET Hunk /\ P \in SUBSET Hunk
        /\ \A t \in T : t.start \in Nat /\ i + 1 < t.start
    <3>1. \A t \in T : t \in E
      BY <2>1
    <3>2. P \in SUBSET Hunk
      BY <1>1, <2>4, ChainSet
    <3> QED BY <1>1, <1>3, <2>1, <2>2, <3>1, <3>2
  <2>6. \A q \in i + 1 .. n : Gone(P, q) <=> Gone(E, q)
    <3> SUFFICES ASSUME NEW q \in i + 1 .. n PROVE Gone(P, q) <=> Gone(E, q)
      OBVIOUS
    <3>1. gm.start <= q /\ q < gm.start + gm.deleted <=> g.start <= q /\ q < g.start + g.deleted
      BY <1>1, <2>2
    <3> QED BY <2>1, <2>4, <3>1 DEF Gone
  <2>7. \A q \in i + 2 .. n : {x \in P : x.start = q} = {x \in E : x.start = q}
    BY <1>1, <2>1, <2>2, <2>4
  <2>8. /\ Ins(P, i) = g.inserted /\ Ins(P, i + 1) = <<>> /\ Ins(E, i + 1) = g.inserted
        /\ Gone(P, i)
    <3>1. gm \in P /\ \A x \in P : x.start = i => x = gm
      BY <1>1, <2>2, <2>4, <2>5
    <3>2. \A x \in P : x.start # i + 1
      BY <1>1, <2>2, <2>4, <2>5
    <3>3. g \in E /\ \A x \in E : x.start = i + 1 => x = g
      BY <1>1, <2>1, <2>5
    <3>4. gm.start <= i /\ i < gm.start + gm.deleted
      BY <1>1, <2>2
    <3>5. Gone(P, i)
      BY <3>1, <3>4 DEF Gone
    <3>6. Ins(P, i) = gm.inserted
      BY SMTT(30), <2>2, <2>5, <3>1, InsAt
    <3>7. Ins(P, i + 1) = <<>>
      BY <2>5, <3>2, InsAt
    <3>8. Ins(E, i + 1) = g.inserted
      BY <1>3, <2>2, <3>3, InsAt
    <3> QED BY <2>2, <3>5, <3>6, <3>7, <3>8
  <2> DEFINE kept == Kept(one, P, i + 1)
             tail == Rest(one, P, i + 2)
             ins  == g.inserted
  <2>9. Kept(one, E, i + 1) = kept
    BY <1>1, <2>6 DEF Kept
  <2>10. Rest(one, E, i + 2) = tail
    <3>1. \A q \in i + 2 .. n : Slot(one, P, q) = Slot(one, E, q)
      <4> SUFFICES ASSUME NEW q \in i + 2 .. n PROVE Slot(one, P, q) = Slot(one, E, q)
        OBVIOUS
      <4>1. Ins(P, q) = Ins(E, q)
        BY <2>7, InsSame
      <4>2. Gone(P, q) <=> Gone(E, q)
        BY <1>1, <2>6
      <4> QED BY <4>1, <4>2 DEF Slot, Kept
    <3>2. i + 2 \in Nat
      BY <1>1
    <3> QED BY <3>1, <3>2, RestSame
  <2>11. ins \in Seq(Line) /\ kept \in Seq(Line) /\ tail \in Seq(Line)
    <3>1. (i + 1) + 1 = i + 2
      BY <1>1
    <3> QED BY <1>1, <2>2, <2>5, <3>1, SlotAt, RestFirst
  <2>12. Slot(one, P, i) = ins /\ Slot(one, P, i + 1) = kept /\ Slot(one, E, i + 1) = ins \o kept
    <3> HIDE DEF kept, ins
    <3>1. Kept(one, P, i) = <<>>
      BY <2>8 DEF Kept
    <3>2. ins \o <<>> = ins /\ <<>> \o kept = kept
      BY <2>11, ConcatEmptySeq
    <3> QED BY <2>8, <2>9, <3>1, <3>2 DEF Slot, kept, ins
  <2>13. /\ Rest(one, P, i) = Slot(one, P, i) \o Rest(one, P, i + 1)
         /\ Rest(one, P, i + 1) = Slot(one, P, i + 1) \o Rest(one, P, (i + 1) + 1)
         /\ Rest(one, E, i + 1) = Slot(one, E, i + 1) \o Rest(one, E, (i + 1) + 1)
    BY <1>1, <1>3, <2>5, RestFirst
  <2>14. (i + 1) + 1 = i + 2
    BY <1>1
  <2> HIDE DEF kept, tail, ins, P
  <2>15. Rest(one, P, i) = ins \o (kept \o tail) /\ Rest(one, E, i + 1) = (ins \o kept) \o tail
    BY <2>10, <2>12, <2>13, <2>14 DEF tail
  <2>16. ins \o (kept \o tail) = (ins \o kept) \o tail
    BY SMTT(30), <2>11, Glue
  <2>17. Rest(one, P, i) = rest
    BY <1>2, <2>15, <2>16
  <2> QED BY <2>4, <2>17 DEF DiffFrom, P, p, rest, h
<1>6. CASE ~(hunks # <<>> /\ Head(hunks).start = i + 1)
  <2>1. p = << h >> \o hunks
    BY <1>4, <1>6 DEF Push
  <2>2. \A g \in E : i + 1 < g.start
    <3>1. CASE hunks = <<>>
      BY <3>1 DEF E, ToSet
    <3>2. CASE hunks # <<>>
      <4>1. /\ Head(hunks) \in Hunk /\ i + 1 <= Head(hunks).start
            /\ \A g \in ToSet(Tail(hunks)) : Head(hunks).start + Head(hunks).deleted < g.start
            /\ E = {Head(hunks)} \cup ToSet(Tail(hunks))
        BY <1>1, <1>2, <3>2, ChainRest DEF E
      <4>2. Head(hunks).start \in Nat /\ Head(hunks).deleted \in Nat /\ Head(hunks).start # i + 1
        BY <1>6, <3>2, <4>1 DEF Hunk
      <4> QED BY <1>1, <1>3, <4>1, <4>2
    <3> QED BY <3>1, <3>2
  <2> HIDE DEF p
  <2>3. Chain(p, i, n) /\ P = {h} \cup E
    <3>1. /\ i <= h.start /\ h.start + h.deleted <= n
          /\ \A g \in ToSet(hunks) : h.start + h.deleted < g.start
      BY <1>1, <1>4, <2>2 DEF E
    <3> QED BY <1>1, <1>2, <1>4, <2>1, <3>1, ChainFirst DEF E
  <2>4. P \in SUBSET Hunk
    BY <1>1, <2>3, ChainSet
  <2> HIDE DEF P
  <2>5. \A q \in i + 1 .. n : Slot(one, P, q) = Slot(one, E, q)
    <3> SUFFICES ASSUME NEW q \in i + 1 .. n PROVE Slot(one, P, q) = Slot(one, E, q)
      OBVIOUS
    <3>1. {x \in P : x.start = q} = {x \in E : x.start = q}
      BY <1>1, <1>4, <2>3
    <3>2. ~(q < h.start + h.deleted)
      BY <1>1, <1>4
    <3>3. Gone(P, q) <=> Gone(E, q)
      BY <2>3, <3>2 DEF Gone
    <3>4. Ins(P, q) = Ins(E, q)
      BY <3>1, InsSame
    <3> QED BY <3>3, <3>4 DEF Slot, Kept
  <2>6. Rest(one, P, i + 1) = rest
    BY <1>1, <1>2, <2>5, RestSame
  <2>7. Slot(one, P, i) = <<>>
    <3>1. h \in P /\ \A x \in P : x.start = i => x = h
      BY <1>1, <1>3, <1>4, <2>3
    <3>2. Ins(P, i) = <<>>
      BY <1>4, <2>4, <3>1, InsAt
    <3>3. h.start <= i /\ i < h.start + h.deleted
      BY <1>1, <1>4
    <3>4. Kept(one, P, i) = <<>>
      BY <3>1, <3>3 DEF Kept, Gone
    <3>5. <<>> \o <<>> = <<>>
      OBVIOUS
    <3> QED BY <3>2, <3>4, <3>5 DEF Slot
  <2>8. /\ Rest(one, P, i) = Slot(one, P, i) \o Rest(one, P, i + 1)
        /\ Rest(one, P, i + 1) \in Seq(Line)
    BY <1>1, <2>4, RestFirst
  <2>9. Rest(one, P, i) = rest
    BY <2>6, <2>7, <2>8, ConcatEmptySeq
  <2> QED BY <2>3, <2>9 DEF DiffFrom, P, p, rest, h
<1> QED BY <1>5, <1>6

LEMMA AddALine ==
  ASSUME NEW one \in Seq(Line), NEW other \in Seq(Line), NEW hunks,
         NEW i \in 0 .. Len(one), NEW j \in 0 .. Len(other), j < Len(other),
         DiffFrom(one, other, i, j + 1, hunks)
  PROVE  DiffFrom(one, other, i, j,
                  Push([start |-> i, deleted |-> 0, inserted |-> << other[j + 1] >>], hunks))
<1> DEFINE n == Len(one)
           m == Len(other)
           x == << other[j + 1] >>
           h == [start |-> i, deleted |-> 0, inserted |-> x]
           E == ToSet(hunks)
           p == Push(h, hunks)
           P == ToSet(p)
           rest == SubSeq(other, (j + 1) + 1, m)
<1>1. /\ n \in Nat /\ i \in Nat /\ i \in 0 .. n /\ i + 1 \in Nat
      /\ j + 1 \in 1 .. m /\ m \in j + 1 .. m
  BY LenProperties
<1>2. Chain(hunks, i, n) /\ Rest(one, E, i) = rest
  BY DEF DiffFrom
<1>3. E \in SUBSET Hunk /\ \A g \in E : g.start \in Nat /\ g.deleted \in Nat /\ i <= g.start
  <2>1. \A g \in Hunk : g.start \in Nat /\ g.deleted \in Nat
    BY DEF Hunk
  <2> QED BY <1>1, <1>2, <2>1, ChainSet
<1>4. x \in Seq(Line)
  <2>1. other[j + 1] \in Line
    BY <1>1, ElementOfSeq
  <2> QED BY <2>1
<1>5. SubSeq(other, j + 1, m) = x \o rest
  BY <1>1, SubSeqRecursiveFirst
<1> HIDE DEF x
<1>6. h \in Hunk /\ h.start = i /\ h.deleted = 0 /\ h.inserted = x /\ h.start + h.deleted = i
  BY <1>1, <1>4 DEF Hunk
<1> HIDE DEF h, E, rest, m
\* Whatever the first hunk is now, it puts x before what was there.
<1>7. ASSUME P \in SUBSET Hunk, \A q \in i + 1 .. n : Slot(one, P, q) = Slot(one, E, q),
             Ins(P, i) = x \o Ins(E, i), Gone(P, i) <=> Gone(E, i)
      PROVE  Rest(one, P, i) = x \o rest
  <2> DEFINE kept == Kept(one, E, i)
             ins  == Ins(E, i)
             tail == Rest(one, E, i + 1)
  <2> HIDE DEF P
  <2>1. Rest(one, P, i + 1) = tail
    BY <1>1, <1>7, RestSame
  <2>2. Kept(one, P, i) = kept
    BY <1>7 DEF Kept
  <2>3. ins \in Seq(Line) /\ kept \in Seq(Line) /\ tail \in Seq(Line) /\ ins \o kept \in Seq(Line)
    <3>1. ins \in Seq(Line) /\ kept \in Seq(Line) /\ tail \in Seq(Line)
      BY <1>1, <1>3, InsAt, SlotAt, RestFirst
    <3> HIDE DEF ins, kept, tail
    <3> QED BY <3>1, ConcatProperties
  <2>4. /\ Rest(one, P, i) = Slot(one, P, i) \o Rest(one, P, i + 1)
        /\ Rest(one, E, i) = Slot(one, E, i) \o Rest(one, E, i + 1)
    BY <1>1, <1>3, <1>7, RestFirst
  <2>5. Slot(one, P, i) = (x \o ins) \o kept /\ Slot(one, E, i) = ins \o kept
    BY <1>7, <2>2 DEF Slot
  <2> DEFINE both == ins \o kept
  <2> HIDE DEF ins, kept, tail
  <2>6. x \o (ins \o kept) = (x \o ins) \o kept
    <3>1. x \in Seq(Line) /\ ins \in Seq(Line) /\ kept \in Seq(Line)
      BY <1>4, <2>3
    <3> QED BY ONLY SMTT(30), <3>1, Glue
  <2>7. Slot(one, P, i) = x \o both /\ Slot(one, E, i) = both /\ both \in Seq(Line)
    BY <2>3, <2>5, <2>6
  <2> HIDE DEF both
  <2>8. x \o (both \o tail) = (x \o both) \o tail
    <3>1. x \in Seq(Line) /\ both \in Seq(Line) /\ tail \in Seq(Line)
      BY <1>4, <2>3, <2>7
    <3> QED BY ONLY SMTT(30), <3>1, Glue
  <2>9. Rest(one, E, i) = both \o tail /\ Rest(one, P, i) = (x \o both) \o tail
    BY <2>1, <2>4, <2>7 DEF tail
  <2> QED BY <1>2, <2>8, <2>9
<1>8. CASE hunks # <<>> /\ Head(hunks).start = i
  <2> DEFINE g == Head(hunks)
             T == ToSet(Tail(hunks))
             gm == [start |-> i, deleted |-> 0 + g.deleted, inserted |-> x \o g.inserted]
  <2>1. /\ g \in Hunk /\ g.start + g.deleted <= n /\ Chain(Tail(hunks), i, n)
        /\ \A t \in T : g.start + g.deleted < t.start
        /\ E = {g} \cup T
    BY <1>1, <1>2, <1>8, ChainRest DEF E
  <2>2. /\ g.start = i /\ g.deleted \in Nat /\ g.inserted \in Seq(Line)
        /\ gm \in Hunk /\ gm.start = i /\ gm.deleted = g.deleted /\ gm.inserted = x \o g.inserted
    <3>1. g.start = i /\ g.deleted \in Nat /\ g.inserted \in Seq(Line)
      BY <1>8, <2>1 DEF Hunk
    <3>2. 0 + g.deleted = g.deleted
      BY <3>1
    <3> HIDE DEF g
    <3>3. gm.start = i /\ gm.deleted = g.deleted /\ gm.inserted = x \o g.inserted
      BY <3>2
    <3>4. x \o g.inserted \in Seq(Line)
      BY <1>4, <3>1, ConcatProperties
    <3>5. gm \in Hunk
      BY <1>1, <3>1, <3>2, <3>4 DEF Hunk
    <3> HIDE DEF gm
    <3> QED BY <3>1, <3>3, <3>5
  <2>3. p = << gm >> \o Tail(hunks)
    BY <1>6, <1>8 DEF Push
  <2> HIDE DEF g, T, gm, p
  <2>4. Chain(p, i, n) /\ P = {gm} \cup T
    <3> DEFINE tl == Tail(hunks)
    <3>1. /\ i \in Nat /\ n \in Nat /\ gm \in Hunk /\ Chain(tl, i, n)
          /\ i <= gm.start /\ gm.start + gm.deleted <= n
          /\ \A t \in ToSet(tl) : gm.start + gm.deleted < t.start
      BY <1>1, <2>1, <2>2 DEF T
    <3> HIDE DEF tl, n
    <3>2. /\ Chain(<< gm >> \o tl, i, n)
          /\ ToSet(<< gm >> \o tl) = {gm} \cup ToSet(tl)
      BY ONLY <3>1, ChainFirst
    <3> QED BY <2>3, <3>2 DEF T, tl, n
  <2>5. /\ T \in SUBSET Hunk /\ P \in SUBSET Hunk
        /\ \A t \in T : t.start \in Nat /\ i < t.start
    <3>1. \A t \in T : t \in E
      BY <2>1
    <3>2. P \in SUBSET Hunk
      BY <1>1, <2>4, ChainSet
    <3> QED BY <1>1, <1>3, <2>1, <2>2, <3>1, <3>2
  <2> HIDE DEF P
  <2>6. \A q \in i .. n : Gone(P, q) <=> Gone(E, q)
    BY <2>1, <2>2, <2>4 DEF Gone
  <2>7. \A q \in i + 1 .. n : {y \in P : y.start = q} = {y \in E : y.start = q}
    BY <1>1, <2>1, <2>2, <2>4
  <2>8. \A q \in i + 1 .. n : Slot(one, P, q) = Slot(one, E, q)
    <3> SUFFICES ASSUME NEW q \in i + 1 .. n PROVE Slot(one, P, q) = Slot(one, E, q)
      OBVIOUS
    <3>1. Ins(P, q) = Ins(E, q)
      BY <2>7, InsSame
    <3>2. Gone(P, q) <=> Gone(E, q)
      BY <1>1, <2>6
    <3> QED BY <3>1, <3>2 DEF Slot, Kept
  <2>9. Ins(P, i) = x \o Ins(E, i)
    <3>1. gm \in P /\ \A y \in P : y.start = i => y = gm
      BY <1>1, <2>2, <2>4, <2>5
    <3>2. g \in E /\ \A y \in E : y.start = i => y = g
      BY <1>1, <2>1, <2>5
    <3>3. Ins(P, i) = gm.inserted
      BY <2>2, <2>5, <3>1, InsAt
    <3>4. Ins(E, i) = g.inserted
      BY <1>3, <2>2, <3>2, InsAt
    <3> QED BY <2>2, <3>3, <3>4
  <2>10. Gone(P, i) <=> Gone(E, i)
    BY <1>1, <2>6
  <2>11. Rest(one, P, i) = x \o rest
    BY <1>7, <2>5, <2>8, <2>9, <2>10
  <2> QED BY <1>5, <2>4, <2>11 DEF DiffFrom, P, p, h, x, m
<1>9. CASE ~(hunks # <<>> /\ Head(hunks).start = i)
  <2>1. p = << h >> \o hunks
    BY <1>6, <1>9 DEF Push
  <2>2. \A g \in E : i < g.start
    <3>1. CASE hunks = <<>>
      BY <3>1 DEF E, ToSet
    <3>2. CASE hunks # <<>>
      <4>1. /\ Head(hunks) \in Hunk /\ i <= Head(hunks).start
            /\ \A g \in ToSet(Tail(hunks)) : Head(hunks).start + Head(hunks).deleted < g.start
            /\ E = {Head(hunks)} \cup ToSet(Tail(hunks))
        BY <1>1, <1>2, <3>2, ChainRest DEF E
      <4>2. Head(hunks).start \in Nat /\ Head(hunks).deleted \in Nat /\ Head(hunks).start # i
        BY <1>9, <3>2, <4>1 DEF Hunk
      <4> QED BY <1>1, <1>3, <4>1, <4>2
    <3> QED BY <3>1, <3>2
  <2> HIDE DEF p
  <2>3. Chain(p, i, n) /\ P = {h} \cup E
    <3>1. /\ i <= h.start /\ h.start + h.deleted <= n
          /\ \A g \in ToSet(hunks) : h.start + h.deleted < g.start
      BY <1>1, <1>6, <2>2 DEF E
    <3>2. i \in Nat /\ n \in Nat /\ h \in Hunk /\ Chain(hunks, i, n)
      BY <1>1, <1>2, <1>6
    <3> HIDE DEF n
    <3>3. Chain(<< h >> \o hunks, i, n) /\ ToSet(<< h >> \o hunks) = {h} \cup ToSet(hunks)
      BY ONLY <3>1, <3>2, ChainFirst
    <3> QED BY <2>1, <3>3 DEF E, n
  <2>4. P \in SUBSET Hunk
    BY <1>1, <2>3, ChainSet
  <2> HIDE DEF P
  <2>5. \A q \in i .. n : Gone(P, q) <=> Gone(E, q)
    <3> SUFFICES ASSUME NEW q \in i .. n PROVE Gone(P, q) <=> Gone(E, q)
      OBVIOUS
    <3>1. ~(q < h.start + h.deleted)
      BY <1>1, <1>6
    <3> QED BY <2>3, <3>1 DEF Gone
  <2>6. \A q \in i + 1 .. n : Slot(one, P, q) = Slot(one, E, q)
    <3> SUFFICES ASSUME NEW q \in i + 1 .. n PROVE Slot(one, P, q) = Slot(one, E, q)
      OBVIOUS
    <3>1. {y \in P : y.start = q} = {y \in E : y.start = q}
      BY <1>1, <1>6, <2>3
    <3>2. Gone(P, q) <=> Gone(E, q)
      BY <1>1, <2>5
    <3>3. Ins(P, q) = Ins(E, q)
      BY <3>1, InsSame
    <3> QED BY <3>2, <3>3 DEF Slot, Kept
  <2>7. Ins(P, i) = x \o Ins(E, i)
    <3>1. h \in P /\ \A y \in P : y.start = i => y = h
      BY <1>1, <1>3, <1>6, <2>2, <2>3
    <3>2. \A y \in E : y.start # i
      BY <1>1, <1>3, <2>2
    <3>3. Ins(P, i) = x
      BY <1>6, <2>4, <3>1, InsAt
    <3>4. Ins(E, i) = <<>>
      BY <1>3, <3>2, InsAt
    <3> QED BY <1>4, <3>3, <3>4, ConcatEmptySeq
  <2>8. Gone(P, i) <=> Gone(E, i)
    BY <1>1, <2>5
  <2>9. Rest(one, P, i) = x \o rest
    BY <1>7, <2>4, <2>6, <2>7, <2>8
  <2> QED BY <1>5, <2>3, <2>9 DEF DiffFrom, P, p, h, x, m
<1> QED BY <1>8, <1>9

-----------------------------------------------------------------------------
(* diffLines, as the function of the places in two texts it is. *)

Grid(one, other) == (0 .. Len(one)) \X (0 .. Len(other))

SameLine(one, other, i, j) ==
  i < Len(one) /\ j < Len(other) /\ one[i + 1] = other[j + 1]

\* Which of the two longest common subsequences is longer does not matter here.
Drops(one, other, i, j) ==
  LET table == lcsLengths(one, other)
  IN  /\ i < Len(one) /\ ~SameLine(one, other, i, j)
      /\ j < Len(other) => table[<< i + 1, j >>] >= table[<< i, j + 1 >>]

Hunks(one, other, f, i, j) ==
  CASE i = Len(one) /\ j = Len(other) -> <<>>
    [] SameLine(one, other, i, j) -> f[<< i + 1, j + 1 >>]
    [] Drops(one, other, i, j) ->
         Push([start |-> i, deleted |-> 1, inserted |-> <<>>], f[<< i + 1, j >>])
    [] OTHER ->
         Push([start |-> i, deleted |-> 0, inserted |-> << other[j + 1] >>], f[<< i, j + 1 >>])

IsDiff(one, other, f) ==
  f = [at \in Grid(one, other) |-> Hunks(one, other, f, at[1], at[2])]

\* The four ways on from the lines after i and j.
OneOf(one, other, f, i, j, hunks) ==
  \/ i = Len(one) /\ j = Len(other) /\ hunks = <<>>
  \/ SameLine(one, other, i, j) /\ hunks = f[<< i + 1, j + 1 >>]
  \/ /\ Drops(one, other, i, j)
     /\ hunks = Push([start |-> i, deleted |-> 1, inserted |-> <<>>], f[<< i + 1, j >>])
  \/ /\ ~(i = Len(one) /\ j = Len(other)) /\ ~SameLine(one, other, i, j)
     /\ ~Drops(one, other, i, j) /\ j < Len(other)
     /\ hunks = Push([start |-> i, deleted |-> 0, inserted |-> << other[j + 1] >>],
                     f[<< i, j + 1 >>])

LEMMA HunksAre ==
  ASSUME NEW one \in Seq(Line), NEW other \in Seq(Line),
         NEW i \in 0 .. Len(one), NEW j \in 0 .. Len(other), NEW f
  PROVE  OneOf(one, other, f, i, j, Hunks(one, other, f, i, j))
<1>1. Len(one) \in Nat /\ Len(other) \in Nat
  BY LenProperties
<1> DEFINE end  == i = Len(one) /\ j = Len(other)
           same == SameLine(one, other, i, j)
           drop == Drops(one, other, i, j)
           a == f[<< i + 1, j + 1 >>]
           b == Push([start |-> i, deleted |-> 1, inserted |-> <<>>], f[<< i + 1, j >>])
           c == Push([start |-> i, deleted |-> 0, inserted |-> << other[j + 1] >>],
                     f[<< i, j + 1 >>])
<1>2. Hunks(one, other, f, i, j) = CASE end -> <<>> [] same -> a [] drop -> b [] OTHER -> c
  BY DEF Hunks
<1>3. ~(end /\ same) /\ ~(end /\ drop) /\ ~(same /\ drop)
  BY <1>1 DEF SameLine, Drops
<1>4. ~end /\ ~same /\ ~drop => j < Len(other)
  BY <1>1 DEF Drops
<1> HIDE DEF same, drop, a, b, c
<1> DEFINE e == end
<1> HIDE DEF e
<1>5. Hunks(one, other, f, i, j) = CASE e -> <<>> [] same -> a [] drop -> b [] OTHER -> c
  BY <1>2 DEF e
<1>6. ~(e /\ same) /\ ~(e /\ drop) /\ ~(same /\ drop)
  BY <1>3 DEF e
<1> DEFINE hunks == Hunks(one, other, f, i, j)
<1> HIDE DEF hunks
<1>7. \/ e /\ hunks = <<>>
      \/ same /\ hunks = a
      \/ drop /\ hunks = b
      \/ ~e /\ ~same /\ ~drop /\ hunks = c
  BY <1>5, <1>6 DEF hunks
<1> QED BY <1>4, <1>7 DEF e, same, drop, a, b, c, hunks, OneOf

\* f and g are the same where less of the texts is left.
Agree(one, other, f, g, i, j) ==
  /\ i < Len(one) => f[<< i + 1, j >>] = g[<< i + 1, j >>]
  /\ j < Len(other) => f[<< i, j + 1 >>] = g[<< i, j + 1 >>]
  /\ i < Len(one) /\ j < Len(other) => f[<< i + 1, j + 1 >>] = g[<< i + 1, j + 1 >>]

LEMMA HunksLook ==
  ASSUME NEW one \in Seq(Line), NEW other \in Seq(Line),
         NEW i \in 0 .. Len(one), NEW j \in 0 .. Len(other), NEW f, NEW g,
         Agree(one, other, f, g, i, j)
  PROVE  Hunks(one, other, f, i, j) = Hunks(one, other, g, i, j)
<1>1. SameLine(one, other, i, j) => i < Len(one) /\ j < Len(other)
  BY DEF SameLine
<1>2. Drops(one, other, i, j) => i < Len(one) /\ ~SameLine(one, other, i, j)
                                  /\ ~(i = Len(one) /\ j = Len(other))
  BY LenProperties DEF Drops
<1>3. SameLine(one, other, i, j) => ~(i = Len(one) /\ j = Len(other))
  BY LenProperties DEF SameLine
<1> DEFINE p == Hunks(one, other, f, i, j)
           q == Hunks(one, other, g, i, j)
<1>4. OneOf(one, other, f, i, j, p) /\ OneOf(one, other, g, i, j, q)
  BY HunksAre
<1> HIDE DEF p, q
<1>5. p = q
  BY <1>1, <1>2, <1>3, <1>4 DEF Agree, OneOf
<1> QED BY <1>5 DEF p, q

\* How many lines are left in the two texts.
Left(one, other, at) == (Len(one) - at[1]) + (Len(other) - at[2])

LEMMA DiffExists ==
  ASSUME NEW one \in Seq(Line), NEW other \in Seq(Line)
  PROVE  \E f : IsDiff(one, other, f)
<1> DEFINE n == Len(one)
           m == Len(other)
           G(k) == {at \in Grid(one, other) : Left(one, other, at) < k}
           Val(f, at) == Hunks(one, other, f, at[1], at[2])
           N == {k \in Nat : \E f : f = [at \in G(k) |-> Val(f, at)]}
<1>1. n \in Nat /\ m \in Nat
  BY LenProperties
<1>2. \A at \in Grid(one, other) :
        /\ at[1] \in 0 .. n /\ at[2] \in 0 .. m /\ at = << at[1], at[2] >>
        /\ Left(one, other, at) \in Nat /\ Left(one, other, at) <= n + m
  <2> SUFFICES ASSUME NEW i \in 0 .. n, NEW j \in 0 .. m
               PROVE  Left(one, other, << i, j >>) \in Nat /\ Left(one, other, << i, j >>) <= n + m
    BY DEF Grid
  <2>1. Left(one, other, << i, j >>) = (n - i) + (m - j)
    BY DEF Left
  <2> HIDE DEF n, m
  <2> QED BY <1>1, <2>1
<1>3. 0 \in N
  <2>1. G(0) = {}
    <3> HIDE DEF n, m
    <3> QED BY <1>2
  <2> DEFINE f == [at \in {} |-> <<>>]
  <2>2. f = [at \in G(0) |-> Val(f, at)]
    <3> HIDE DEF Val, G
    <3> QED BY <2>1
  <2> HIDE DEF f, Val, G
  <2> QED BY <2>2
<1>4. ASSUME NEW k \in Nat, k \in N PROVE k + 1 \in N
  <2>1. PICK f : f = [at \in G(k) |-> Val(f, at)]
    <3> HIDE DEF Val, G
    <3> QED BY <1>4
  <2> DEFINE g == [at \in G(k + 1) |-> Val(f, at)]
  <2>2. \A at \in G(k) : at \in G(k + 1) /\ g[at] = f[at]
    <3>1. \A at \in G(k) : at \in G(k + 1)
      BY <1>2
    <3> HIDE DEF Val, G
    <3> QED BY <2>1, <3>1
  <2>3. \A at \in G(k + 1) : Val(f, at) = Val(g, at)
    <3> SUFFICES ASSUME NEW at \in G(k + 1) PROVE Val(f, at) = Val(g, at)
      OBVIOUS
    <3> DEFINE i == at[1]
               j == at[2]
    <3>1. /\ i \in 0 .. n /\ j \in 0 .. m
          /\ (n - i) + (m - j) < k + 1
      BY <1>2 DEF Left
    <3> HIDE DEF i, j, n, m, g
    <3>2. /\ i < n => i + 1 \in 0 .. n /\ (n - (i + 1)) + (m - j) < k
          /\ j < m => j + 1 \in 0 .. m /\ (n - i) + (m - (j + 1)) < k
          /\ i < n /\ j < m => (n - (i + 1)) + (m - (j + 1)) < k
      BY <1>1, <3>1
    <3>3. \A a, b : a \in 0 .. n /\ b \in 0 .. m /\ (n - a) + (m - b) < k => << a, b >> \in G(k)
      BY DEF Grid, Left, n, m
    <3> HIDE DEF G
    <3>4. /\ i < n => f[<< i + 1, j >>] = g[<< i + 1, j >>]
          /\ j < m => f[<< i, j + 1 >>] = g[<< i, j + 1 >>]
          /\ i < n /\ j < m => f[<< i + 1, j + 1 >>] = g[<< i + 1, j + 1 >>]
      BY <2>2, <3>1, <3>2, <3>3
    <3>5. Hunks(one, other, f, i, j) = Hunks(one, other, g, i, j)
      <4>1. Agree(one, other, f, g, i, j)
        BY <3>4 DEF Agree, n, m
      <4> QED BY <3>1, <4>1, HunksLook DEF n, m
    <3> QED BY <3>5 DEF i, j
  <2>4. g = [at \in G(k + 1) |-> Val(g, at)]
    <3> HIDE DEF Val, G
    <3> QED BY <2>3
  <2> HIDE DEF g, Val, G
  <2> QED BY <2>4
<1>5. n + m + 1 \in N
  <2>1. n + m + 1 \in Nat
    BY <1>1
  <2> HIDE DEF N, n, m
  <2> QED BY <1>3, <1>4, <2>1, Induction
<1>6. G(n + m + 1) = Grid(one, other)
  <2>1. \A at \in Grid(one, other) : Left(one, other, at) < n + m + 1
    <3> HIDE DEF n, m
    <3> QED BY <1>1, <1>2
  <2> QED BY <2>1
<1> HIDE DEF n, m
<1>7. PICK f : f = [at \in G(n + m + 1) |-> Val(f, at)]
  <2> HIDE DEF Val, G
  <2> QED BY <1>5
<1> HIDE DEF G
<1> QED BY <1>6, <1>7 DEF IsDiff

LEMMA DiffLinesIs ==
  ASSUME NEW one \in Seq(Line), NEW other \in Seq(Line)
  PROVE  \E f : IsDiff(one, other, f) /\ diffLines(one, other) = f[<< 0, 0 >>]
<1> DEFINE f == CHOOSE g : IsDiff(one, other, g)
<1>1. IsDiff(one, other, f)
  BY DiffExists
<1>2. diffLines(one, other) = f[<< 0, 0 >>]
  BY DEF diffLines, IsDiff, Hunks, Grid, SameLine, Drops
<1> QED BY <1>1, <1>2

LEMMA DiffEverywhere ==
  ASSUME NEW one \in Seq(Line), NEW other \in Seq(Line), NEW f, IsDiff(one, other, f)
  PROVE  \A i \in 0 .. Len(one), j \in 0 .. Len(other) :
           DiffFrom(one, other, i, j, f[<< i, j >>])
<1> DEFINE n == Len(one)
           m == Len(other)
           N == {k \in Nat : \A i \in 0 .. n, j \in 0 .. m :
                               (n - i) + (m - j) < k => DiffFrom(one, other, i, j, f[<< i, j >>])}
<1>1. n \in Nat /\ m \in Nat
  BY LenProperties
<1>2. \A i \in 0 .. n, j \in 0 .. m : f[<< i, j >>] = Hunks(one, other, f, i, j)
  <2> SUFFICES ASSUME NEW i \in 0 .. n, NEW j \in 0 .. m
               PROVE  f[<< i, j >>] = Hunks(one, other, f, i, j)
    OBVIOUS
  <2>1. << i, j >> \in Grid(one, other) /\ << i, j >>[1] = i /\ << i, j >>[2] = j
    BY DEF Grid
  <2> QED BY <2>1 DEF IsDiff
<1> HIDE DEF n, m
<1>3. 0 \in N
  BY <1>1
<1>4. ASSUME NEW k \in Nat, k \in N PROVE k + 1 \in N
  <2> SUFFICES ASSUME NEW i \in 0 .. n, NEW j \in 0 .. m, (n - i) + (m - j) < k + 1
               PROVE  DiffFrom(one, other, i, j, f[<< i, j >>])
    OBVIOUS
  <2>1. \A a \in 0 .. n, b \in 0 .. m :
          (n - a) + (m - b) < k => DiffFrom(one, other, a, b, f[<< a, b >>])
    BY <1>4
  <2>2. /\ i < n => i + 1 \in 0 .. n /\ (n - (i + 1)) + (m - j) < k
        /\ j < m => j + 1 \in 0 .. m /\ (n - i) + (m - (j + 1)) < k
        /\ i < n /\ j < m => (n - (i + 1)) + (m - (j + 1)) < k
    BY <1>1
  <2>3. f[<< i, j >>] = Hunks(one, other, f, i, j)
    BY <1>2
  <2>4. CASE i = n /\ j = m /\ f[<< i, j >>] = <<>>
    <3>1. /\ <<>> \in Seq(Hunk) /\ DOMAIN <<>> = {} /\ ToSet(<<>>) = {}
          /\ {} \in SUBSET Hunk
      BY DEF ToSet
    <3>2. Chain(<<>>, i, n)
      BY <3>1 DEF Chain
    <3>3. Rest(one, {}, n) = <<>>
      <4>1. Ins({}, n) = <<>> /\ Kept(one, {}, n) = <<>>
        BY <1>1 DEF Ins, Kept, n
      <4>2. Rest(one, {}, n) = Slot(one, {}, n) \o Rest(one, {}, n + 1)
        <5> DEFINE none == {}
        <5>1. none \in SUBSET Hunk /\ n \in 0 .. Len(one)
          BY <1>1 DEF n
        <5> HIDE DEF none, n
        <5>2. Rest(one, none, n) = Slot(one, none, n) \o Rest(one, none, n + 1)
          BY <5>1, RestFirst
        <5> QED BY <5>2 DEF none
      <4>3. Rest(one, {}, n + 1) = <<>>
        BY <3>1, RestEnd DEF n
      <4>4. <<>> \o <<>> = <<>>
        OBVIOUS
      <4> QED BY <4>1, <4>2, <4>3, <4>4 DEF Slot
    <3>4. SubSeq(other, m + 1, m) = <<>>
      BY <1>1, SubSeqEmpty
    <3> QED BY <2>4, <3>1, <3>2, <3>3, <3>4 DEF DiffFrom, n, m
  <2>5. CASE SameLine(one, other, i, j) /\ f[<< i, j >>] = f[<< i + 1, j + 1 >>]
    <3>1. i < n /\ j < m /\ one[i + 1] = other[j + 1]
      BY <2>5 DEF SameLine, n, m
    <3>2. DiffFrom(one, other, i + 1, j + 1, f[<< i + 1, j + 1 >>])
      BY <2>1, <2>2, <3>1
    <3> QED BY <2>5, <3>1, <3>2, KeepALine DEF n, m
  <2>6. CASE /\ Drops(one, other, i, j)
             /\ f[<< i, j >>] = Push([start |-> i, deleted |-> 1, inserted |-> <<>>],
                                     f[<< i + 1, j >>])
    <3>1. i < n
      BY <2>6 DEF Drops, n
    <3>2. DiffFrom(one, other, i + 1, j, f[<< i + 1, j >>])
      BY <2>1, <2>2, <3>1
    <3> QED BY <2>6, <3>1, <3>2, DropALine DEF n, m
  <2>7. CASE /\ j < m
             /\ f[<< i, j >>] = Push([start |-> i, deleted |-> 0, inserted |-> << other[j + 1] >>],
                                     f[<< i, j + 1 >>])
    <3>1. DiffFrom(one, other, i, j + 1, f[<< i, j + 1 >>])
      BY <2>1, <2>2, <2>7
    <3> QED BY <2>7, <3>1, AddALine DEF n, m
  <2> DEFINE here == Hunks(one, other, f, i, j)
  <2>8. OneOf(one, other, f, i, j, here)
    BY HunksAre DEF n, m
  <2> HIDE DEF here
  <2>9. here = f[<< i, j >>]
    BY <2>3 DEF here
  <2>10. n = Len(one) /\ m = Len(other)
    BY DEF n, m
  <2> QED BY <2>4, <2>5, <2>6, <2>7, <2>8, <2>9, <2>10 DEF OneOf
<1>5. n + m + 1 \in N
  <2>1. n + m + 1 \in Nat
    BY <1>1
  <2> HIDE DEF N
  <2> QED BY <1>3, <1>4, <2>1, Induction
<1>6. \A i \in 0 .. n, j \in 0 .. m : (n - i) + (m - j) < n + m + 1
  BY <1>1
<1> QED BY <1>5, <1>6 DEF n, m

\* The slots of a diff are the text it was made for.
LEMMA DiffIsADiff ==
  ASSUME NEW one \in Seq(Line), NEW other \in Seq(Line)
  PROVE  /\ Chain(diffLines(one, other), 0, Len(one))
         /\ Rest(one, ToSet(diffLines(one, other)), 0) = other
<1>1. PICK f : IsDiff(one, other, f) /\ diffLines(one, other) = f[<< 0, 0 >>]
  BY DiffLinesIs
<1>2. 0 \in 0 .. Len(one) /\ 0 \in 0 .. Len(other)
  BY LenProperties
<1>3. DiffFrom(one, other, 0, 0, diffLines(one, other))
  BY <1>1, <1>2, DiffEverywhere
<1>4. SubSeq(other, 0 + 1, Len(other)) = other
  BY SubSeqFull
<1> QED BY <1>3, <1>4 DEF DiffFrom

LEMMA NoDiff ==
  ASSUME NEW one \in Seq(Line)
  PROVE  diffLines(one, one) = <<>>
<1> DEFINE n == Len(one)
<1>1. n \in Nat
  BY LenProperties
<1>2. PICK f : IsDiff(one, one, f) /\ diffLines(one, one) = f[<< 0, 0 >>]
  BY DiffLinesIs
<1>3. \A i \in 0 .. n : f[<< i, i >>] = IF i = n THEN <<>> ELSE f[<< i + 1, i + 1 >>]
  <2> SUFFICES ASSUME NEW i \in 0 .. n
               PROVE  f[<< i, i >>] = IF i = n THEN <<>> ELSE f[<< i + 1, i + 1 >>]
    OBVIOUS
  <2>1. << i, i >> \in Grid(one, one) /\ << i, i >>[1] = i /\ << i, i >>[2] = i
    BY DEF Grid
  <2>2. f[<< i, i >>] = Hunks(one, one, f, i, i)
    BY <1>2, <2>1 DEF IsDiff
  <2>3. SameLine(one, one, i, i) <=> i # n
    BY <1>1 DEF SameLine
  <2>4. Drops(one, one, i, i) => ~SameLine(one, one, i, i) /\ i # n
    BY <1>1 DEF Drops
  <2> QED BY <1>1, <2>2, <2>3, <2>4, HunksAre DEF OneOf
<1> DEFINE N == {k \in Nat : k <= n => f[<< n - k, n - k >>] = <<>>}
<1> HIDE DEF n
<1>4. 0 \in N
  <2>1. n \in 0 .. n /\ n - 0 = n
    BY <1>1
  <2> QED BY <1>3, <2>1
<1>5. ASSUME NEW k \in Nat, k \in N PROVE k + 1 \in N
  <2> SUFFICES ASSUME k + 1 <= n PROVE f[<< n - (k + 1), n - (k + 1) >>] = <<>>
    OBVIOUS
  <2>1. /\ n - (k + 1) \in 0 .. n /\ n - (k + 1) # n /\ (n - (k + 1)) + 1 = n - k /\ k <= n
    BY <1>1
  <2>2. f[<< n - k, n - k >>] = <<>>
    BY <1>5, <2>1
  <2> QED BY <1>3, <2>1, <2>2
<1>6. n \in N
  <2> HIDE DEF N
  <2> QED BY <1>1, <1>4, <1>5, Induction
<1>7. n - n = 0
  BY <1>1
<1> QED BY <1>1, <1>2, <1>6, <1>7

-----------------------------------------------------------------------------
(* Hunks applied right to left make what their slots make left to right. *)

LEMMA Halves ==
  ASSUME NEW a \in Seq(Line), NEW b \in Seq(Line)
  PROVE  /\ SubSeq(a \o b, 1, Len(a)) = a
         /\ SubSeq(a \o b, Len(a) + 1, Len(a \o b)) = b
<1> DEFINE c == a \o b
           n == Len(a)
           m == Len(b)
           l == SubSeq(c, 1, n)
           r == SubSeq(c, n + 1, Len(c))
<1>1. n \in Nat /\ m \in Nat
  BY LenProperties
<1>2. /\ c \in Seq(Line) /\ Len(c) = n + m
      /\ \A i \in 1 .. n + m : c[i] = IF i <= n THEN a[i] ELSE b[i - n]
  BY ConcatProperties
<1> HIDE DEF c
<1>3. l \in Seq(Line) /\ Len(l) = n /\ \A i \in 1 .. n : l[i] = c[i]
  <2>1. \A i \in 1 .. n : c[i] \in Line
    BY <1>1, <1>2, ElementOfSeq
  <2> HIDE DEF n
  <2>2. 1 \in Int /\ n \in Int /\ n - 1 + 1 = n /\ (1 <= n \/ n = 0)
        /\ \A i \in 1 .. n : 1 + i - 1 = i
    BY <1>1
  <2> QED BY <2>1, <2>2, SubSeqProperties
<1>4. r \in Seq(Line) /\ Len(r) = m /\ \A i \in 1 .. m : r[i] = c[n + i]
  <2>1. \A i \in n + 1 .. n + m : c[i] \in Line
    BY <1>1, <1>2, ElementOfSeq
  <2> HIDE DEF n, m
  <2>2. /\ n + 1 \in Int /\ n + m \in Int /\ (n + m) - (n + 1) + 1 = m
        /\ (n + 1 <= n + m \/ m = 0) /\ (n + 1 <= n + m <=> m # 0)
        /\ \A i \in 1 .. m : (n + 1) + i - 1 = n + i
    BY <1>1
  <2> QED BY <1>2, <2>1, <2>2, SubSeqProperties
<1>5. l = a
  <2>1. \A i \in 1 .. n : c[i] = a[i]
    BY <1>1, <1>2
  <2> HIDE DEF l
  <2> QED BY <1>3, <2>1, SeqEqual
<1>6. r = b
  <2>1. \A i \in 1 .. m : c[n + i] = b[i]
    <3> SUFFICES ASSUME NEW i \in 1 .. m PROVE c[n + i] = b[i]
      OBVIOUS
    <3> HIDE DEF n, m
    <3>1. n + i \in 1 .. n + m /\ ~(n + i <= n) /\ (n + i) - n = i
      BY <1>1
    <3> QED BY <1>2, <3>1
  <2> HIDE DEF r
  <2> QED BY <1>4, <2>1, SeqEqual
<1> QED BY <1>5, <1>6 DEF c

LEMMA Plain ==
  ASSUME NEW lines \in Seq(Line), NEW hunks \in SUBSET Hunk, NEW p \in Nat, NEW d \in Nat,
         p + d <= Len(lines), \A g \in hunks : p + d <= g.start
  PROVE  Rest(lines, hunks, p) = SubSeq(lines, p + 1, p + d) \o Rest(lines, hunks, p + d)
<1> DEFINE n == Len(lines)
           N == {k \in Nat : k <= d =>
                   Rest(lines, hunks, p) = SubSeq(lines, p + 1, p + k) \o Rest(lines, hunks, p + k)}
<1>1. n \in Nat
  BY LenProperties
<1>2. p \in 0 .. n
  BY <1>1
<1> HIDE DEF n
<1>3. 0 \in N
  <2>1. SubSeq(lines, p + 1, p + 0) = <<>>
    BY SubSeqEmpty
  <2>2. Rest(lines, hunks, p) \in Seq(Line) /\ p + 0 = p
    <3>1. p + 0 = p
      OBVIOUS
    <3> QED BY <1>2, <3>1, RestFirst DEF n
  <2>3. <<>> \o Rest(lines, hunks, p) = Rest(lines, hunks, p)
    BY <2>2, ConcatEmptySeq
  <2> QED BY <2>1, <2>2, <2>3
<1>4. ASSUME NEW k \in Nat, k \in N PROVE k + 1 \in N
  <2> SUFFICES ASSUME k + 1 <= d
               PROVE  Rest(lines, hunks, p) = SubSeq(lines, p + 1, p + (k + 1))
                                                \o Rest(lines, hunks, p + (k + 1))
    OBVIOUS
  <2> DEFINE a == SubSeq(lines, p + 1, p + k)
             x == << lines[p + k + 1] >>
             r == Rest(lines, hunks, p + k + 1)
  <2>1. /\ k <= d /\ p + k \in 0 .. n /\ p + (k + 1) = p + k + 1 /\ p + k < n /\ p + k \in Nat
        /\ p + k + 1 \in 1 .. n /\ (p + k + 1) - 1 = p + k /\ p + k < p + d
        /\ p + 1 \in 1 .. n /\ p + k + 1 \in p + 1 .. n
    <3>1. p + d <= n
      BY DEF n
    <3> QED BY <1>1, <3>1
  <2>2. Rest(lines, hunks, p) = a \o Rest(lines, hunks, p + k)
    BY <1>4, <2>1
  <2>3. Slot(lines, hunks, p + k) = x
    <3>1. \A g \in hunks : g.start \in Nat /\ ~(g.start <= p + k) /\ g.start # p + k
      <4>1. \A g \in hunks : g.start \in Nat
        BY DEF Hunk
      <4> QED BY <2>1, <4>1
    <3>2. Ins(hunks, p + k) = <<>>
      BY <3>1, InsAt
    <3>3. Kept(lines, hunks, p + k) = x
      BY <2>1, <3>1 DEF Kept, Gone, n
    <3>4. x \in Seq(Line)
      BY <2>1, <3>3, SlotAt
    <3> HIDE DEF x
    <3> QED BY <3>2, <3>3, <3>4, ConcatEmptySeq DEF Slot
  <2>4. Rest(lines, hunks, p + k) = x \o r /\ r \in Seq(Line)
    BY <2>1, <2>3, RestFirst DEF n
  <2>5. SubSeq(lines, p + 1, p + k + 1) = a \o x
    BY <2>1, SubSeqRecursiveSecond DEF n
  <2>6. a \in Seq(Line) /\ x \in Seq(Line)
    <3>1. \A i \in p + 1 .. p + k : lines[i] \in Line
      BY <1>1, <2>1, ElementOfSeq DEF n
    <3>2. lines[p + k + 1] \in Line
      BY <2>1, ElementOfSeq DEF n
    <3>3. p + 1 \in Int /\ p + k \in Int
      OBVIOUS
    <3> QED BY <3>1, <3>2, <3>3, SubSeqProperties
  <2> HIDE DEF a, x, r
  <2>7. a \o (x \o r) = (a \o x) \o r
    BY <2>4, <2>6, Glue
  <2> QED BY <2>1, <2>2, <2>4, <2>5, <2>7 DEF r
<1>5. d \in N
  <2> HIDE DEF N
  <2> QED BY <1>3, <1>4, Induction
<1> QED BY <1>5

LEMMA Skip ==
  ASSUME NEW lines \in Seq(Line), NEW hunks \in SUBSET Hunk, NEW p \in Nat, NEW q \in Nat,
         p <= q, q <= Len(lines) + 1, \A k \in p .. q - 1 : Slot(lines, hunks, k) = <<>>
  PROVE  Rest(lines, hunks, p) = Rest(lines, hunks, q)
<1> DEFINE N == {k \in Nat : p + k <= q => Rest(lines, hunks, p) = Rest(lines, hunks, p + k)}
<1>1. Len(lines) \in Nat
  BY LenProperties
<1>2. 0 \in N
  OBVIOUS
<1>3. ASSUME NEW k \in Nat, k \in N PROVE k + 1 \in N
  <2> SUFFICES ASSUME p + (k + 1) <= q
               PROVE  Rest(lines, hunks, p) = Rest(lines, hunks, p + (k + 1))
    OBVIOUS
  <2>1. /\ p + k <= q /\ p + k \in p .. q - 1 /\ p + k \in 0 .. Len(lines)
        /\ p + (k + 1) = p + k + 1
    BY <1>1
  <2>2. /\ Rest(lines, hunks, p + k) = Slot(lines, hunks, p + k) \o Rest(lines, hunks, p + k + 1)
        /\ Rest(lines, hunks, p + k + 1) \in Seq(Line)
    BY <2>1, RestFirst
  <2>3. Rest(lines, hunks, p + k) = Rest(lines, hunks, p + k + 1)
    BY <2>1, <2>2, ConcatEmptySeq
  <2> QED BY <1>3, <2>1, <2>3
<1>4. q - p \in N /\ p + (q - p) = q
  <2>1. q - p \in Nat /\ p + (q - p) = q
    OBVIOUS
  <2> HIDE DEF N
  <2> QED BY <1>2, <1>3, <2>1, Induction
<1> QED BY <1>4

\* Two hunks that start apart and have a line of the base each.
Apart(hunks, n) ==
  /\ hunks \in SUBSET Hunk
  /\ \A g \in hunks : g.start + g.deleted <= n
  /\ \A g, h \in hunks : g # h => \/ g.start + Larger(g.deleted, 1) <= h.start
                                  \/ h.start + Larger(h.deleted, 1) <= g.start

From(hunks, p) == {h \in hunks : h.start >= p}

Applied(lines, hunks, text, p) ==
  IF p > Len(lines) THEN lines
  ELSE IF \E h \in hunks : h.start = p
       THEN Splice(text[p + 1], CHOOSE h \in hunks : h.start = p)
       ELSE text[p + 1]

LEMMA ApplyIs ==
  ASSUME NEW X, NEW lines \in Seq(X), NEW hunks
  PROVE  \E text : /\ \A p \in 0 .. Len(lines) + 1 : text[p] = Applied(lines, hunks, text, p)
                   /\ ApplyHunks(lines, hunks) = text[0]
<1> DEFINE n == Len(lines)
           Val(f, p) == Applied(lines, hunks, f, p)
           N == {k \in Nat : k <= n + 1 => \E f : f = [p \in n + 1 - k .. n + 1 |-> Val(f, p)]}
<1>1. n \in Nat
  BY LenProperties
<1> HIDE DEF n
<1>2. 0 \in N
  <2> DEFINE f == [p \in n + 1 .. n + 1 |-> lines]
  <2>1. n + 1 - 0 = n + 1 /\ \A p \in n + 1 .. n + 1 : p > n
    BY <1>1
  <2>2. f = [p \in n + 1 - 0 .. n + 1 |-> Val(f, p)]
    BY <2>1 DEF Applied, n
  <2> HIDE DEF f, Val
  <2> QED BY <2>2
<1>3. ASSUME NEW k \in Nat, k \in N PROVE k + 1 \in N
  <2> DEFINE P(j) == n + 1 - j .. n + 1
  <2> SUFFICES ASSUME k + 1 <= n + 1 PROVE \E f : f = [p \in P(k + 1) |-> Val(f, p)]
    <3> HIDE DEF Val
    <3> QED BY DEF N
  <2>1. PICK f : f = [p \in P(k) |-> Val(f, p)]
    <3> HIDE DEF Val
    <3> QED BY <1>1, <1>3
  <2> DEFINE g == [p \in P(k + 1) |-> Val(f, p)]
  <2>2. /\ \A p \in P(k) : p \in P(k + 1)
        /\ \A p \in P(k + 1) : p <= n => p + 1 \in P(k)
        /\ \A p \in P(k + 1) : p \in Int
    BY <1>1
  <2> HIDE DEF P
  <2>3. \A p \in P(k) : g[p] = f[p]
    <3> HIDE DEF Val
    <3> QED BY <2>1, <2>2
  <2>4. \A p \in P(k + 1) : Val(f, p) = Val(g, p)
    <3> SUFFICES ASSUME NEW p \in P(k + 1) PROVE Val(f, p) = Val(g, p)
      OBVIOUS
    <3> HIDE DEF g
    <3>1. CASE p <= n
      <4>1. g[p + 1] = f[p + 1]
        BY <2>2, <2>3, <3>1
      <4> QED BY <4>1 DEF Applied
    <3>2. CASE p > n
      BY <3>2 DEF Applied, n
    <3> QED BY <1>1, <2>2, <3>1, <3>2
  <2>5. g = [p \in P(k + 1) |-> Val(g, p)]
    <3> HIDE DEF Val
    <3> QED BY <2>4
  <2> HIDE DEF g, Val
  <2> QED BY <2>5
<1>4. n + 1 \in N /\ n + 1 - (n + 1) = 0
  <2>1. n + 1 \in Nat /\ n + 1 - (n + 1) = 0
    BY <1>1
  <2> HIDE DEF N
  <2> QED BY <1>2, <1>3, <2>1, Induction
<1>5. \E f : f = [p \in 0 .. n + 1 |-> Val(f, p)]
  <2> HIDE DEF Val
  <2> QED BY <1>1, <1>4
<1> DEFINE text == CHOOSE f : f = [p \in 0 .. n + 1 |-> Val(f, p)]
<1>6. text = [p \in 0 .. n + 1 |-> Val(text, p)]
  <2> HIDE DEF Val
  <2> QED BY <1>5
<1>7. ApplyHunks(lines, hunks) = text[0]
  BY DEF ApplyHunks, Applied, n
<1> HIDE DEF text
<1>8. \A p \in 0 .. n + 1 : text[p] = Val(text, p)
  <2> HIDE DEF Val
  <2> QED BY <1>6
<1> QED BY <1>7, <1>8 DEF n

\* What a hunk at p makes of the slots behind it.
LEMMA HunkAt ==
  ASSUME NEW lines \in Seq(Line), NEW behind \in SUBSET Hunk, NEW h \in Hunk,
         h.start + h.deleted <= Len(lines),
         \A g \in behind : h.start + Larger(h.deleted, 1) <= g.start
  PROVE  Rest(lines, {h} \cup behind, h.start)
           = h.inserted \o Rest(lines, behind, h.start + h.deleted)
<1> DEFINE n == Len(lines)
           p == h.start
           d == h.deleted
           ins == h.inserted
           S == {h} \cup behind
<1>1. n \in Nat /\ p \in Nat /\ d \in Nat /\ ins \in Seq(Line) /\ p + d <= n
  BY LenProperties DEF Hunk
<1> HIDE DEF n, p, d, ins
<1>2. \A g \in behind : g.start \in Nat /\ g.deleted \in Nat /\ p + d <= g.start /\ p + 1 <= g.start
  <2>1. \A g \in behind : g.start \in Nat /\ g.deleted \in Nat
    BY DEF Hunk
  <2>2. \A g \in behind : p + Larger(d, 1) <= g.start
    BY DEF p, d
  <2>3. p + d <= p + Larger(d, 1) /\ p + 1 <= p + Larger(d, 1) /\ Larger(d, 1) \in Nat
    BY <1>1 DEF Larger
  <2> HIDE DEF p
  <2> QED BY <1>1, <2>1, <2>2, <2>3
<1>3. S \in SUBSET Hunk /\ h \in S /\ h.start = p /\ h.deleted = d /\ h.inserted = ins
  BY DEF p, d, ins
<1>4. \A x \in S : x = h \/ x \in behind
  OBVIOUS
<1>5. \A x \in behind : x \in S
  OBVIOUS
<1> HIDE DEF S
<1>6. Ins(S, p) = ins
  BY <1>1, <1>2, <1>3, <1>4, InsAt
<1>7. Ins(behind, p) = <<>>
  BY <1>1, <1>2, InsAt
<1>8. \A q \in p + 1 .. n : Ins(S, q) = Ins(behind, q)
  <2> SUFFICES ASSUME NEW q \in p + 1 .. n PROVE Ins(S, q) = Ins(behind, q)
    OBVIOUS
  <2>1. q # p
    BY <1>1
  <2>2. {x \in S : x.start = q} = {x \in behind : x.start = q}
    BY <1>3, <1>4, <1>5, <2>1
  <2> QED BY <2>2, InsSame
<1>9. p \in 0 .. n /\ p \in Nat /\ p + 1 \in Nat
  BY <1>1
<1>10. CASE d = 0
  <2> DEFINE kept == Kept(lines, behind, p)
             r == Rest(lines, behind, p + 1)
  <2>1. \A q \in p .. n : Gone(S, q) <=> Gone(behind, q)
    <3> SUFFICES ASSUME NEW q \in p .. n PROVE Gone(S, q) <=> Gone(behind, q)
      OBVIOUS
    <3>1. ~(h.start <= q /\ q < h.start + h.deleted)
      BY <1>1, <1>3, <1>10
    <3> QED BY <1>4, <1>5, <3>1 DEF Gone
  <2>2. Rest(lines, S, p + 1) = r
    <3>1. \A q \in p + 1 .. n : Slot(lines, S, q) = Slot(lines, behind, q)
      <4> SUFFICES ASSUME NEW q \in p + 1 .. n PROVE Slot(lines, S, q) = Slot(lines, behind, q)
        OBVIOUS
      <4>1. q \in p .. n
        BY <1>1
      <4> QED BY <1>8, <2>1, <4>1 DEF Slot, Kept
    <3> QED BY <1>9, <3>1, RestSame DEF n
  <2>3. p \in p .. n
    BY <1>1
  <2>4. Kept(lines, S, p) = kept
    BY <2>1, <2>3 DEF Kept
  <2>5. kept \in Seq(Line) /\ r \in Seq(Line)
    BY <1>9, SlotAt, RestFirst DEF n
  <2> HIDE DEF kept, r
  <2>6. Slot(lines, S, p) = ins \o kept /\ Slot(lines, behind, p) = kept
    <3>1. <<>> \o kept = kept
      BY <2>5, ConcatEmptySeq
    <3> QED BY <1>6, <1>7, <2>4, <3>1 DEF Slot, kept
  <2>7. /\ Rest(lines, S, p) = Slot(lines, S, p) \o Rest(lines, S, p + 1)
        /\ Rest(lines, behind, p) = Slot(lines, behind, p) \o Rest(lines, behind, p + 1)
    BY <1>3, <1>9, RestFirst DEF n
  <2>8. Rest(lines, S, p) = (ins \o kept) \o r /\ Rest(lines, behind, p) = kept \o r
    BY <2>2, <2>6, <2>7 DEF r
  <2>9. ins \o (kept \o r) = (ins \o kept) \o r
    BY <1>1, <2>5, Glue
  <2>10. p + d = p
    BY <1>1, <1>10
  <2> QED BY <2>8, <2>9, <2>10 DEF S, p, d, ins
<1>11. CASE d # 0
  <2>1. \A q \in p .. p + d - 1 : Gone(S, q)
    <3>1. \A q \in p .. p + d - 1 : h.start <= q /\ q < h.start + h.deleted
      BY <1>1, <1>3
    <3> QED BY <1>3, <3>1 DEF Gone
  <2>2. Slot(lines, S, p) = ins
    <3>1. p \in p .. p + d - 1
      BY <1>1, <1>11
    <3>2. Kept(lines, S, p) = <<>>
      BY <2>1, <3>1 DEF Kept
    <3> QED BY <1>1, <1>6, <3>2, ConcatEmptySeq DEF Slot
  <2>3. \A q \in p + 1 .. (p + d) - 1 : Slot(lines, S, q) = <<>>
    <3> SUFFICES ASSUME NEW q \in p + 1 .. (p + d) - 1 PROVE Slot(lines, S, q) = <<>>
      OBVIOUS
    <3>1. q \in p .. p + d - 1 /\ q # p /\ q < p + d
      BY <1>1
    <3>2. \A x \in S : x.start # q
      BY <1>1, <1>2, <1>3, <1>4, <3>1
    <3>3. Ins(S, q) = <<>>
      BY <1>3, <3>2, InsAt
    <3>4. Kept(lines, S, q) = <<>>
      BY <2>1, <3>1 DEF Kept
    <3>5. <<>> \o <<>> = <<>>
      OBVIOUS
    <3> QED BY <3>3, <3>4, <3>5 DEF Slot
  <2>4. Rest(lines, S, p + 1) = Rest(lines, S, p + d)
    <3>1. p + 1 \in Nat /\ p + d \in Nat /\ p + 1 <= p + d /\ p + d <= n + 1
      BY <1>1, <1>11
    <3> DEFINE a == p + 1
               b == p + d
    <3>2. a \in Nat /\ b \in Nat /\ a <= b /\ b <= Len(lines) + 1
      BY <3>1 DEF n
    <3>3. \A q \in a .. b - 1 : Slot(lines, S, q) = <<>>
      BY <2>3
    <3> HIDE DEF a, b
    <3>4. Rest(lines, S, a) = Rest(lines, S, b)
      BY <1>3, <3>2, <3>3, Skip
    <3> QED BY <3>4 DEF a, b
  <2>5. Rest(lines, S, p + d) = Rest(lines, behind, p + d)
    <3>1. \A q \in p + d .. n : Slot(lines, S, q) = Slot(lines, behind, q)
      <4> SUFFICES ASSUME NEW q \in p + d .. n PROVE Slot(lines, S, q) = Slot(lines, behind, q)
        OBVIOUS
      <4>1. q \in p + 1 .. n /\ ~(q < h.start + h.deleted)
        BY <1>1, <1>3, <1>11
      <4>2. Gone(S, q) <=> Gone(behind, q)
        BY <1>4, <1>5, <4>1 DEF Gone
      <4> QED BY <1>8, <4>1, <4>2 DEF Slot, Kept
    <3>2. p + d \in Nat
      BY <1>1
    <3> QED BY <3>1, <3>2, RestSame DEF n
  <2>6. Rest(lines, S, p) = ins \o Rest(lines, S, p + 1)
    BY <1>3, <1>9, <2>2, RestFirst DEF n
  <2> QED BY <2>4, <2>5, <2>6 DEF S, p, d, ins
<1> QED BY <1>10, <1>11

LEMMA SpliceAt ==
  ASSUME NEW a \in Seq(Line), NEW b \in Seq(Line), NEW c \in Seq(Line), NEW h \in Hunk,
         Len(a) = h.start, Len(b) = h.deleted
  PROVE  Splice(a \o (b \o c), h) = (a \o h.inserted) \o c
<1> DEFINE bc == b \o c
           ab == a \o b
           t == a \o bc
<1>1. bc \in Seq(Line) /\ ab \in Seq(Line) /\ Len(ab) = Len(a) + Len(b)
  BY ConcatProperties
<1>2. t = ab \o c
  BY Glue
<1>3. SubSeq(t, 1, h.start) = a
  <2> HIDE DEF bc
  <2> QED BY <1>1, Halves
<1>4. SubSeq(t, h.start + h.deleted + 1, Len(t)) = c
  <2>1. SubSeq(ab \o c, Len(ab) + 1, Len(ab \o c)) = c
    <3> HIDE DEF ab
    <3> QED BY <1>1, Halves
  <2>2. Len(ab) + 1 = h.start + h.deleted + 1
    BY <1>1
  <2> HIDE DEF t, ab
  <2> QED BY <1>2, <2>1, <2>2
<1> HIDE DEF t, bc
<1> QED BY <1>3, <1>4 DEF Splice, t, bc

LEMMA AppliedFrom ==
  ASSUME NEW lines \in Seq(Line), NEW hunks, Apart(hunks, Len(lines)), NEW text,
         \A p \in 0 .. Len(lines) + 1 : text[p] = Applied(lines, hunks, text, p)
  PROVE  text[0] = Rest(lines, From(hunks, 0), 0)
<1> DEFINE n == Len(lines)
           Till(p) == IF p <= n THEN p ELSE n
           Good(p) == text[p] = SubSeq(lines, 1, Till(p)) \o Rest(lines, From(hunks, p), p)
           N == {k \in Nat : k <= n + 1 => Good(n + 1 - k)}
<1>1. n \in Nat
  BY LenProperties
<1>2. \A p : From(hunks, p) \in SUBSET Hunk
  BY DEF From, Apart
<1>3. \A p \in 0 .. n : SubSeq(lines, 1, p) \in Seq(Line) /\ Len(SubSeq(lines, 1, p)) = p
  <2> SUFFICES ASSUME NEW p \in 0 .. n
               PROVE  SubSeq(lines, 1, p) \in Seq(Line) /\ Len(SubSeq(lines, 1, p)) = p
    OBVIOUS
  <2>1. \A i \in 1 .. p : lines[i] \in Line
    BY <1>1, ElementOfSeq
  <2>2. 1 \in Int /\ p \in Int /\ p - 1 + 1 = p /\ (1 <= p \/ p = 0)
    BY <1>1
  <2> QED BY <2>1, <2>2, SubSeqProperties
<1> HIDE DEF n
<1>4. 0 \in N
  <2>1. n + 1 - 0 = n + 1 /\ n + 1 \in 0 .. n + 1 /\ n + 1 > n /\ ~(n + 1 <= n)
    BY <1>1
  <2>2. text[n + 1] = lines
    BY <2>1 DEF Applied, n
  <2>3. Rest(lines, From(hunks, n + 1), n + 1) = <<>>
    BY <1>2, RestEnd DEF n
  <2>4. SubSeq(lines, 1, n) = lines /\ lines \o <<>> = lines
    BY SubSeqFull, ConcatEmptySeq DEF n
  <2>5. Till(n + 1) = n
    BY <2>1
  <2>6. Good(n + 1)
    <3> HIDE DEF Till
    <3> QED BY <2>2, <2>3, <2>4, <2>5
  <2> HIDE DEF Good
  <2> QED BY <2>1, <2>6
<1>5. ASSUME NEW p \in 0 .. n, Good(p + 1) PROVE Good(p)
  <2> DEFINE S == From(hunks, p + 1)
             a == SubSeq(lines, 1, p)
             T == text[p + 1]
  <2>1. p \in Nat /\ p + 1 \in Nat /\ p \in 0 .. n + 1 /\ ~(p > n) /\ Till(p) = p
    BY <1>1
  <2>2. S \in SUBSET Hunk /\ \A g \in S : g \in hunks /\ g.start \in Nat /\ p + 1 <= g.start
    <3>1. S \in SUBSET Hunk
      BY <1>2
    <3>2. \A g \in S : g \in hunks /\ g.start >= p + 1
      BY DEF From
    <3> HIDE DEF S
    <3>3. \A g \in S : g.start \in Nat
      BY <3>1 DEF Hunk
    <3> QED BY <2>1, <3>1, <3>2, <3>3
  <2>3. a \in Seq(Line) /\ Len(a) = p
    BY <1>3
  <2> HIDE DEF a
  \* With nothing at p yet, the line after it is still there.
  <2>4. T = a \o Rest(lines, S, p)
    <3> DEFINE x == Slot(lines, S, p)
               r == Rest(lines, S, p + 1)
    <3>1. Rest(lines, S, p) = x \o r /\ r \in Seq(Line) /\ x \in Seq(Line)
      BY <2>1, <2>2, RestFirst, SlotAt DEF n
    <3>2. SubSeq(lines, 1, Till(p + 1)) = a \o x
      <4>1. Ins(S, p) = <<>> /\ ~Gone(S, p)
        <5>1. \A g \in S : g.start # p /\ ~(g.start <= p)
          BY <2>1, <2>2
        <5> QED BY <2>2, <5>1, InsAt DEF Gone
      <4>2. CASE p < n
        <5>1. p + 1 \in 1 .. n /\ (p + 1) - 1 = p /\ 1 \in 1 .. n /\ p + 1 <= n
          <6>1. p \in Nat
            BY <2>1
          <6> QED BY ONLY <1>1, <4>2, <6>1
        <5>2. << lines[p + 1] >> \in Seq(Line)
          BY <5>1, ElementOfSeq DEF n
        <5>3. x = << lines[p + 1] >>
          BY <4>1, <4>2, <5>2, ConcatEmptySeq DEF Slot, Kept, n
        <5>4. SubSeq(lines, 1, p + 1) = a \o << lines[p + 1] >>
          BY <5>1, SubSeqRecursiveSecond DEF n, a
        <5> HIDE DEF x
        <5> QED BY <5>1, <5>3, <5>4
      <4>3. CASE ~(p < n)
        <5>1. p = n /\ Till(p + 1) = n
          BY <1>1, <2>1, <4>3
        <5>2. <<>> \o <<>> = <<>>
          OBVIOUS
        <5>3. x = <<>>
          BY <4>1, <4>3, <5>2 DEF Slot, Kept, n
        <5>4. a \o <<>> = a
          BY <2>3, ConcatEmptySeq
        <5> HIDE DEF x, Till
        <5> QED BY <5>1, <5>3, <5>4 DEF a
      <4> QED BY <4>2, <4>3
    <3> DEFINE b == SubSeq(lines, 1, Till(p + 1))
    <3>3. T = b \o r
      BY <1>5
    <3> HIDE DEF x, r, b, T
    <3>4. a \o (x \o r) = (a \o x) \o r
      BY <2>3, <3>1, Glue
    <3> QED BY <3>1, <3>2, <3>3, <3>4 DEF b
  <2>5. text[p] = Applied(lines, hunks, text, p)
    BY <2>1 DEF n
  <2>6. CASE \A h \in hunks : h.start # p
    <3>1. From(hunks, p) = S
      <4>1. \A h \in hunks : h.start \in Nat
        BY DEF Apart, Hunk
      <4>2. \A h \in hunks : h.start >= p <=> h.start >= p + 1
        BY <2>1, <2>6, <4>1
      <4> QED BY <4>2 DEF From
    <3>2. text[p] = T
      BY <2>1, <2>5, <2>6 DEF Applied, n
    <3> HIDE DEF S, T, Till
    <3> QED BY <2>1, <2>4, <3>1, <3>2 DEF a
  <2>7. CASE \E h \in hunks : h.start = p
    <3> DEFINE h == CHOOSE g \in hunks : g.start = p
    <3>1. h \in hunks /\ h.start = p
      BY <2>7
    <3>2. text[p] = Splice(T, h)
      BY <2>1, <2>5, <2>7 DEF Applied, n
    <3> HIDE DEF h, S, T
    <3>3. h \in Hunk /\ h.deleted \in Nat /\ h.inserted \in Seq(Line) /\ p + h.deleted <= n
      BY <3>1 DEF Apart, Hunk, n
    <3>4. \A g \in hunks : g = h \/ h.start + Larger(h.deleted, 1) <= g.start
                               \/ g.start + Larger(g.deleted, 1) <= h.start
      BY <3>1 DEF Apart
    <3>5. \A g \in hunks : g.start \in Nat /\ g.deleted \in Nat /\ Larger(g.deleted, 1) \in Nat
                           /\ 1 <= Larger(g.deleted, 1) /\ g.deleted <= Larger(g.deleted, 1)
      <4>1. \A g \in hunks : g.start \in Nat /\ g.deleted \in Nat
        BY DEF Apart, Hunk
      <4> QED BY <4>1 DEF Larger
    <3>6. From(hunks, p) = {h} \cup S
      <4>1. \A g \in hunks : g.start >= p <=> g = h \/ g.start >= p + 1
        BY <2>1, <3>1, <3>4, <3>5
      <4> QED BY <3>1, <4>1 DEF From, S
    <3>7. \A g \in S : h.start + Larger(h.deleted, 1) <= g.start
      BY SMTT(30), <2>1, <2>2, <3>1, <3>4, <3>5
    <3> DEFINE d == h.deleted
               b == SubSeq(lines, p + 1, p + d)
               c == Rest(lines, S, p + d)
               ins == h.inserted
    <3>8. Rest(lines, {h} \cup S, p) = ins \o c
      BY <2>2, <3>1, <3>3, <3>7, HunkAt DEF n
    <3>9. Rest(lines, S, p) = b \o c
      <4>1. \A g \in S : p + d <= g.start
        BY <2>1, <2>2, <3>1, <3>3, <3>5, <3>7
      <4> HIDE DEF d
      <4>2. d \in Nat /\ p + d <= n
        BY <3>3 DEF d
      <4> QED BY <2>1, <2>2, <4>1, <4>2, Plain DEF n
    <3>10. b \in Seq(Line) /\ Len(b) = d /\ c \in Seq(Line)
      <4> HIDE DEF d
      <4>1. d \in Nat /\ p + d <= n /\ p + d \in 0 .. n
        BY <2>1, <3>3 DEF d
      <4>2. \A i \in p + 1 .. p + d : lines[i] \in Line
        BY <2>1, <4>1, ElementOfSeq DEF n
      <4>3. /\ p + 1 \in Int /\ p + d \in Int /\ (p + d) - (p + 1) + 1 = d
            /\ (p + 1 <= p + d \/ d = 0) /\ (p + 1 <= p + d <=> d # 0)
        BY <2>1, <4>1
      <4>4. b \in Seq(Line) /\ Len(b) = d
        BY <4>2, <4>3, SubSeqProperties
      <4>5. c \in Seq(Line)
        BY <2>2, <4>1, RestFirst DEF n
      <4> QED BY <4>4, <4>5
    <3> HIDE DEF b, c, ins
    <3>11. Splice(a \o (b \o c), h) = (a \o ins) \o c
      <4>1. /\ a \in Seq(Line) /\ b \in Seq(Line) /\ c \in Seq(Line) /\ h \in Hunk
            /\ Len(a) = h.start /\ Len(b) = h.deleted
        BY <2>3, <3>1, <3>3, <3>10
      <4>2. Splice(a \o (b \o c), h) = (a \o h.inserted) \o c
        BY ONLY SMTT(30), <4>1, SpliceAt
      <4> QED BY <4>2 DEF ins
    <3>12. a \o (ins \o c) = (a \o ins) \o c
      <4>1. ins \in Seq(Line)
        BY <3>3 DEF ins
      <4> QED BY <2>3, <3>10, <4>1, Glue
    <3> HIDE DEF Till
    <3> QED BY <2>1, <2>4, <3>2, <3>6, <3>8, <3>9, <3>11, <3>12 DEF a
  <2> QED BY <2>6, <2>7
<1>6. ASSUME NEW k \in Nat, k \in N PROVE k + 1 \in N
  <2> SUFFICES ASSUME k + 1 <= n + 1 PROVE Good(n + 1 - (k + 1))
    <3> HIDE DEF Good
    <3> QED BY DEF N
  <2>1. n + 1 - (k + 1) \in 0 .. n /\ (n + 1 - (k + 1)) + 1 = n + 1 - k /\ k <= n + 1
    BY <1>1
  <2> HIDE DEF Good
  <2> QED BY <1>5, <1>6, <2>1
<1>7. n + 1 \in N /\ n + 1 - (n + 1) = 0
  <2>1. n + 1 \in Nat /\ n + 1 - (n + 1) = 0
    BY <1>1
  <2> HIDE DEF N
  <2> QED BY <1>4, <1>6, <2>1, Induction
<1>8. Good(0)
  <2> HIDE DEF Good
  <2> QED BY <1>1, <1>7
<1>9. SubSeq(lines, 1, 0) = <<>>
  BY SubSeqEmpty
<1>10. Rest(lines, From(hunks, 0), 0) \in Seq(Line) /\ Till(0) = 0
  BY <1>1, <1>2, RestFirst DEF n
<1> DEFINE r == Rest(lines, From(hunks, 0), 0)
<1>11. text[0] = <<>> \o r /\ r \in Seq(Line)
  BY <1>8, <1>9, <1>10
<1> HIDE DEF r
<1>12. text[0] = r
  BY <1>11, ConcatEmptySeq
<1> QED BY <1>12 DEF r

LEMMA ApplyIsRest ==
  ASSUME NEW lines \in Seq(Line), NEW hunks, Apart(hunks, Len(lines))
  PROVE  ApplyHunks(lines, hunks) = Rest(lines, hunks, 0)
<1>1. PICK text : /\ \A p \in 0 .. Len(lines) + 1 : text[p] = Applied(lines, hunks, text, p)
                  /\ ApplyHunks(lines, hunks) = text[0]
  BY ApplyIs
<1>2. text[0] = Rest(lines, From(hunks, 0), 0)
  BY <1>1, AppliedFrom
<1>3. From(hunks, 0) = hunks
  <2>1. \A h \in hunks : h.start \in Nat
    BY DEF Apart, Hunk
  <2> QED BY <2>1 DEF From
<1> QED BY <1>1, <1>2, <1>3

\* The hunks of one diff are apart, and so are those of two that do not overlap.
LEMMA OneDiff ==
  ASSUME NEW n \in Nat, NEW hunks, Chain(hunks, 0, n)
  PROVE  Apart(ToSet(hunks), n)
<1> DEFINE G == ToSet(hunks)
<1>1. /\ G \in SUBSET Hunk /\ \A g \in G : g.start + g.deleted <= n
      /\ \A g, h \in G : g # h => \/ g.start + g.deleted < h.start
                                  \/ h.start + h.deleted < g.start
  BY ChainSet
<1> HIDE DEF G
<1>2. \A g \in G : g.start \in Nat /\ g.deleted \in Nat
  BY <1>1 DEF Hunk
<1>3. \A g, h \in G : g.start + g.deleted < h.start => g.start + Larger(g.deleted, 1) <= h.start
  BY <1>2 DEF Larger
<1> QED BY <1>1, <1>3 DEF Apart, G

LEMMA TwoDiffs ==
  ASSUME NEW n \in Nat, NEW G, NEW H, Apart(G, n), Apart(H, n),
         \A g \in G, h \in H : ~overlaps(g, h)
  PROVE  Apart(G \cup H, n)
<1>1. \A g \in G \cup H : g \in Hunk /\ g.start + g.deleted <= n
  BY DEF Apart
<1>2. \A g \in G \cup H : g.start \in Nat /\ Larger(g.deleted, 1) \in Nat
  <2>1. \A g \in G \cup H : g.start \in Nat /\ g.deleted \in Nat
    BY <1>1 DEF Hunk
  <2> QED BY <2>1 DEF Larger
<1>3. \A g \in G, h \in H : \/ g.start + Larger(g.deleted, 1) <= h.start
                            \/ h.start + Larger(h.deleted, 1) <= g.start
  BY <1>2 DEF overlaps
<1> QED BY <1>1, <1>3 DEF Apart

(***************************************************************************)
(* diffLines is a diff, of texts of any length: its hunks applied to the   *)
(* base give the other text (diffLines, applyHunks).                       *)
(***************************************************************************)
THEOREM TheDiffGivesTheOtherText ==
  \A one, other \in Seq(Line) : ApplyHunks(one, ToSet(diffLines(one, other))) = other
<1> SUFFICES ASSUME NEW one \in Seq(Line), NEW other \in Seq(Line)
             PROVE  ApplyHunks(one, ToSet(diffLines(one, other))) = other
  OBVIOUS
<1> DEFINE hunks == diffLines(one, other)
<1>1. Chain(hunks, 0, Len(one)) /\ Rest(one, ToSet(hunks), 0) = other
  BY DiffIsADiff
<1> HIDE DEF hunks
<1>2. Apart(ToSet(hunks), Len(one))
  BY <1>1, OneDiff, LenProperties
<1> QED BY <1>1, <1>2, ApplyIsRest DEF hunks

(***************************************************************************)
(* For texts of any length: what merge3 accepts is both edits, slot by     *)
(* slot. The base is one of the texts or neither is: where it is, one of   *)
(* the diffs is empty.                                                     *)
(***************************************************************************)
MergesBoth(one, mine, yours) ==
  LET m == merge3(one, mine, yours)
  IN  m.ok /\ mine # yours =>
        m.content = joinLines(SlotMerge(one, ToSet(diffLines(one, mine))
                                             \cup ToSet(diffLines(one, yours))))

THEOREM AMergeIsBothEdits ==
  \A one, mine, yours \in Texts : MergesBoth(one, mine, yours)
<1> SUFFICES ASSUME NEW one \in Texts, NEW mine \in Texts, NEW yours \in Texts
             PROVE  MergesBoth(one, mine, yours)
  OBVIOUS
<1> DEFINE G == ToSet(diffLines(one, mine))
           H == ToSet(diffLines(one, yours))
           m == merge3(one, mine, yours)
<1>1. one \in Seq(Line) /\ mine \in Seq(Line) /\ yours \in Seq(Line)
  BY DEF Texts
<1>2. joinLines(mine) = mine /\ joinLines(yours) = yours
  BY DEF Texts, joinLines
<1>3. /\ Chain(diffLines(one, mine), 0, Len(one)) /\ Rest(one, G, 0) = mine
      /\ Chain(diffLines(one, yours), 0, Len(one)) /\ Rest(one, H, 0) = yours
  BY <1>1, DiffIsADiff
<1>4. ToSet(diffLines(one, one)) = {}
  BY <1>1, NoDiff DEF ToSet
<1>5. SlotMerge(one, G \cup H) = Rest(one, G \cup H, 0)
  <2> DEFINE U == G \cup H
  <2> HIDE DEF U
  <2>1. SlotMerge(one, U) = Rest(one, U, 0)
    BY <1>1, SlotMergeIsRest
  <2> QED BY <2>1 DEF U
<1>6. SUFFICES ASSUME m.ok, mine # yours
               PROVE  m.content = joinLines(Rest(one, G \cup H, 0))
  BY <1>5 DEF MergesBoth
<1>7. CASE one = yours
  <2>1. m.content = mine
    BY <1>6, <1>7 DEF merge3, Clean
  <2>2. G \cup H = G
    BY <1>4, <1>7
  <2> HIDE DEF G, H, m
  <2> QED BY <1>2, <1>3, <2>1, <2>2
<1>8. CASE one # yours /\ one = mine
  <2>1. m.content = yours
    BY <1>6, <1>8 DEF merge3, Clean
  <2>2. G \cup H = H
    BY <1>4, <1>8
  <2> HIDE DEF G, H, m
  <2> QED BY <1>2, <1>3, <2>1, <2>2
<1>9. CASE one # yours /\ one # mine
  <2>1. /\ \A g \in G, h \in H : ~overlaps(g, h)
        /\ m.content = joinLines(ApplyHunks(one, G \cup H))
    <3> HIDE DEF G, H
    <3>1. m = IF \E g \in G, h \in H : overlaps(g, h)
              THEN [ok        |-> FALSE,
                    content   |-> yours,
                    conflicts |-> MergeConflicts(diffLines(one, mine), diffLines(one, yours))]
              ELSE Clean(joinLines(ApplyHunks(one, G \cup H)))
      BY <1>6, <1>9 DEF merge3, G, H
    <3> HIDE DEF m
    <3> QED BY <1>6, <3>1 DEF Clean
  <2>2. Len(one) \in Nat
    BY <1>1, LenProperties
  <2>3. Apart(G, Len(one)) /\ Apart(H, Len(one))
    BY <1>3, <2>2, OneDiff
  <2> HIDE DEF G, H, m
  <2> DEFINE U == G \cup H
  <2>4. Apart(U, Len(one))
    BY <2>1, <2>2, <2>3, TwoDiffs
  <2> HIDE DEF U
  <2>5. ApplyHunks(one, U) = Rest(one, U, 0)
    BY <1>1, <2>4, ApplyIsRest
  <2> QED BY <2>1, <2>5 DEF U
<1> QED BY <1>7, <1>8, <1>9

-----------------------------------------------------------------------------
(* Blame: the hunks of a diff do to the entries what they do to the lines. *)

\* Lines t with entries e: R says which entries may go with which line.
Matched(R, t, e) ==
  /\ Len(t) = Len(e)
  /\ \A i \in 1 .. Len(t) : << t[i], e[i] >> \in R

LEMMA JoinMatched ==
  ASSUME NEW X, NEW R, NEW t \in Seq(Line), NEW e \in Seq(X), Matched(R, t, e),
         NEW u \in Seq(Line), NEW g \in Seq(X), Matched(R, u, g)
  PROVE  Matched(R, t \o u, e \o g)
<1> DEFINE n == Len(t)
           m == Len(u)
           tu == t \o u
           eg == e \o g
<1>1. n \in Nat /\ m \in Nat /\ Len(e) = n /\ Len(g) = m
  BY LenProperties DEF Matched
<1>2. Len(tu) = n + m /\ \A i \in 1 .. n + m : tu[i] = IF i <= n THEN t[i] ELSE u[i - n]
  BY ConcatProperties
<1>3. Len(eg) = n + m /\ \A i \in 1 .. n + m : eg[i] = IF i <= n THEN e[i] ELSE g[i - n]
  <2> HIDE DEF n, m
  <2>1. /\ Len(eg) = Len(e) + Len(g)
        /\ \A i \in 1 .. Len(e) + Len(g) : eg[i] = IF i <= Len(e) THEN e[i] ELSE g[i - Len(e)]
    BY ConcatProperties
  <2> QED BY <1>1, <2>1
<1>4. /\ \A i \in 1 .. n : << t[i], e[i] >> \in R
      /\ \A i \in 1 .. m : << u[i], g[i] >> \in R
  BY DEF Matched
<1> HIDE DEF n, m, tu, eg
<1>5. \A i \in 1 .. n + m : (i <= n /\ i \in 1 .. n) \/ (~(i <= n) /\ i - n \in 1 .. m)
  BY <1>1
<1>6. \A i \in 1 .. n + m : << tu[i], eg[i] >> \in R
  BY <1>2, <1>3, <1>4, <1>5
<1> QED BY <1>2, <1>3, <1>6 DEF Matched, tu, eg

LEMMA PartMatched ==
  ASSUME NEW X, NEW R, NEW t \in Seq(Line), NEW e \in Seq(X), Matched(R, t, e),
         NEW a \in Nat \ {0}, NEW b \in Nat, b <= Len(t)
  PROVE  /\ SubSeq(t, a, b) \in Seq(Line) /\ SubSeq(e, a, b) \in Seq(X)
         /\ Matched(R, SubSeq(t, a, b), SubSeq(e, a, b))
         /\ a = 1 => Len(SubSeq(t, a, b)) = b
<1> DEFINE n == Len(t)
           l == IF a <= b THEN b - a + 1 ELSE 0
           st == SubSeq(t, a, b)
           se == SubSeq(e, a, b)
<1>1. n \in Nat /\ Len(e) = n /\ \A i \in 1 .. n : << t[i], e[i] >> \in R
  BY LenProperties DEF Matched
<1>2. \A i \in a .. b : i \in 1 .. n
  BY <1>1
<1>3. (\A i \in a .. b : t[i] \in Line) /\ (\A i \in a .. b : e[i] \in X)
  BY <1>1, <1>2, ElementOfSeq
<1> HIDE DEF n
<1>4. st \in Seq(Line) /\ Len(st) = l /\ \A i \in 1 .. b - a + 1 : st[i] = t[a + i - 1]
  BY <1>3, SubSeqProperties
<1>5. se \in Seq(X) /\ Len(se) = l /\ \A i \in 1 .. b - a + 1 : se[i] = e[a + i - 1]
  BY <1>3, SubSeqProperties
<1>6. \A i \in 1 .. l : i \in 1 .. b - a + 1 /\ a + i - 1 \in a .. b
  OBVIOUS
<1>7. a = 1 => l = b
  OBVIOUS
<1> HIDE DEF l, st, se
<1>8. \A i \in 1 .. l : << st[i], se[i] >> \in R
  BY <1>1, <1>2, <1>4, <1>5, <1>6
<1> QED BY <1>4, <1>5, <1>7, <1>8 DEF Matched, st, se

\* A hunk on the entries that does what h does to the lines.
Fits(X, R, h, g) ==
  /\ g.start = h.start /\ g.deleted = h.deleted
  /\ g.inserted \in Seq(X) /\ Matched(R, h.inserted, g.inserted)

LEMMA SpliceMatched ==
  ASSUME NEW X, NEW R, NEW t \in Seq(Line), NEW e \in Seq(X), Matched(R, t, e),
         NEW h \in Hunk, NEW g, Fits(X, R, h, g), h.start <= Len(t)
  PROVE  /\ Splice(t, h) \in Seq(Line) /\ Splice(e, g) \in Seq(X)
         /\ Matched(R, Splice(t, h), Splice(e, g))
         /\ h.start <= Len(Splice(t, h))
<1> DEFINE a == SubSeq(t, 1, h.start)
           b == SubSeq(e, 1, h.start)
           x == h.inserted
           y == g.inserted
           c == SubSeq(t, h.start + h.deleted + 1, Len(t))
           d == SubSeq(e, h.start + h.deleted + 1, Len(t))
<1>1. /\ h.start \in Nat /\ h.start + h.deleted + 1 \in Nat \ {0} /\ x \in Seq(Line)
      /\ y \in Seq(X) /\ Len(t) \in Nat /\ Len(e) = Len(t) /\ Matched(R, x, y)
  BY LenProperties DEF Hunk, Fits, Matched
<1>2. a \in Seq(Line) /\ b \in Seq(X) /\ Matched(R, a, b) /\ Len(a) = h.start
  BY <1>1, PartMatched
<1>3. c \in Seq(Line) /\ d \in Seq(X) /\ Matched(R, c, d)
  <2> DEFINE from == h.start + h.deleted + 1
  <2>1. from \in Nat \ {0} /\ Len(t) \in Nat /\ Len(t) <= Len(t)
    BY <1>1
  <2> HIDE DEF from
  <2>2. /\ SubSeq(t, from, Len(t)) \in Seq(Line) /\ SubSeq(e, from, Len(t)) \in Seq(X)
        /\ Matched(R, SubSeq(t, from, Len(t)), SubSeq(e, from, Len(t)))
    BY <2>1, PartMatched
  <2> QED BY <2>2 DEF from
<1>4. Splice(t, h) = a \o x \o c /\ Splice(e, g) = b \o y \o d
  BY <1>1 DEF Splice, Fits
<1> HIDE DEF a, b, c, d, x, y
<1>5. /\ a \o x \in Seq(Line) /\ b \o y \in Seq(X) /\ Matched(R, a \o x, b \o y)
      /\ Len(a \o x) = Len(a) + Len(x)
  BY <1>1, <1>2, JoinMatched, ConcatProperties, ZenonT(30)
<1> DEFINE ax == a \o x
           by == b \o y
<1> HIDE DEF ax, by
<1>6. /\ ax \o c \in Seq(Line) /\ by \o d \in Seq(X) /\ Matched(R, ax \o c, by \o d)
      /\ Len(ax \o c) = Len(ax) + Len(c)
  <2>1. ax \in Seq(Line) /\ by \in Seq(X) /\ Matched(R, ax, by)
    BY <1>5 DEF ax, by
  <2> QED BY <1>3, <2>1, JoinMatched, ConcatProperties
<1>7. h.start <= Len(ax \o c)
  <2>1. Len(ax) = h.start + Len(x) /\ Len(x) \in Nat /\ Len(c) \in Nat
    BY <1>1, <1>2, <1>3, <1>5, LenProperties DEF ax
  <2> QED BY <1>1, <1>6, <2>1, SMTT(30)
<1> QED BY <1>4, <1>6, <1>7 DEF ax, by

\* others does to the entries what hunks do to the lines.
AllFit(X, R, hunks, others) ==
  /\ hunks \in SUBSET Hunk
  /\ \A h \in hunks : \E g \in others : Fits(X, R, h, g)
  /\ \A g \in others : \E h \in hunks : Fits(X, R, h, g)
  /\ \A g, h \in hunks : g.start = h.start => g = h

LEMMA ApplyMatched ==
  ASSUME NEW X, NEW R, NEW t \in Seq(Line), NEW e \in Seq(X), Matched(R, t, e),
         NEW hunks, NEW others, AllFit(X, R, hunks, others)
  PROVE  /\ ApplyHunks(e, others) \in Seq(X)
         /\ Matched(R, ApplyHunks(t, hunks), ApplyHunks(e, others))
<1> DEFINE n == Len(t)
           Till(p) == IF p <= n THEN p ELSE n
<1>1. PICK text : /\ \A p \in 0 .. n + 1 : text[p] = Applied(t, hunks, text, p)
                  /\ ApplyHunks(t, hunks) = text[0]
  BY ApplyIs
<1>2. Len(e) = n /\ n \in Nat
  BY LenProperties DEF Matched
<1>3. PICK blame : /\ \A p \in 0 .. n + 1 : blame[p] = Applied(e, others, blame, p)
                   /\ ApplyHunks(e, others) = blame[0]
  <2> HIDE DEF n
  <2> QED BY <1>2, ApplyIs
<1> DEFINE Good(p) == /\ text[p] \in Seq(Line) /\ blame[p] \in Seq(X)
                      /\ Matched(R, text[p], blame[p]) /\ Till(p) <= Len(text[p])
           N == {k \in Nat : k <= n + 1 => Good(n + 1 - k)}
<1> HIDE DEF n
<1>4. 0 \in N
  <2>1. n + 1 - 0 = n + 1 /\ n + 1 \in 0 .. n + 1 /\ n + 1 > n /\ ~(n + 1 <= n) /\ n <= n
    BY <1>2
  <2>2. text[n + 1] = t /\ blame[n + 1] = e
    BY <1>1, <1>2, <1>3, <2>1 DEF Applied, n
  <2>3. Good(n + 1)
    BY <2>1, <2>2 DEF n
  <2> HIDE DEF Good
  <2> QED BY <2>1, <2>3
<1>5. ASSUME NEW p \in 0 .. n, Good(p + 1) PROVE Good(p)
  <2> DEFINE T == text[p + 1]
             E == blame[p + 1]
  <2>1. p \in Nat /\ p \in 0 .. n + 1 /\ ~(p > n) /\ Till(p) = p /\ p <= Till(p + 1)
        /\ Till(p + 1) \in Nat
    BY <1>2
  <2>2. text[p] = Applied(t, hunks, text, p) /\ blame[p] = Applied(e, others, blame, p)
    BY <1>1, <1>3, <2>1
  <2>3. /\ text[p] = IF \E h \in hunks : h.start = p
                     THEN Splice(T, CHOOSE h \in hunks : h.start = p) ELSE T
        /\ blame[p] = IF \E h \in others : h.start = p
                      THEN Splice(E, CHOOSE h \in others : h.start = p) ELSE E
    BY <1>2, <2>1, <2>2 DEF Applied, n
  <2>4. /\ T \in Seq(Line) /\ E \in Seq(X) /\ Matched(R, T, E)
        /\ p <= Len(T)
    <3>1. Till(p + 1) <= Len(T) /\ Len(T) \in Nat
      BY <1>5, LenProperties
    <3> HIDE DEF Till, T
    <3> QED BY <1>5, <2>1, <3>1 DEF T
  <2>5. (\E h \in hunks : h.start = p) <=> (\E h \in others : h.start = p)
    BY DEF AllFit, Fits
  <2> HIDE DEF T, E, Till
  <2>6. CASE ~\E h \in hunks : h.start = p
    BY <2>1, <2>3, <2>4, <2>5, <2>6
  <2>7. CASE \E h \in hunks : h.start = p
    <3> DEFINE h == CHOOSE x \in hunks : x.start = p
               g == CHOOSE x \in others : x.start = p
    <3>1. h \in hunks /\ h.start = p
      BY <2>7
    <3>2. g \in others /\ g.start = p
      BY <2>5, <2>7
    <3>3. text[p] = Splice(T, h) /\ blame[p] = Splice(E, g)
      BY <2>3, <2>5, <2>7
    <3> HIDE DEF h, g
    <3>4. h \in Hunk /\ Fits(X, R, h, g)
      <4>1. PICK x \in hunks : Fits(X, R, x, g)
        BY <3>2 DEF AllFit
      <4>2. x = h
        BY <3>1, <3>2, <4>1 DEF AllFit, Fits
      <4> QED BY <3>1, <4>1, <4>2 DEF AllFit
    <3>5. /\ Splice(T, h) \in Seq(Line) /\ Splice(E, g) \in Seq(X)
          /\ Matched(R, Splice(T, h), Splice(E, g)) /\ h.start <= Len(Splice(T, h))
      BY <2>4, <3>1, <3>4, SpliceMatched
    <3> QED BY <2>1, <3>1, <3>3, <3>5
  <2> QED BY <2>6, <2>7
<1>6. ASSUME NEW k \in Nat, k \in N PROVE k + 1 \in N
  <2> SUFFICES ASSUME k + 1 <= n + 1 PROVE Good(n + 1 - (k + 1))
    <3> HIDE DEF Good
    <3> QED BY DEF N
  <2>1. n + 1 - (k + 1) \in 0 .. n /\ (n + 1 - (k + 1)) + 1 = n + 1 - k /\ k <= n + 1
    BY <1>2
  <2> HIDE DEF Good
  <2> QED BY <1>5, <1>6, <2>1
<1>7. n + 1 \in N /\ n + 1 - (n + 1) = 0
  <2>1. n + 1 \in Nat /\ n + 1 - (n + 1) = 0
    BY <1>2
  <2> HIDE DEF N
  <2> QED BY <1>4, <1>6, <2>1, Induction
<1>8. Good(0)
  <2> HIDE DEF Good
  <2> QED BY <1>2, <1>7
<1> QED BY <1>1, <1>3, <1>8

\* The lines a text has and the other has not, by their diff.
InsertedIn(one, other) == UNION {ToSet(h.inserted) : h \in ToSet(diffLines(one, other))}

\* After a commit each line has an entry: the writer's if the diff inserts it,
\* and else that of an equal line of before.
BlameOf(blame, previous, lines, next, entry) ==
  /\ Len(blame) = Len(next)
  /\ \A i \in 1 .. Len(next) :
       \/ blame[i] = entry /\ next[i] \in InsertedIn(lines, next)
       \/ \E k \in 1 .. Len(lines) : blame[i] = previous[k] /\ lines[k] = next[i]

LEMMA Reconciled ==
  ASSUME NEW X, NEW lines \in Seq(Line), NEW next \in Seq(Line), NEW previous \in Seq(X),
         Len(previous) = Len(lines), NEW by, NEW version, [by |-> by, version |-> version] \in X
  PROVE  LET blame == reconcileProvenance(previous, lines, next, by, version)
         IN  /\ blame \in Seq(X)
             /\ BlameOf(blame, previous, lines, next, [by |-> by, version |-> version])
<1> DEFINE entry == [by |-> by, version |-> version]
           hunks == ToSet(diffLines(lines, next))
           others == {Attributed(h, previous, by, version) : h \in hunks}
           new == {<< l, entry >> : l \in InsertedIn(lines, next)}
           old == {<< lines[k], previous[k] >> : k \in 1 .. Len(lines)}
           R == new \cup old
<1>1. Chain(diffLines(lines, next), 0, Len(lines)) /\ Len(lines) \in Nat
  BY DiffIsADiff, LenProperties
<1>2. hunks \in SUBSET Hunk /\ \A g, h \in hunks : g.start = h.start => g = h
  <2>1. /\ hunks \in SUBSET Hunk
        /\ \A g, h \in hunks : g # h => \/ g.start + g.deleted < h.start
                                        \/ h.start + h.deleted < g.start
    BY <1>1, ChainSet
  <2> HIDE DEF hunks
  <2>2. \A h \in hunks : h.start \in Nat /\ h.deleted \in Nat
    BY <2>1 DEF Hunk
  <2> QED BY <2>1, <2>2
<1>3. ApplyHunks(lines, hunks) = next
  BY TheDiffGivesTheOtherText
<1>4. \A h \in hunks : \A l \in ToSet(h.inserted) : l \in InsertedIn(lines, next)
  BY DEF InsertedIn
<1> HIDE DEF hunks
<1>5. \A h \in hunks : Fits(X, R, h, Attributed(h, previous, by, version))
  <2> SUFFICES ASSUME NEW h \in hunks
               PROVE  Fits(X, R, h, Attributed(h, previous, by, version))
    OBVIOUS
  <2> DEFINE x == h.inserted
             m == Len(x)
             y == [k \in 1 .. m |-> entry]
             g == Attributed(h, previous, by, version)
  <2>1. h \in Hunk /\ x \in Seq(Line) /\ m \in Nat /\ DOMAIN x = 1 .. m
    BY <1>2, LenProperties DEF Hunk
  <2>2. g.start = h.start /\ g.deleted = h.deleted /\ g.inserted = y
    <3>1. h = [start |-> h.start, deleted |-> h.deleted, inserted |-> h.inserted]
      BY <2>1 DEF Hunk
    <3> QED BY <2>1, <3>1 DEF Attributed
  <2>3. y \in Seq(X) /\ Len(y) = m
    <3>1. y \in [1 .. m -> X]
      BY <2>1
    <3> HIDE DEF y, m
    <3>2. y \in Seq(X)
      BY <2>1, <3>1, SeqDef
    <3> QED BY <2>1, <3>1, <3>2, LenProperties
  <2>4. \A i \in 1 .. m : << x[i], y[i] >> \in R
    <3> SUFFICES ASSUME NEW i \in 1 .. m PROVE << x[i], y[i] >> \in R
      OBVIOUS
    <3>1. x[i] \in ToSet(x)
      BY <2>1 DEF ToSet
    <3>2. x[i] \in InsertedIn(lines, next)
      BY <1>4, <3>1
    <3>3. y[i] = entry
      OBVIOUS
    <3> HIDE DEF x, y, entry
    <3> QED BY <3>2, <3>3
  <2> HIDE DEF x, y, g, R, m
  <2>5. Matched(R, x, y)
    BY <2>3, <2>4 DEF Matched, m
  <2> QED BY <2>2, <2>3, <2>5 DEF Fits, x, g
<1>6. AllFit(X, R, hunks, others)
  <2> HIDE DEF R
  <2> QED BY <1>2, <1>5 DEF AllFit
<1>7. Matched(R, lines, previous)
  BY DEF Matched
<1> DEFINE blame == reconcileProvenance(previous, lines, next, by, version)
<1>8. blame = ApplyHunks(previous, others)
  BY DEF reconcileProvenance, hunks
<1> HIDE DEF others, R
<1>9. blame \in Seq(X) /\ Matched(R, next, blame)
  BY <1>3, <1>6, <1>7, <1>8, ApplyMatched
<1> HIDE DEF blame
<1>10. \A l, z : << l, z >> \in R => \/ z = entry /\ l \in InsertedIn(lines, next)
                                    \/ \E k \in 1 .. Len(lines) : z = previous[k] /\ lines[k] = l
  <2> SUFFICES ASSUME NEW l, NEW z, << l, z >> \in R
               PROVE  \/ z = entry /\ l \in InsertedIn(lines, next)
                      \/ \E k \in 1 .. Len(lines) : z = previous[k] /\ lines[k] = l
    OBVIOUS
  <2> HIDE DEF entry
  <2>1. CASE << l, z >> \in new
    BY <2>1
  <2>2. CASE << l, z >> \in old
    BY <2>2
  <2> HIDE DEF new, old
  <2> QED BY <2>1, <2>2 DEF R
<1>11. BlameOf(blame, previous, lines, next, entry)
  BY <1>9, <1>10 DEF Matched, BlameOf
<1> QED BY <1>9, <1>11 DEF blame

-----------------------------------------------------------------------------
(* The table of common subsequences. *)

LcsAt(a, b, table, i, j) ==
  IF i = Len(a) \/ j = Len(b) THEN 0
  ELSE IF a[i + 1] = b[j + 1] THEN table[<< i + 1, j + 1 >>] + 1
  ELSE Larger(table[<< i + 1, j >>], table[<< i, j + 1 >>])

LEMMA TableExists ==
  ASSUME NEW a \in Seq(Line), NEW b \in Seq(Line)
  PROVE  \E f : f = [at \in Grid(a, b) |-> LcsAt(a, b, f, at[1], at[2])]
<1> DEFINE n == Len(a)
           m == Len(b)
           G(k) == {at \in Grid(a, b) : Left(a, b, at) < k}
           Val(f, at) == LcsAt(a, b, f, at[1], at[2])
           N == {k \in Nat : \E f : f = [at \in G(k) |-> Val(f, at)]}
<1>1. n \in Nat /\ m \in Nat
  BY LenProperties
<1>2. \A at \in Grid(a, b) :
        /\ at[1] \in 0 .. n /\ at[2] \in 0 .. m /\ at = << at[1], at[2] >>
        /\ Left(a, b, at) \in Nat /\ Left(a, b, at) <= n + m
  <2> SUFFICES ASSUME NEW i \in 0 .. n, NEW j \in 0 .. m
               PROVE  Left(a, b, << i, j >>) \in Nat /\ Left(a, b, << i, j >>) <= n + m
    BY DEF Grid
  <2>1. Left(a, b, << i, j >>) = (n - i) + (m - j)
    BY DEF Left
  <2> HIDE DEF n, m
  <2> QED BY <1>1, <2>1
<1>3. 0 \in N
  <2>1. G(0) = {}
    <3> HIDE DEF n, m
    <3> QED BY <1>2
  <2> DEFINE f == [at \in {} |-> <<>>]
  <2>2. f = [at \in G(0) |-> Val(f, at)]
    <3> HIDE DEF Val, G
    <3> QED BY <2>1
  <2> HIDE DEF f, Val, G
  <2> QED BY <2>2
<1>4. ASSUME NEW k \in Nat, k \in N PROVE k + 1 \in N
  <2>1. PICK f : f = [at \in G(k) |-> Val(f, at)]
    <3> HIDE DEF Val, G
    <3> QED BY <1>4
  <2> DEFINE g == [at \in G(k + 1) |-> Val(f, at)]
  <2>2. \A at \in G(k) : at \in G(k + 1) /\ g[at] = f[at]
    <3>1. \A at \in G(k) : at \in G(k + 1)
      BY <1>2
    <3> HIDE DEF Val, G
    <3> QED BY <2>1, <3>1
  <2>3. \A at \in G(k + 1) : Val(f, at) = Val(g, at)
    <3> SUFFICES ASSUME NEW at \in G(k + 1) PROVE Val(f, at) = Val(g, at)
      OBVIOUS
    <3> DEFINE i == at[1]
               j == at[2]
    <3>1. /\ i \in 0 .. n /\ j \in 0 .. m
          /\ (n - i) + (m - j) < k + 1
      BY <1>2 DEF Left
    <3> HIDE DEF i, j, n, m, g
    <3>2. /\ i < n => i + 1 \in 0 .. n /\ (n - (i + 1)) + (m - j) < k
          /\ j < m => j + 1 \in 0 .. m /\ (n - i) + (m - (j + 1)) < k
          /\ i < n /\ j < m => (n - (i + 1)) + (m - (j + 1)) < k
          /\ ~(i = n) => i < n
          /\ ~(j = m) => j < m
      BY <1>1, <3>1
    <3>3. \A p, q : p \in 0 .. n /\ q \in 0 .. m /\ (n - p) + (m - q) < k => << p, q >> \in G(k)
      BY DEF Grid, Left, n, m
    <3> HIDE DEF G
    <3>4. /\ i < n => f[<< i + 1, j >>] = g[<< i + 1, j >>]
          /\ j < m => f[<< i, j + 1 >>] = g[<< i, j + 1 >>]
          /\ i < n /\ j < m => f[<< i + 1, j + 1 >>] = g[<< i + 1, j + 1 >>]
      BY <2>2, <3>1, <3>2, <3>3
    <3>5. LcsAt(a, b, f, i, j) = LcsAt(a, b, g, i, j)
      BY <3>2, <3>4 DEF LcsAt, n, m
    <3> QED BY <3>5 DEF i, j
  <2>4. g = [at \in G(k + 1) |-> Val(g, at)]
    <3> HIDE DEF Val, G
    <3> QED BY <2>3
  <2> HIDE DEF g, Val, G
  <2> QED BY <2>4
<1>5. n + m + 1 \in N
  <2>1. n + m + 1 \in Nat
    BY <1>1
  <2> HIDE DEF N, n, m
  <2> QED BY <1>3, <1>4, <2>1, Induction
<1>6. G(n + m + 1) = Grid(a, b)
  <2>1. \A at \in Grid(a, b) : Left(a, b, at) < n + m + 1
    <3> HIDE DEF n, m
    <3> QED BY <1>1, <1>2
  <2> QED BY <2>1
<1> HIDE DEF n, m
<1>7. PICK f : f = [at \in G(n + m + 1) |-> Val(f, at)]
  <2> HIDE DEF Val, G
  <2> QED BY <1>5
<1> HIDE DEF G
<1> QED BY <1>6, <1>7

LEMMA TableIs ==
  ASSUME NEW a \in Seq(Line), NEW b \in Seq(Line), NEW i \in 0 .. Len(a), NEW j \in 0 .. Len(b)
  PROVE  lcsLengths(a, b)[<< i, j >>] = LcsAt(a, b, lcsLengths(a, b), i, j)
<1> DEFINE table == CHOOSE f : f = [at \in Grid(a, b) |-> LcsAt(a, b, f, at[1], at[2])]
<1>1. lcsLengths(a, b) = table
  BY DEF lcsLengths, LcsAt, Grid
<1>2. table = [at \in Grid(a, b) |-> LcsAt(a, b, table, at[1], at[2])]
  BY TableExists
<1>3. << i, j >> \in Grid(a, b) /\ << i, j >>[1] = i /\ << i, j >>[2] = j
  BY DEF Grid
<1> HIDE DEF table
<1>4. table[<< i, j >>] = LcsAt(a, b, table, i, j)
  BY <1>2, <1>3
<1> QED BY <1>1, <1>4

\* One line more in one of the texts is at most one common line more.
Smooth(a, b, i, j) ==
  LET table == lcsLengths(a, b)
      here  == table[<< i, j >>]
  IN  /\ here \in Nat
      /\ i < Len(a) => table[<< i + 1, j >>] <= here /\ here <= table[<< i + 1, j >>] + 1
      /\ j < Len(b) => table[<< i, j + 1 >>] <= here /\ here <= table[<< i, j + 1 >>] + 1

LEMMA TableIsSmooth ==
  ASSUME NEW a \in Seq(Line), NEW b \in Seq(Line)
  PROVE  \A i \in 0 .. Len(a), j \in 0 .. Len(b) : Smooth(a, b, i, j)
<1> DEFINE n == Len(a)
           m == Len(b)
           table == lcsLengths(a, b)
           N == {k \in Nat : \A i \in 0 .. n, j \in 0 .. m :
                               (n - i) + (m - j) < k => Smooth(a, b, i, j)}
<1>1. n \in Nat /\ m \in Nat
  BY LenProperties
<1>2. \A i \in 0 .. n, j \in 0 .. m : table[<< i, j >>] = LcsAt(a, b, table, i, j)
  BY TableIs
<1> HIDE DEF n, m, table
<1>3. 0 \in N
  BY <1>1
<1>4. ASSUME NEW k \in Nat, k \in N PROVE k + 1 \in N
  <2> SUFFICES ASSUME NEW i \in 0 .. n, NEW j \in 0 .. m, (n - i) + (m - j) < k + 1
               PROVE  Smooth(a, b, i, j)
    OBVIOUS
  <2>1. \A p \in 0 .. n, q \in 0 .. m : (n - p) + (m - q) < k => Smooth(a, b, p, q)
    BY <1>4
  <2>2. /\ i < n => i + 1 \in 0 .. n /\ (n - (i + 1)) + (m - j) < k
        /\ j < m => j + 1 \in 0 .. m /\ (n - i) + (m - (j + 1)) < k
        /\ i < n /\ j < m => (n - (i + 1)) + (m - (j + 1)) < k
        /\ ~(i < n) => i = n
        /\ ~(j < m) => j = m
        /\ i \in Nat /\ j \in Nat
    BY <1>1
  <2> DEFINE here == table[<< i, j >>]
             down == table[<< i + 1, j >>]
             right == table[<< i, j + 1 >>]
             both == table[<< i + 1, j + 1 >>]
  <2>3. here = LcsAt(a, b, table, i, j)
    BY <1>2
  <2>4. i = n \/ j = m => here = 0
    BY <2>3 DEF LcsAt, n, m
  <2>5. /\ i < n /\ j = m => down = 0
        /\ j < m /\ i = n => right = 0
    <3>1. i < n /\ j = m => down = LcsAt(a, b, table, i + 1, j)
      BY <1>2, <2>2
    <3>2. j < m /\ i = n => right = LcsAt(a, b, table, i, j + 1)
      BY <1>2, <2>2
    <3> QED BY <3>1, <3>2 DEF LcsAt, n, m
  <2>6. CASE i = n \/ j = m
    <3> HIDE DEF here, down, right
    <3>1. /\ here = 0
          /\ i < n => down = 0
          /\ j < m => right = 0
      BY <1>1, <2>2, <2>4, <2>5, <2>6
    <3> QED BY <3>1 DEF Smooth, here, down, right, table, n, m
  <2>7. CASE i < n /\ j < m
    <3>1. Smooth(a, b, i + 1, j) /\ Smooth(a, b, i, j + 1) /\ Smooth(a, b, i + 1, j + 1)
      BY <2>1, <2>2, <2>7
    <3>2. /\ down \in Nat /\ right \in Nat /\ both \in Nat
          /\ both <= down /\ down <= both + 1
          /\ both <= right /\ right <= both + 1
      BY <2>7, <3>1 DEF Smooth, table, n, m
    <3>3. here = IF a[i + 1] = b[j + 1] THEN both + 1 ELSE Larger(down, right)
      BY <1>1, <2>2, <2>3, <2>7, SMTT(30) DEF LcsAt, n, m
    <3> HIDE DEF here, down, right, both
    <3>4. /\ here \in Nat /\ down <= here /\ here <= down + 1
          /\ right <= here /\ here <= right + 1
      BY <3>2, <3>3 DEF Larger
    <3> QED BY <3>4 DEF Smooth, here, down, right, table
  <2> QED BY <1>1, <2>2, <2>6, <2>7
<1>5. n + m + 1 \in N
  <2>1. n + m + 1 \in Nat
    BY <1>1
  <2> HIDE DEF N
  <2> QED BY <1>3, <1>4, <2>1, Induction
<1>6. \A i \in 0 .. n, j \in 0 .. m : (n - i) + (m - j) < n + m + 1
  BY <1>1
<1> QED BY <1>5, <1>6 DEF n, m

\* How many lines behind the first j are in W.
Among(t, W, j) == Cardinality({k \in j + 1 .. Len(t) : t[k] \in W})

LEMMA AmongStep ==
  ASSUME NEW t \in Seq(Line), NEW W, NEW j \in 0 .. Len(t)
  PROVE  /\ Among(t, W, j) \in Nat
         /\ j = Len(t) => Among(t, W, j) = 0
         /\ j < Len(t) => Among(t, W, j) = Among(t, W, j + 1) + (IF t[j + 1] \in W THEN 1 ELSE 0)
<1> DEFINE n == Len(t)
           S(p) == {k \in p + 1 .. n : t[k] \in W}
<1>1. n \in Nat
  BY LenProperties
<1> HIDE DEF n
<1>2. \A p \in 0 .. n : IsFiniteSet(S(p))
  <2> SUFFICES ASSUME NEW p \in 0 .. n PROVE IsFiniteSet(S(p))
    OBVIOUS
  <2>1. IsFiniteSet(p + 1 .. n)
    <3>1. p + 1 \in Int /\ n \in Int
      BY <1>1
    <3> QED BY <3>1, FS_Interval
  <2>2. S(p) \in SUBSET (p + 1 .. n)
    OBVIOUS
  <2> HIDE DEF S
  <2> QED BY <2>1, <2>2, FS_Subset
<1>3. \A p \in 0 .. n : Cardinality(S(p)) \in Nat
  <2> HIDE DEF S
  <2> QED BY <1>2, FS_CardinalityType
<1>4. j = n => S(j) = {}
  BY <1>1
<1>5. ASSUME j < n
      PROVE  Cardinality(S(j)) = Cardinality(S(j + 1)) + (IF t[j + 1] \in W THEN 1 ELSE 0)
  <2>1. j + 1 \in 0 .. n /\ j + 1 \in j + 1 .. n
    BY <1>1, <1>5 DEF n
  <2>2. \A k \in j + 1 .. n : k = j + 1 \/ k \in j + 1 + 1 .. n
    BY <1>1 DEF n
  <2>3. \A k \in j + 1 + 1 .. n : k \in j + 1 .. n
    BY <1>1 DEF n
  <2>4. j + 1 \notin j + 1 + 1 .. n
    BY <1>1 DEF n
  <2>5. CASE t[j + 1] \in W
    <3>1. S(j) = S(j + 1) \cup {j + 1} /\ j + 1 \notin S(j + 1)
      BY <2>1, <2>2, <2>3, <2>4, <2>5
    <3> DEFINE s == S(j + 1)
               x == j + 1
    <3>2. IsFiniteSet(s) /\ x \notin s /\ S(j) = s \cup {x}
      BY <1>2, <2>1, <3>1
    <3> HIDE DEF s, x, S
    <3>3. Cardinality(S(j)) = Cardinality(s) + 1
      BY <3>2, FS_AddElement
    <3> QED BY <2>5, <3>3 DEF s
  <2>6. CASE t[j + 1] \notin W
    <3>1. S(j) = S(j + 1)
      BY <2>1, <2>2, <2>3, <2>6
    <3>2. Cardinality(S(j + 1)) \in Nat
      BY <1>3, <2>1
    <3> HIDE DEF S
    <3> QED BY <2>6, <3>1, <3>2
  <2> QED BY <2>5, <2>6
<1>6. j = n => Cardinality(S(j)) = 0
  <2> HIDE DEF S
  <2> QED BY <1>4, FS_EmptySet
<1> QED BY <1>3, <1>5, <1>6 DEF Among, n

-----------------------------------------------------------------------------
(* A diff that inserts only lines in W. No common subsequence of two texts *)
(* has more than the lines of the first that are in W and the lines of the *)
(* second that are not. Where one has as many, the walk of diffLines loses *)
(* none of them, and no line it inserts is outside W.                      *)

Most(a, b, W, i, j) == Among(a, W, i) + Among(b, Line \ W, j)

Common(a, b, i, j) == lcsLengths(a, b)[<< i, j >>]

\* What one step in one of the texts does to the bound.
LEMMA MostStep ==
  ASSUME NEW a \in Seq(Line), NEW b \in Seq(Line), NEW W,
         NEW i \in 0 .. Len(a), NEW j \in 0 .. Len(b)
  PROVE  /\ Most(a, b, W, i, j) \in Nat
         /\ i < Len(a) => Most(a, b, W, i, j)
                            = Most(a, b, W, i + 1, j) + (IF a[i + 1] \in W THEN 1 ELSE 0)
         /\ j < Len(b) => Most(a, b, W, i, j)
                            = Most(a, b, W, i, j + 1) + (IF b[j + 1] \in W THEN 0 ELSE 1)
<1> DEFINE n == Len(a)
           m == Len(b)
           V == Line \ W
<1>1. n \in Nat /\ m \in Nat
  BY LenProperties
<1>2. /\ Among(a, W, i) \in Nat
      /\ i < n => Among(a, W, i) = Among(a, W, i + 1) + (IF a[i + 1] \in W THEN 1 ELSE 0)
  BY AmongStep
<1>3. /\ Among(b, V, j) \in Nat
      /\ j < m => Among(b, V, j) = Among(b, V, j + 1) + (IF b[j + 1] \in V THEN 1 ELSE 0)
  <2> HIDE DEF V
  <2> QED BY AmongStep
<1>4. j < m => b[j + 1] \in Line
  <2>1. j < m => j + 1 \in 1 .. m
    BY <1>1
  <2> QED BY <2>1, ElementOfSeq
<1>5. (i < n => Among(a, W, i + 1) \in Nat) /\ (j < m => Among(b, V, j + 1) \in Nat)
  <2>1. (i < n => i + 1 \in 0 .. n) /\ (j < m => j + 1 \in 0 .. m)
    BY <1>1
  <2> HIDE DEF V
  <2> QED BY <2>1, AmongStep
<1>6. j < m => (b[j + 1] \in V <=> b[j + 1] \notin W)
  BY <1>4
<1> DEFINE x == Among(a, W, i)
           y == Among(b, V, j)
<1> HIDE DEF n, m, V, x, y
<1>7. /\ x \in Nat /\ y \in Nat
      /\ i < n => x + y = (Among(a, W, i + 1) + y) + (IF a[i + 1] \in W THEN 1 ELSE 0)
      /\ j < m => x + y = (x + Among(b, V, j + 1)) + (IF b[j + 1] \in W THEN 0 ELSE 1)
  BY <1>2, <1>3, <1>5, <1>6 DEF x, y
<1> QED BY <1>7 DEF Most, n, m, V, x, y

\* What the table says of the place and of those next to it.
LEMMA CommonStep ==
  ASSUME NEW a \in Seq(Line), NEW b \in Seq(Line), NEW i \in 0 .. Len(a), NEW j \in 0 .. Len(b)
  PROVE  /\ Common(a, b, i, j) \in Nat
         /\ i = Len(a) \/ j = Len(b) => Common(a, b, i, j) = 0
         /\ i < Len(a) => Common(a, b, i + 1, j) <= Common(a, b, i, j)
         /\ j < Len(b) => Common(a, b, i, j + 1) <= Common(a, b, i, j)
         /\ SameLine(a, b, i, j) => Common(a, b, i, j) = Common(a, b, i + 1, j + 1) + 1
         /\ i < Len(a) /\ j < Len(b) /\ ~SameLine(a, b, i, j) =>
              Common(a, b, i, j) = Larger(Common(a, b, i + 1, j), Common(a, b, i, j + 1))
<1>1. Smooth(a, b, i, j)
  BY TableIsSmooth
<1>2. Common(a, b, i, j) = LcsAt(a, b, lcsLengths(a, b), i, j)
  BY TableIs DEF Common
<1>3. i < Len(a) /\ j < Len(b) => ~(i = Len(a) \/ j = Len(b))
  BY LenProperties
<1>4. SameLine(a, b, i, j) => i < Len(a) /\ j < Len(b) /\ a[i + 1] = b[j + 1]
  BY DEF SameLine
<1>5. i < Len(a) /\ j < Len(b) /\ ~SameLine(a, b, i, j) => a[i + 1] # b[j + 1]
  BY DEF SameLine
<1> QED BY <1>1, <1>2, <1>3, <1>4, <1>5 DEF Smooth, Common, LcsAt

LEMMA NoMoreThanMost ==
  ASSUME NEW a \in Seq(Line), NEW b \in Seq(Line), NEW W
  PROVE  \A i \in 0 .. Len(a), j \in 0 .. Len(b) : Common(a, b, i, j) <= Most(a, b, W, i, j)
<1> DEFINE n == Len(a)
           m == Len(b)
           T(i, j) == Common(a, b, i, j)
           U(i, j) == Most(a, b, W, i, j)
           N == {k \in Nat : \A i \in 0 .. n, j \in 0 .. m :
                               (n - i) + (m - j) < k => T(i, j) <= U(i, j)}
<1>1. n \in Nat /\ m \in Nat
  BY LenProperties
<1>2. 0 \in N
  <2> HIDE DEF n, m, T, U
  <2> QED BY <1>1
<1>3. ASSUME NEW k \in Nat, k \in N PROVE k + 1 \in N
  <2> SUFFICES ASSUME NEW i \in 0 .. n, NEW j \in 0 .. m, (n - i) + (m - j) < k + 1
               PROVE  T(i, j) <= U(i, j)
    <3> HIDE DEF n, m, T, U
    <3> QED OBVIOUS
  <2>1. \A p \in 0 .. n, q \in 0 .. m : (n - p) + (m - q) < k => T(p, q) <= U(p, q)
    BY <1>3
  <2>2. /\ T(i, j) \in Nat /\ (i = n \/ j = m => T(i, j) = 0)
        /\ SameLine(a, b, i, j) => T(i, j) = T(i + 1, j + 1) + 1
        /\ i < n /\ j < m /\ ~SameLine(a, b, i, j) => T(i, j) = Larger(T(i + 1, j), T(i, j + 1))
    BY CommonStep
  <2>3. /\ U(i, j) \in Nat
        /\ i < n => U(i, j) = U(i + 1, j) + (IF a[i + 1] \in W THEN 1 ELSE 0)
        /\ j < m => U(i, j) = U(i, j + 1) + (IF b[j + 1] \in W THEN 0 ELSE 1)
    BY MostStep
  <2>4. i < n /\ j < m =>
          /\ U(i + 1, j) = U(i + 1, j + 1) + (IF b[j + 1] \in W THEN 0 ELSE 1)
          /\ U(i + 1, j) \in Nat /\ U(i, j + 1) \in Nat /\ U(i + 1, j + 1) \in Nat
          /\ T(i + 1, j) \in Nat /\ T(i, j + 1) \in Nat /\ T(i + 1, j + 1) \in Nat
    <3> SUFFICES ASSUME i < n, j < m
                 PROVE /\ U(i + 1, j) = U(i + 1, j + 1) + (IF b[j + 1] \in W THEN 0 ELSE 1)
                       /\ U(i + 1, j) \in Nat /\ U(i, j + 1) \in Nat /\ U(i + 1, j + 1) \in Nat
                       /\ T(i + 1, j) \in Nat /\ T(i, j + 1) \in Nat /\ T(i + 1, j + 1) \in Nat
      OBVIOUS
    <3>1. i + 1 \in 0 .. n /\ j + 1 \in 0 .. m
      BY <1>1
    <3>2. \A p \in 0 .. n, q \in 0 .. m : U(p, q) \in Nat /\ T(p, q) \in Nat
      BY MostStep, CommonStep
    <3>3. U(i + 1, j) = U(i + 1, j + 1) + (IF b[j + 1] \in W THEN 0 ELSE 1)
      <4> DEFINE p == i + 1
      <4>1. p \in 0 .. n
        BY <3>1
      <4> HIDE DEF p
      <4>2. /\ U(p, j) \in Nat
            /\ p < n => U(p, j) = U(p + 1, j) + (IF a[p + 1] \in W THEN 1 ELSE 0)
            /\ j < m => U(p, j) = U(p, j + 1) + (IF b[j + 1] \in W THEN 0 ELSE 1)
        BY <4>1, MostStep
      <4> QED BY <4>2 DEF p
    <3> HIDE DEF n, m, U, T
    <3> QED BY <3>1, <3>2, <3>3
  <2> HIDE DEF n, m, T, U
  <2>5. CASE SameLine(a, b, i, j)
    <3>1. i < n /\ j < m /\ a[i + 1] = b[j + 1]
      BY <2>5 DEF SameLine, n, m
    <3>2. T(i + 1, j + 1) <= U(i + 1, j + 1)
      <4>1. i + 1 \in 0 .. n /\ j + 1 \in 0 .. m /\ (n - (i + 1)) + (m - (j + 1)) < k
        BY <1>1, <3>1
      <4> QED BY <2>1, <4>1
    <3>3. U(i, j) = U(i + 1, j + 1) + 1
      BY <2>3, <2>4, <3>1, SMTT(30)
    <3> QED BY <2>2, <2>4, <2>5, <3>1, <3>2, <3>3
  <2>6. CASE i < n /\ j < m /\ ~SameLine(a, b, i, j)
    <3>1. T(i + 1, j) <= U(i + 1, j) /\ T(i, j + 1) <= U(i, j + 1)
      <4>1. /\ i + 1 \in 0 .. n /\ (n - (i + 1)) + (m - j) < k
            /\ j + 1 \in 0 .. m /\ (n - i) + (m - (j + 1)) < k
        BY <1>1, <2>6
      <4> QED BY <2>1, <4>1
    <3>2. U(i + 1, j) <= U(i, j) /\ U(i, j + 1) <= U(i, j)
      <4> DEFINE x == IF a[i + 1] \in W THEN 1 ELSE 0
                 y == IF b[j + 1] \in W THEN 0 ELSE 1
      <4>1. x \in Nat /\ y \in Nat
        OBVIOUS
      <4>2. U(i, j) = U(i + 1, j) + x /\ U(i, j) = U(i, j + 1) + y
        BY <2>3, <2>6
      <4> HIDE DEF x, y
      <4> QED BY <2>4, <2>6, <4>1, <4>2, SMTT(30)
    <3>3. T(i, j) = T(i + 1, j) \/ T(i, j) = T(i, j + 1)
      BY <2>2, <2>6 DEF Larger
    <3> QED BY <2>3, <2>4, <2>6, <3>1, <3>2, <3>3
  <2>7. CASE i = n \/ j = m
    BY <2>2, <2>3, <2>7
  <2> QED BY <1>1, <2>5, <2>6, <2>7
<1>4. n + m + 1 \in N
  <2>1. n + m + 1 \in Nat
    BY <1>1
  <2> HIDE DEF N
  <2> QED BY <1>2, <1>3, <2>1, Induction
<1>5. \A i \in 0 .. n, j \in 0 .. m : (n - i) + (m - j) < n + m + 1
  <2> HIDE DEF n, m
  <2> QED BY <1>1
<1> HIDE DEF n, m, T, U
<1>6. \A i \in 0 .. n, j \in 0 .. m : T(i, j) <= U(i, j)
  BY <1>4, <1>5
<1> QED BY <1>6 DEF n, m, T, U

\* Hunks that insert only lines in W.
OnlyIn(W, hunks) == hunks \in Seq(Hunk) /\ \A h \in ToSet(hunks) : ToSet(h.inserted) \subseteq W

LEMMA PushOnly ==
  ASSUME NEW W, NEW hunks, OnlyIn(W, hunks), NEW h \in Hunk, ToSet(h.inserted) \subseteq W
  PROVE  OnlyIn(W, Push(h, hunks))
<1> DEFINE g == Head(hunks)
           rest == Tail(hunks)
           gm == [start    |-> h.start,
                  deleted  |-> h.deleted + g.deleted,
                  inserted |-> h.inserted \o g.inserted]
<1>1. hunks \in Seq(Hunk) /\ \A x \in ToSet(hunks) : ToSet(x.inserted) \subseteq W
  BY DEF OnlyIn
<1>2. ASSUME NEW x \in Hunk, ToSet(x.inserted) \subseteq W, NEW s \in Seq(Hunk),
             \A y \in ToSet(s) : ToSet(y.inserted) \subseteq W
      PROVE  OnlyIn(W, << x >> \o s)
  <2> DEFINE u == << x >> \o s
             n == Len(s)
  <2>1. /\ n \in Nat /\ u \in Seq(Hunk) /\ Len(u) = 1 + n /\ DOMAIN u = 1 .. 1 + n
        /\ \A i \in 1 .. 1 + n : u[i] = IF i <= 1 THEN x ELSE s[i - 1]
    <3>1. << x >> \in Seq(Hunk) /\ Len(<< x >>) = 1 /\ << x >>[1] = x
      OBVIOUS
    <3> DEFINE one == << x >>
    <3> HIDE DEF one
    <3>2. n \in Nat
      BY LenProperties
    <3>3. /\ one \o s \in Seq(Hunk) /\ Len(one \o s) = 1 + n
          /\ \A i \in 1 .. 1 + n : (one \o s)[i] = IF i <= 1 THEN one[i] ELSE s[i - 1]
      BY <3>1, ConcatProperties DEF one
    <3>4. \A i \in 1 .. 1 + n : i <= 1 => one[i] = x
      BY <3>1, <3>2 DEF one
    <3>5. DOMAIN (one \o s) = 1 .. 1 + n
      BY <3>3, LenProperties
    <3> QED BY <3>2, <3>3, <3>4, <3>5 DEF one
  <2>2. DOMAIN s = 1 .. n
    BY LenProperties
  <2> HIDE DEF u, n
  <2>3. \A i \in DOMAIN u : u[i] = x \/ u[i] \in ToSet(s)
    <3>1. \A i \in 1 .. 1 + n : i <= 1 \/ i - 1 \in 1 .. n
      BY <2>1
    <3>2. \A i \in 1 .. n : s[i] \in ToSet(s)
      BY <2>2 DEF ToSet
    <3> QED BY <2>1, <3>1, <3>2
  <2>4. \A y \in ToSet(u) : y = x \/ y \in ToSet(s)
    BY <2>3 DEF ToSet
  <2> QED BY <1>2, <2>1, <2>4 DEF OnlyIn, u
<1>3. CASE hunks # <<>> /\ g.start = h.start + h.deleted
  <2>1. g \in Hunk /\ rest \in Seq(Hunk)
    BY <1>1, <1>3, HeadTailProperties
  <2>2. g \in ToSet(hunks) /\ \A x \in ToSet(rest) : x \in ToSet(hunks)
    <3> DEFINE n == Len(hunks)
    <3>1. n \in Nat /\ DOMAIN hunks = 1 .. n /\ n # 0 /\ g = hunks[1]
      BY <1>1, <1>3, LenProperties, EmptySeq
    <3>2. /\ Len(rest) = n - 1 /\ DOMAIN rest = 1 .. Len(rest)
          /\ \A i \in 1 .. Len(rest) : rest[i] = hunks[i + 1]
      BY <1>1, <1>3, <2>1, HeadTailProperties, LenProperties
    <3> HIDE DEF n, g, rest
    <3>3. \A i \in DOMAIN rest : i + 1 \in DOMAIN hunks /\ rest[i] = hunks[i + 1]
      BY <3>1, <3>2
    <3>4. 1 \in DOMAIN hunks
      BY <3>1
    <3> QED BY <3>1, <3>3, <3>4 DEF ToSet
  <2>3. Push(h, hunks) = << gm >> \o rest
    BY <1>3 DEF Push
  <2> HIDE DEF g, rest
  <2>4. gm \in Hunk /\ gm.inserted = h.inserted \o g.inserted
    <3>1. h.start \in Nat /\ h.deleted \in Nat /\ g.deleted \in Nat
          /\ h.inserted \in Seq(Line) /\ g.inserted \in Seq(Line)
      BY <2>1 DEF Hunk
    <3>2. h.inserted \o g.inserted \in Seq(Line)
      BY <3>1, ConcatProperties
    <3> QED BY <3>1, <3>2 DEF Hunk
  <2>5. ToSet(gm.inserted) \subseteq W
    <3> DEFINE x == h.inserted
               y == g.inserted
    <3>1. x \in Seq(Line) /\ y \in Seq(Line) /\ ToSet(x) \subseteq W /\ ToSet(y) \subseteq W
      BY <1>1, <2>1, <2>2 DEF Hunk
    <3> HIDE DEF x, y
    <3>2. ToSet(x \o y) \subseteq W
      <4> DEFINE n == Len(x)
                 m == Len(y)
                 z == x \o y
      <4>1. /\ n \in Nat /\ m \in Nat /\ DOMAIN x = 1 .. n /\ DOMAIN y = 1 .. m
            /\ z \in Seq(Line) /\ Len(z) = n + m /\ DOMAIN z = 1 .. n + m
            /\ \A i \in 1 .. n + m : z[i] = IF i <= n THEN x[i] ELSE y[i - n]
        BY <3>1, ConcatProperties, LenProperties
      <4> HIDE DEF n, m, z
      <4>2. \A i \in 1 .. n + m : i \in 1 .. n \/ (~(i <= n) /\ i - n \in 1 .. m)
        BY <4>1
      <4>3. (\A i \in 1 .. n : x[i] \in W) /\ (\A i \in 1 .. m : y[i] \in W)
        BY <3>1, <4>1 DEF ToSet
      <4>4. \A i \in 1 .. n + m : z[i] \in W
        BY <4>1, <4>2, <4>3
      <4> QED BY <4>1, <4>4 DEF ToSet, z
    <3> QED BY <2>4, <3>2 DEF x, y
  <2> HIDE DEF gm
  <2>6. \A x \in ToSet(rest) : ToSet(x.inserted) \subseteq W
    BY <1>1, <2>2
  <2> QED BY <1>2, <2>1, <2>3, <2>4, <2>5, <2>6
<1>4. CASE ~(hunks # <<>> /\ g.start = h.start + h.deleted)
  <2>1. Push(h, hunks) = << h >> \o hunks
    BY <1>4 DEF Push
  <2> QED BY <1>1, <1>2, <2>1
<1> QED BY <1>3, <1>4

LEMMA DiffOnlyIn ==
  ASSUME NEW a \in Seq(Line), NEW b \in Seq(Line), NEW W,
         Common(a, b, 0, 0) = Most(a, b, W, 0, 0)
  PROVE  InsertedIn(a, b) \subseteq W
<1> DEFINE n == Len(a)
           m == Len(b)
           T(i, j) == Common(a, b, i, j)
           U(i, j) == Most(a, b, W, i, j)
<1>1. n \in Nat /\ m \in Nat
  BY LenProperties
<1>2. PICK f : IsDiff(a, b, f) /\ diffLines(a, b) = f[<< 0, 0 >>]
  BY DiffLinesIs
<1> DEFINE N == {k \in Nat : \A i \in 0 .. n, j \in 0 .. m :
                   (n - i) + (m - j) < k /\ T(i, j) = U(i, j) => OnlyIn(W, f[<< i, j >>])}
<1>3. \A i \in 0 .. n, j \in 0 .. m : f[<< i, j >>] = Hunks(a, b, f, i, j)
  <2> SUFFICES ASSUME NEW i \in 0 .. n, NEW j \in 0 .. m
               PROVE  f[<< i, j >>] = Hunks(a, b, f, i, j)
    OBVIOUS
  <2>1. << i, j >> \in Grid(a, b) /\ << i, j >>[1] = i /\ << i, j >>[2] = j
    BY DEF Grid
  <2> QED BY <1>2, <2>1 DEF IsDiff
<1>4. \A i \in 0 .. n, j \in 0 .. m : T(i, j) \in Nat /\ U(i, j) \in Nat /\ T(i, j) <= U(i, j)
  <2> SUFFICES ASSUME NEW i \in 0 .. n, NEW j \in 0 .. m
               PROVE  T(i, j) \in Nat /\ U(i, j) \in Nat /\ T(i, j) <= U(i, j)
    OBVIOUS
  <2>1. T(i, j) \in Nat
    BY CommonStep
  <2>2. U(i, j) \in Nat
    BY MostStep
  <2>3. T(i, j) <= U(i, j)
    BY NoMoreThanMost
  <2> QED BY <2>1, <2>2, <2>3
<1>5. 0 \in N
  <2> HIDE DEF n, m, T, U
  <2> QED BY <1>1
<1>6. ASSUME NEW k \in Nat, k \in N PROVE k + 1 \in N
  <2> SUFFICES ASSUME NEW i \in 0 .. n, NEW j \in 0 .. m, (n - i) + (m - j) < k + 1, T(i, j) = U(i, j)
               PROVE  OnlyIn(W, f[<< i, j >>])
    <3> HIDE DEF n, m, T, U
    <3> QED OBVIOUS
  <2>1. \A p \in 0 .. n, q \in 0 .. m :
          (n - p) + (m - q) < k /\ T(p, q) = U(p, q) => OnlyIn(W, f[<< p, q >>])
    BY <1>6
  <2>2. /\ T(i, j) \in Nat /\ (i = n \/ j = m => T(i, j) = 0)
        /\ SameLine(a, b, i, j) => T(i, j) = T(i + 1, j + 1) + 1
        /\ i < n /\ j < m /\ ~SameLine(a, b, i, j) => T(i, j) = Larger(T(i + 1, j), T(i, j + 1))
    BY CommonStep
  <2>3. /\ U(i, j) \in Nat
        /\ i < n => U(i, j) = U(i + 1, j) + (IF a[i + 1] \in W THEN 1 ELSE 0)
        /\ j < m => U(i, j) = U(i, j + 1) + (IF b[j + 1] \in W THEN 0 ELSE 1)
    BY MostStep
  <2>4. /\ i < n => i + 1 \in 0 .. n /\ (n - (i + 1)) + (m - j) < k
        /\ j < m => j + 1 \in 0 .. m /\ (n - i) + (m - (j + 1)) < k
        /\ i < n /\ j < m => (n - (i + 1)) + (m - (j + 1)) < k
        /\ ~(i < n) => i = n
        /\ ~(j < m) => j = m
        /\ i \in Nat /\ j \in Nat
    <3> HIDE DEF n, m
    <3> QED BY <1>1
  <2>5. i = n /\ j < m => T(i, j + 1) = 0
    <3> SUFFICES ASSUME i = n, j < m PROVE T(i, j + 1) = 0
      OBVIOUS
    <3> DEFINE q == j + 1
    <3>1. q \in 0 .. m
      BY <2>4
    <3> HIDE DEF q
    <3>2. Common(a, b, i, q) = 0
      BY <3>1, CommonStep
    <3> QED BY <3>2 DEF q
  <2>6. j = m /\ i < n => T(i + 1, j) = 0
    <3> SUFFICES ASSUME j = m, i < n PROVE T(i + 1, j) = 0
      OBVIOUS
    <3> DEFINE p == i + 1
    <3>1. p \in 0 .. n
      BY <2>4
    <3> HIDE DEF p
    <3>2. Common(a, b, p, j) = 0
      BY <3>1, CommonStep
    <3> QED BY <3>2 DEF p
  <2>7. i < n /\ j < m => U(i + 1, j) = U(i + 1, j + 1) + (IF b[j + 1] \in W THEN 0 ELSE 1)
    <3> SUFFICES ASSUME i < n, j < m
                 PROVE  U(i + 1, j) = U(i + 1, j + 1) + (IF b[j + 1] \in W THEN 0 ELSE 1)
      OBVIOUS
    <3> DEFINE p == i + 1
    <3>1. p \in 0 .. n
      BY <2>4
    <3> HIDE DEF p
    <3>2. /\ U(p, j) \in Nat
          /\ p < n => U(p, j) = U(p + 1, j) + (IF a[p + 1] \in W THEN 1 ELSE 0)
          /\ j < m => U(p, j) = U(p, j + 1) + (IF b[j + 1] \in W THEN 0 ELSE 1)
      BY <3>1, MostStep
    <3> QED BY <3>2 DEF p
  <2> HIDE DEF T, U, N
  <2>8. CASE i = n /\ j = m /\ f[<< i, j >>] = <<>>
    <3>1. ToSet(<<>>) = {} /\ <<>> \in Seq(Hunk)
      BY DEF ToSet
    <3> QED BY <2>8, <3>1 DEF OnlyIn
  <2>9. CASE SameLine(a, b, i, j) /\ f[<< i, j >>] = f[<< i + 1, j + 1 >>]
    <3>1. i < n /\ j < m /\ a[i + 1] = b[j + 1]
      BY <2>9 DEF SameLine
    <3>2. i + 1 \in 0 .. n /\ j + 1 \in 0 .. m /\ (n - (i + 1)) + (m - (j + 1)) < k
      BY <2>4, <3>1
    <3>3. T(i + 1, j + 1) \in Nat /\ U(i + 1, j + 1) \in Nat /\ U(i + 1, j) \in Nat
      BY <1>4, <2>4, <3>1, <3>2
    <3> HIDE DEF n, m
    <3>4. U(i, j) = U(i + 1, j + 1) + 1
      BY <2>3, <2>7, <3>1, <3>3
    <3>5. T(i + 1, j + 1) = U(i + 1, j + 1)
      BY <2>2, <2>9, <3>3, <3>4
    <3> QED BY <2>1, <2>9, <3>2, <3>5
  <2>10. CASE /\ Drops(a, b, i, j)
              /\ f[<< i, j >>] = Push([start |-> i, deleted |-> 1, inserted |-> <<>>],
                                      f[<< i + 1, j >>])
    <3>1. i < n /\ ~SameLine(a, b, i, j) /\ (j < m => T(i + 1, j) >= T(i, j + 1))
      BY <2>10 DEF Drops, T, Common
    <3>2. /\ T(i + 1, j) \in Nat /\ U(i + 1, j) \in Nat /\ T(i + 1, j) <= U(i + 1, j)
          /\ j < m => T(i, j + 1) \in Nat
      BY <1>4, <2>4, <3>1
    <3>3. T(i, j) = T(i + 1, j)
      <4>1. CASE j < m
        BY <2>2, <3>1, <3>2, <4>1 DEF Larger
      <4>2. CASE ~(j < m)
        BY <2>2, <2>4, <2>6, <3>1, <4>2
      <4> QED BY <4>1, <4>2
    <3>4. U(i + 1, j) <= U(i, j)
      <4> DEFINE x == IF a[i + 1] \in W THEN 1 ELSE 0
      <4>1. x \in Nat /\ U(i, j) = U(i + 1, j) + x
        BY <2>3, <3>1
      <4> HIDE DEF x
      <4> QED BY <3>2, <4>1
    <3>5. T(i + 1, j) = U(i + 1, j)
      BY <2>3, <3>2, <3>3, <3>4
    <3>6. OnlyIn(W, f[<< i + 1, j >>])
      BY <2>1, <2>4, <3>1, <3>5
    <3> DEFINE h == [start |-> i, deleted |-> 1, inserted |-> <<>>]
    <3>7. h \in Hunk /\ ToSet(h.inserted) \subseteq W
      BY <2>4 DEF Hunk, ToSet
    <3> HIDE DEF h
    <3>8. OnlyIn(W, Push(h, f[<< i + 1, j >>]))
      BY <3>6, <3>7, PushOnly
    <3> QED BY <2>10, <3>8 DEF h
  <2>11. CASE /\ ~SameLine(a, b, i, j) /\ ~Drops(a, b, i, j) /\ j < m
              /\ f[<< i, j >>] = Push([start |-> i, deleted |-> 0, inserted |-> << b[j + 1] >>],
                                      f[<< i, j + 1 >>])
    <3>1. i < n => ~(T(i + 1, j) >= T(i, j + 1))
      BY <2>11 DEF Drops, T, Common
    <3>2. /\ T(i, j + 1) \in Nat /\ U(i, j + 1) \in Nat /\ T(i, j + 1) <= U(i, j + 1)
          /\ i < n => T(i + 1, j) \in Nat
      BY <1>4, <2>4, <2>11
    <3>3. T(i, j) = T(i, j + 1)
      <4>1. CASE i < n
        BY <2>2, <2>11, <3>1, <3>2, <4>1 DEF Larger
      <4>2. CASE ~(i < n)
        BY <2>2, <2>4, <2>5, <2>11, <4>2
      <4> QED BY <4>1, <4>2
    <3>4. b[j + 1] \in W /\ U(i, j) = U(i, j + 1)
      BY <2>3, <2>11, <3>2, <3>3
    <3>5. T(i, j + 1) = U(i, j + 1)
      BY <3>3, <3>4
    <3>6. OnlyIn(W, f[<< i, j + 1 >>])
      BY <2>1, <2>4, <2>11, <3>5
    <3> DEFINE h == [start |-> i, deleted |-> 0, inserted |-> << b[j + 1] >>]
    <3>7. h \in Hunk /\ ToSet(h.inserted) \subseteq W
      <4> DEFINE x == b[j + 1]
      <4>1. x \in Line
        <5>1. j + 1 \in 1 .. m
          BY <2>4, <2>11
        <5> QED BY <5>1, ElementOfSeq
      <4>2. << x >> \in Seq(Line) /\ ToSet(<< x >>) = {x}
        BY <4>1 DEF ToSet
      <4> HIDE DEF x
      <4>3. h.inserted = << x >> /\ h \in Hunk
        BY <2>4, <4>2 DEF Hunk, x
      <4> QED BY <3>4, <4>2, <4>3 DEF x
    <3> HIDE DEF h
    <3>8. OnlyIn(W, Push(h, f[<< i, j + 1 >>]))
      BY <3>6, <3>7, PushOnly
    <3> QED BY <2>11, <3>8 DEF h
  <2> DEFINE here == Hunks(a, b, f, i, j)
  <2>12. OneOf(a, b, f, i, j, here)
    BY HunksAre
  <2> HIDE DEF here
  <2>13. here = f[<< i, j >>]
    BY <1>3 DEF here
  <2> QED BY <2>8, <2>9, <2>10, <2>11, <2>12, <2>13 DEF OneOf
<1>7. n + m + 1 \in N
  <2>1. n + m + 1 \in Nat
    BY <1>1
  <2> HIDE DEF N
  <2> QED BY <1>5, <1>6, <2>1, Induction
<1>8. 0 \in 0 .. n /\ 0 \in 0 .. m /\ (n - 0) + (m - 0) < n + m + 1
  <2> HIDE DEF n, m
  <2> QED BY <1>1
<1>9. OnlyIn(W, f[<< 0, 0 >>])
  <2> HIDE DEF n, m
  <2> QED BY <1>7, <1>8
<1> QED BY <1>2, <1>9 DEF OnlyIn, InsertedIn

-----------------------------------------------------------------------------
(* A clean merge and theirs have as many lines in common as they can: the  *)
(* lines of theirs that are ours to insert, and the others of the merge.   *)

Enough(a, b, W, i, j) == Common(a, b, i, j) >= Most(a, b, W, i, j)

LEMMA OneStep ==
  ASSUME NEW a \in Seq(Line), NEW b \in Seq(Line), NEW W,
         NEW i \in 0 .. Len(a), NEW j \in 0 .. Len(b)
  PROVE  /\ SameLine(a, b, i, j) /\ Enough(a, b, W, i + 1, j + 1) => Enough(a, b, W, i, j)
         /\ i < Len(a) /\ a[i + 1] \notin W /\ Enough(a, b, W, i + 1, j) => Enough(a, b, W, i, j)
         /\ j < Len(b) /\ b[j + 1] \in W /\ Enough(a, b, W, i, j + 1) => Enough(a, b, W, i, j)
<1> DEFINE n == Len(a)
           m == Len(b)
           T(p, q) == Common(a, b, p, q)
           U(p, q) == Most(a, b, W, p, q)
<1>1. n \in Nat /\ m \in Nat
  BY LenProperties
<1>2. \A p \in 0 .. n, q \in 0 .. m : T(p, q) \in Nat /\ U(p, q) \in Nat
  <2> SUFFICES ASSUME NEW p \in 0 .. n, NEW q \in 0 .. m PROVE T(p, q) \in Nat /\ U(p, q) \in Nat
    OBVIOUS
  <2>1. T(p, q) \in Nat
    BY CommonStep
  <2>2. U(p, q) \in Nat
    BY MostStep
  <2> QED BY <2>1, <2>2
<1>3. /\ i < n => T(i + 1, j) <= T(i, j)
      /\ j < m => T(i, j + 1) <= T(i, j)
      /\ SameLine(a, b, i, j) => T(i, j) = T(i + 1, j + 1) + 1
  BY CommonStep
<1>4. /\ U(i, j) \in Nat
      /\ i < n => U(i, j) = U(i + 1, j) + (IF a[i + 1] \in W THEN 1 ELSE 0)
      /\ j < m => U(i, j) = U(i, j + 1) + (IF b[j + 1] \in W THEN 0 ELSE 1)
  BY MostStep
<1>5. ASSUME SameLine(a, b, i, j)
      PROVE  i < n /\ j < m /\ U(i, j) = U(i + 1, j + 1) + 1
  <2>1. i < n /\ j < m /\ a[i + 1] = b[j + 1]
    BY <1>5 DEF SameLine
  <2> DEFINE p == i + 1
  <2>2. p \in 0 .. n /\ j + 1 \in 0 .. m
    <3> HIDE DEF n, m
    <3> QED BY <1>1, <2>1
  <2>3. U(p, j + 1) \in Nat /\ U(p, j) \in Nat
    BY <1>2, <2>2
  <2> HIDE DEF p
  <2>4. /\ U(p, j) \in Nat
        /\ p < n => U(p, j) = U(p + 1, j) + (IF a[p + 1] \in W THEN 1 ELSE 0)
        /\ j < m => U(p, j) = U(p, j + 1) + (IF b[j + 1] \in W THEN 0 ELSE 1)
    BY <2>2, MostStep
  <2>5. U(i, j) = U(p, j) + (IF a[i + 1] \in W THEN 1 ELSE 0)
    BY <1>4, <2>1 DEF p
  <2> HIDE DEF T, U, n, m
  <2>6. U(i, j) = U(p, j + 1) + 1
    BY <2>1, <2>3, <2>4, <2>5
  <2> QED BY <2>1, <2>6 DEF p
<1>6. /\ i \in 0 .. n /\ j \in 0 .. m
      /\ i < n => i + 1 \in 0 .. n
      /\ j < m => j + 1 \in 0 .. m
  <2>1. i \in 0 .. n /\ j \in 0 .. m
    OBVIOUS
  <2> HIDE DEF n, m
  <2> QED BY <1>1, <2>1
<1> HIDE DEF T, U, n, m
<1>7. SameLine(a, b, i, j) /\ T(i + 1, j + 1) >= U(i + 1, j + 1) => T(i, j) >= U(i, j)
  BY <1>2, <1>3, <1>5, <1>6
<1>8. i < n /\ a[i + 1] \notin W /\ T(i + 1, j) >= U(i + 1, j) => T(i, j) >= U(i, j)
  BY <1>2, <1>3, <1>4, <1>6
<1>9. j < m /\ b[j + 1] \in W /\ T(i, j + 1) >= U(i, j + 1) => T(i, j) >= U(i, j)
  BY <1>2, <1>3, <1>4, <1>6
<1> QED BY <1>7, <1>8, <1>9 DEF Enough, T, U, n, m

\* Where the rest of a text starts with x.
LEMMA Ahead ==
  ASSUME NEW t \in Seq(Line), NEW i \in 0 .. Len(t), NEW x \in Seq(Line), NEW r \in Seq(Line),
         SubSeq(t, i + 1, Len(t)) = x \o r
  PROVE  /\ i + Len(x) \in 0 .. Len(t) /\ Len(x) \in Nat
         /\ SubSeq(t, (i + Len(x)) + 1, Len(t)) = r
         /\ \A k \in 1 .. Len(x) : t[i + k] = x[k]
<1> DEFINE n == Len(t)
           d == Len(x)
           e == Len(r)
           s == SubSeq(t, i + 1, n)
           u == SubSeq(t, (i + d) + 1, n)
<1>1. n \in Nat /\ d \in Nat /\ e \in Nat /\ i \in 0 .. n
  BY LenProperties
<1>2. /\ Len(s) = d + e
      /\ \A k \in 1 .. d + e : s[k] = IF k <= d THEN x[k] ELSE r[k - d]
  BY ConcatProperties
<1>3. Len(s) = n - i /\ \A k \in 1 .. n - i : s[k] = t[i + k]
  <2>1. \A k \in i + 1 .. n : t[k] \in Line
    BY <1>1, ElementOfSeq
  <2> HIDE DEF n
  <2>2. i + 1 \in Int /\ n \in Int /\ n - (i + 1) + 1 = n - i /\ (i + 1 <= n \/ n - i = 0)
        /\ \A k \in 1 .. n - i : (i + 1) + k - 1 = i + k
    BY <1>1
  <2>3. /\ Len(s) = IF i + 1 <= n THEN n - (i + 1) + 1 ELSE 0
        /\ \A k \in 1 .. n - (i + 1) + 1 : s[k] = t[(i + 1) + k - 1]
    BY <2>1, <2>2, SubSeqProperties
  <2>4. Len(s) = n - i
    BY <1>1, <2>2, <2>3
  <2> HIDE DEF s
  <2> QED BY <2>2, <2>3, <2>4
<1> HIDE DEF n, s
<1>4. n - i = d + e /\ i \in Nat
  BY <1>1, <1>2, <1>3
<1> HIDE DEF d, e
<1>5. i + d \in 0 .. n /\ n - (i + d) = e
  BY <1>1, <1>4
<1>6. \A k \in 1 .. d : t[i + k] = x[k]
  <2>1. \A k \in 1 .. d : k \in 1 .. d + e /\ k \in 1 .. n - i /\ k <= d
    BY <1>1, <1>4
  <2> QED BY <1>2, <1>3, <2>1
<1>7. \A k \in 1 .. e : t[(i + d) + k] = r[k]
  <2>1. \A k \in 1 .. e : d + k \in 1 .. d + e /\ d + k \in 1 .. n - i /\ ~(d + k <= d)
                          /\ (d + k) - d = k /\ i + (d + k) = (i + d) + k
    BY <1>1, <1>4
  <2> QED BY <1>2, <1>3, <2>1
<1>8. u = r
  <2>1. \A k \in (i + d) + 1 .. n : t[k] \in Line
    <3>1. \A k \in (i + d) + 1 .. n : k \in 1 .. n
      BY <1>1, <1>5
    <3> QED BY <3>1, ElementOfSeq DEF n
  <2>2. /\ (i + d) + 1 \in Int /\ n \in Int /\ n - ((i + d) + 1) + 1 = e
        /\ ((i + d) + 1 <= n \/ e = 0)
        /\ \A k \in 1 .. e : ((i + d) + 1) + k - 1 = (i + d) + k
    BY <1>1, <1>5
  <2> DEFINE from == (i + d) + 1
  <2> HIDE DEF from
  <2>3. /\ SubSeq(t, from, n) \in Seq(Line)
        /\ Len(SubSeq(t, from, n)) = IF from <= n THEN n - from + 1 ELSE 0
        /\ \A k \in 1 .. n - from + 1 : SubSeq(t, from, n)[k] = t[from + k - 1]
    BY <2>1, <2>2, SubSeqProperties, SMTT(30) DEF from
  <2>4. u = SubSeq(t, from, n)
    BY DEF from
  <2> HIDE DEF u
  <2>5. Len(u) = e
    BY <1>1, <2>2, <2>3, <2>4 DEF from
  <2>6. \A k \in 1 .. e : u[k] = r[k]
    BY <1>7, <2>2, <2>3, <2>4 DEF from
  <2> QED BY <2>3, <2>4, <2>5, <2>6, SeqEqual DEF e
<1> QED BY <1>1, <1>5, <1>6, <1>8 DEF n, d, u

\* The same lines in both, or lines in W in the second.
LEMMA ManySame ==
  ASSUME NEW a \in Seq(Line), NEW b \in Seq(Line), NEW W, NEW i \in Nat, NEW j \in Nat, NEW d \in Nat,
         i + d <= Len(a), j + d <= Len(b), \A k \in 1 .. d : a[i + k] = b[j + k],
         Enough(a, b, W, i + d, j + d)
  PROVE  Enough(a, b, W, i, j)
<1> DEFINE n == Len(a)
           m == Len(b)
           N == {k \in Nat : k <= d => Enough(a, b, W, i + (d - k), j + (d - k))}
<1>1. n \in Nat /\ m \in Nat
  BY LenProperties
<1>2. 0 \in N
  OBVIOUS
<1>3. ASSUME NEW k \in Nat, k \in N PROVE k + 1 \in N
  <2> SUFFICES ASSUME k + 1 <= d PROVE Enough(a, b, W, i + (d - (k + 1)), j + (d - (k + 1)))
    OBVIOUS
  <2> DEFINE p == i + (d - (k + 1))
             q == j + (d - (k + 1))
  <2>1. /\ p \in 0 .. n /\ q \in 0 .. m /\ p < n /\ q < m
        /\ p + 1 = i + (d - k) /\ q + 1 = j + (d - k) /\ d - k \in 1 .. d
    <3>1. i + d <= n /\ j + d <= m
      OBVIOUS
    <3> HIDE DEF n, m
    <3> QED BY <1>1, <3>1
  <2>2. Enough(a, b, W, p + 1, q + 1) /\ a[p + 1] = b[q + 1]
    <3>1. Enough(a, b, W, i + (d - k), j + (d - k))
      <4>1. k <= d
        OBVIOUS
      <4> QED BY <1>3, <4>1
    <3>2. a[i + (d - k)] = b[j + (d - k)]
      BY <2>1
    <3> HIDE DEF p, q
    <3> QED BY <2>1, <3>1, <3>2
  <2> HIDE DEF p, q
  <2>3. SameLine(a, b, p, q)
    BY <2>1, <2>2 DEF SameLine
  <2>4. Enough(a, b, W, p, q)
    BY <2>1, <2>2, <2>3, OneStep
  <2> QED BY <2>4 DEF p, q
<1>4. d \in N /\ i + (d - d) = i /\ j + (d - d) = j
  <2> HIDE DEF N
  <2> QED BY <1>2, <1>3, Induction
<1> QED BY <1>4

LEMMA ManyAdded ==
  ASSUME NEW a \in Seq(Line), NEW b \in Seq(Line), NEW W, NEW i \in 0 .. Len(a), NEW j \in Nat,
         NEW d \in Nat, j + d <= Len(b), \A k \in 1 .. d : b[j + k] \in W,
         Enough(a, b, W, i, j + d)
  PROVE  Enough(a, b, W, i, j)
<1> DEFINE m == Len(b)
           N == {k \in Nat : k <= d => Enough(a, b, W, i, j + (d - k))}
<1>1. m \in Nat
  BY LenProperties
<1>2. 0 \in N
  OBVIOUS
<1>3. ASSUME NEW k \in Nat, k \in N PROVE k + 1 \in N
  <2> SUFFICES ASSUME k + 1 <= d PROVE Enough(a, b, W, i, j + (d - (k + 1)))
    OBVIOUS
  <2> DEFINE q == j + (d - (k + 1))
  <2>1. q \in 0 .. m /\ q < m /\ q + 1 = j + (d - k) /\ d - k \in 1 .. d
    <3>1. j + d <= m
      OBVIOUS
    <3> HIDE DEF m
    <3> QED BY <1>1, <3>1
  <2>2. Enough(a, b, W, i, q + 1) /\ b[q + 1] \in W
    <3>1. Enough(a, b, W, i, j + (d - k))
      <4>1. k <= d
        OBVIOUS
      <4> QED BY <1>3, <4>1
    <3>2. b[j + (d - k)] \in W
      BY <2>1
    <3> HIDE DEF q
    <3> QED BY <2>1, <3>1, <3>2
  <2> HIDE DEF q
  <2>3. Enough(a, b, W, i, q)
    BY <2>1, <2>2, OneStep
  <2> QED BY <2>3 DEF q
<1>4. d \in N /\ j + (d - d) = j
  <2> HIDE DEF N
  <2> QED BY <1>2, <1>3, Induction, SMTT(30)
<1> QED BY <1>4

\* Hunks G of one side, which insert only lines in W, and hunks H of the other.
Mixed(one, G, H, W) ==
  /\ Apart(G, Len(one)) /\ Apart(H, Len(one))
  /\ \A g \in G, h \in H : g.start # h.start
  /\ \A g \in G : ToSet(g.inserted) \subseteq W
  /\ \A k \in 1 .. Len(one) : one[k] \notin W

\* The two texts are what the hunks make from the line after p on.
RestsAre(one, G, H, a, b, p, i, j) ==
  /\ SubSeq(a, i + 1, Len(a)) = Rest(one, H, p)
  /\ SubSeq(b, j + 1, Len(b)) = Rest(one, G \cup H, p)

EnoughFrom(one, G, H, W, a, b, p) ==
  \A i \in 0 .. Len(a), j \in 0 .. Len(b) :
    RestsAre(one, G, H, a, b, p, i, j) => Enough(a, b, W, i, j)

\* What H alone and both together put at p.
SameOrMore(one, G, H, W, p) ==
  /\ \/ Ins(G \cup H, p) = Ins(H, p)
     \/ Ins(H, p) = <<>> /\ ToSet(Ins(G \cup H, p)) \subseteq W
  /\ \/ Kept(one, G \cup H, p) = Kept(one, H, p)
     \/ /\ p < Len(one) /\ Kept(one, G \cup H, p) = <<>>
        /\ Kept(one, H, p) = << one[p + 1] >> /\ one[p + 1] \notin W

LEMMA MixedSlot ==
  ASSUME NEW one \in Seq(Line), NEW G, NEW H, NEW W, Mixed(one, G, H, W), NEW p \in 0 .. Len(one)
  PROVE  SameOrMore(one, G, H, W, p)
<1> DEFINE n == Len(one)
           U == G \cup H
<1>1. n \in Nat
  BY LenProperties
<1>2. /\ G \in SUBSET Hunk /\ H \in SUBSET Hunk /\ U \in SUBSET Hunk
      /\ \A g \in U : g.start \in Nat /\ g.deleted \in Nat
  <2>1. G \in SUBSET Hunk /\ H \in SUBSET Hunk
    BY DEF Mixed, Apart
  <2> QED BY <2>1 DEF Hunk
<1>3. \A g, h \in U : g.start = h.start => g = h
  <2>1. \A g \in U : Larger(g.deleted, 1) \in Nat /\ 1 <= Larger(g.deleted, 1)
    BY <1>2 DEF Larger
  <2>2. \A g, h \in G : g.start = h.start => g = h
    BY <1>2, <2>1 DEF Mixed, Apart
  <2>3. \A g, h \in H : g.start = h.start => g = h
    BY <1>2, <2>1 DEF Mixed, Apart
  <2>4. \A g \in G, h \in H : g.start # h.start
    BY DEF Mixed
  <2> QED BY <2>2, <2>3, <2>4
<1>4. \/ Ins(U, p) = Ins(H, p)
      \/ Ins(H, p) = <<>> /\ ToSet(Ins(U, p)) \subseteq W
  <2>1. CASE \E h \in H : h.start = p
    <3>1. PICK h \in H : h.start = p
      BY <2>1
    <3>2. h \in U /\ (\A g \in U : g.start = p => g = h) /\ (\A g \in H : g.start = p => g = h)
      BY <1>3, <3>1
    <3> HIDE DEF U
    <3>3. Ins(U, p) = h.inserted /\ Ins(H, p) = h.inserted
      BY <1>2, <3>1, <3>2, InsAt
    <3> QED BY <3>3
  <2>2. CASE (\A h \in H : h.start # p) /\ \E g \in G : g.start = p
    <3>1. PICK g \in G : g.start = p
      BY <2>2
    <3>2. g \in U /\ \A h \in U : h.start = p => h = g
      BY <1>3, <3>1
    <3> HIDE DEF U
    <3>3. Ins(U, p) = g.inserted /\ Ins(H, p) = <<>>
      BY <1>2, <2>2, <3>1, <3>2, InsAt
    <3> QED BY <3>1, <3>3 DEF Mixed
  <2>3. CASE (\A h \in H : h.start # p) /\ \A g \in G : g.start # p
    <3>1. \A h \in U : h.start # p
      BY <2>3
    <3> HIDE DEF U
    <3>2. Ins(U, p) = <<>> /\ Ins(H, p) = <<>>
      BY <1>2, <2>3, <3>1, InsAt
    <3> QED BY <3>2
  <2> QED BY <2>1, <2>2, <2>3
<1>5. \/ Kept(one, U, p) = Kept(one, H, p)
      \/ /\ p < n /\ Kept(one, U, p) = <<>>
         /\ Kept(one, H, p) = << one[p + 1] >> /\ one[p + 1] \notin W
  <2>1. Gone(H, p) => Gone(U, p)
    BY DEF Gone
  <2>2. CASE p < n /\ ~Gone(H, p) /\ Gone(U, p)
    <3>1. p + 1 \in 1 .. n
      BY <1>1, <2>2
    <3>2. one[p + 1] \notin W
      BY <3>1 DEF Mixed
    <3> QED BY <2>2, <3>2 DEF Kept
  <2>3. CASE ~(p < n) \/ (Gone(H, p) <=> Gone(U, p))
    BY <2>3 DEF Kept
  <2> QED BY <2>1, <2>2, <2>3
<1> QED BY <1>4, <1>5 DEF SameOrMore

LEMMA SlotStep ==
  ASSUME NEW one \in Seq(Line), NEW G, NEW H, NEW W, Mixed(one, G, H, W), NEW p \in 0 .. Len(one),
         NEW a \in Seq(Line), NEW b \in Seq(Line), EnoughFrom(one, G, H, W, a, b, p + 1)
  PROVE  EnoughFrom(one, G, H, W, a, b, p)
<1> SUFFICES ASSUME NEW i \in 0 .. Len(a), NEW j \in 0 .. Len(b),
                    RestsAre(one, G, H, a, b, p, i, j)
             PROVE  Enough(a, b, W, i, j)
  BY DEF EnoughFrom
<1> DEFINE n == Len(a)
           m == Len(b)
           U == G \cup H
           x == Ins(H, p)
           y == Ins(U, p)
           u == Kept(one, H, p)
           v == Kept(one, U, p)
           r == Rest(one, H, p + 1)
           s == Rest(one, U, p + 1)
<1>1. n \in Nat /\ m \in Nat /\ p \in Nat /\ Len(one) \in Nat
  BY LenProperties
<1>2. H \in SUBSET Hunk /\ U \in SUBSET Hunk
  BY DEF Mixed, Apart
<1>3. /\ \/ y = x
         \/ x = <<>> /\ ToSet(y) \subseteq W
      /\ \/ v = u
         \/ p < Len(one) /\ v = <<>> /\ u = << one[p + 1] >> /\ one[p + 1] \notin W
  <2>1. one \in Seq(Line) /\ Mixed(one, G, H, W) /\ p \in 0 .. Len(one)
    OBVIOUS
  <2>2. SameOrMore(one, G, H, W, p)
    BY ONLY <2>1, MixedSlot
  <2> QED BY ONLY <2>2 DEF SameOrMore, x, y, u, v, U
<1>4. x \in Seq(Line) /\ u \in Seq(Line) /\ r \in Seq(Line)
      /\ SubSeq(a, i + 1, n) = x \o (u \o r)
  <2>1. x \in Seq(Line)
    BY <1>2, InsAt
  <2>2. u \in Seq(Line)
    BY <1>1, <1>2, SlotAt
  <2>3. Rest(one, H, p) = (x \o u) \o r /\ r \in Seq(Line)
    BY <1>2, RestFirst DEF Slot
  <2>4. SubSeq(a, i + 1, n) = Rest(one, H, p)
    BY DEF RestsAre
  <2> HIDE DEF x, u, r
  <2>5. x \o (u \o r) = (x \o u) \o r
    BY <2>1, <2>2, <2>3, Glue, ZenonT(30)
  <2> QED BY <2>1, <2>2, <2>3, <2>4, <2>5
<1>5. y \in Seq(Line) /\ v \in Seq(Line) /\ s \in Seq(Line)
      /\ SubSeq(b, j + 1, m) = y \o (v \o s)
  <2>0. SubSeq(b, j + 1, m) = Rest(one, U, p)
    BY DEF RestsAre
  <2> HIDE DEF U
  <2>1. y \in Seq(Line)
    BY <1>2, InsAt
  <2>2. v \in Seq(Line)
    BY <1>1, <1>2, SlotAt
  <2>3. Rest(one, U, p) = (y \o v) \o s /\ s \in Seq(Line)
    BY <1>2, RestFirst DEF Slot
  <2> HIDE DEF y, v, s
  <2>5. y \o (v \o s) = (y \o v) \o s
    BY <2>1, <2>2, <2>3, Glue, ZenonT(30)
  <2> QED BY <2>0, <2>1, <2>2, <2>3, <2>5
<1>6. ASSUME NEW k \in 0 .. n, NEW l \in 0 .. m,
             SubSeq(a, k + 1, n) = r, SubSeq(b, l + 1, m) = s
      PROVE  Enough(a, b, W, k, l)
  BY <1>6 DEF EnoughFrom, RestsAre
<1> HIDE DEF x, y, u, v, r, s, U, n, m
<1> DEFINE i1 == i + Len(x)
           j1 == j + Len(y)
           i2 == i1 + Len(u)
           j2 == j1 + Len(v)
<1>7. /\ i1 \in 0 .. n /\ Len(x) \in Nat /\ SubSeq(a, i1 + 1, n) = u \o r
      /\ \A k \in 1 .. Len(x) : a[i + k] = x[k]
  <2> DEFINE t == u \o r
  <2>1. t \in Seq(Line) /\ SubSeq(a, i + 1, n) = x \o t
    BY <1>4, ConcatProperties
  <2> HIDE DEF t
  <2>2. /\ i + Len(x) \in 0 .. Len(a) /\ Len(x) \in Nat
        /\ SubSeq(a, (i + Len(x)) + 1, Len(a)) = t
        /\ \A k \in 1 .. Len(x) : a[i + k] = x[k]
    <3>1. a \in Seq(Line) /\ i \in 0 .. Len(a) /\ x \in Seq(Line) /\ t \in Seq(Line)
          /\ SubSeq(a, i + 1, Len(a)) = x \o t
      BY <1>4, <2>1 DEF n
    <3> QED BY ONLY <3>1, Ahead, ZenonT(30)
  <2> QED BY <2>2 DEF t, n
<1>8. /\ j1 \in 0 .. m /\ Len(y) \in Nat /\ SubSeq(b, j1 + 1, m) = v \o s
      /\ \A k \in 1 .. Len(y) : b[j + k] = y[k]
  <2> DEFINE t == v \o s
  <2>1. t \in Seq(Line) /\ SubSeq(b, j + 1, m) = y \o t
    BY <1>5, ConcatProperties
  <2> HIDE DEF t
  <2>2. /\ j + Len(y) \in 0 .. Len(b) /\ Len(y) \in Nat
        /\ SubSeq(b, (j + Len(y)) + 1, Len(b)) = t
        /\ \A k \in 1 .. Len(y) : b[j + k] = y[k]
    <3>1. b \in Seq(Line) /\ j \in 0 .. Len(b) /\ y \in Seq(Line) /\ t \in Seq(Line)
          /\ SubSeq(b, j + 1, Len(b)) = y \o t
      BY <1>5, <2>1 DEF m
    <3> QED BY ONLY <3>1, Ahead, ZenonT(30)
  <2> QED BY <2>2 DEF t, m
<1> HIDE DEF i1, j1
<1>9. /\ i2 \in 0 .. n /\ Len(u) \in Nat /\ SubSeq(a, i2 + 1, n) = r
      /\ \A k \in 1 .. Len(u) : a[i1 + k] = u[k]
  <2>1. a \in Seq(Line) /\ i1 \in 0 .. Len(a) /\ u \in Seq(Line) /\ r \in Seq(Line)
        /\ SubSeq(a, i1 + 1, Len(a)) = u \o r
    BY <1>4, <1>7 DEF n
  <2>2. /\ i1 + Len(u) \in 0 .. Len(a) /\ Len(u) \in Nat
        /\ SubSeq(a, (i1 + Len(u)) + 1, Len(a)) = r
        /\ \A k \in 1 .. Len(u) : a[i1 + k] = u[k]
    BY ONLY <2>1, Ahead, ZenonT(30)
  <2> QED BY <2>2 DEF n
<1>10. /\ j2 \in 0 .. m /\ Len(v) \in Nat /\ SubSeq(b, j2 + 1, m) = s
       /\ \A k \in 1 .. Len(v) : b[j1 + k] = v[k]
  <2>1. b \in Seq(Line) /\ j1 \in 0 .. Len(b) /\ v \in Seq(Line) /\ s \in Seq(Line)
        /\ SubSeq(b, j1 + 1, Len(b)) = v \o s
    BY <1>5, <1>8 DEF m
  <2>2. /\ j1 + Len(v) \in 0 .. Len(b) /\ Len(v) \in Nat
        /\ SubSeq(b, (j1 + Len(v)) + 1, Len(b)) = s
        /\ \A k \in 1 .. Len(v) : b[j1 + k] = v[k]
    BY ONLY <2>1, Ahead, ZenonT(30)
  <2> QED BY <2>2 DEF m
<1> HIDE DEF i2, j2
<1>11. Enough(a, b, W, i2, j2)
  BY <1>6, <1>9, <1>10
<1>12. Enough(a, b, W, i1, j1)
  <2>1. CASE v = u
    <3> DEFINE d == Len(u)
    <3>1. /\ i1 \in Nat /\ j1 \in Nat /\ d \in Nat /\ i2 = i1 + d /\ j2 = j1 + d
          /\ i1 + d <= n /\ j1 + d <= m /\ \A k \in 1 .. d : a[i1 + k] = b[j1 + k]
      BY <1>1, <1>7, <1>8, <1>9, <1>10, <2>1 DEF i2, j2
    <3> HIDE DEF d
    <3> QED BY <1>11, <3>1, ManySame DEF n, m
  <2>2. CASE p < Len(one) /\ v = <<>> /\ u = << one[p + 1] >> /\ one[p + 1] \notin W
    <3>1. Len(u) = 1 /\ u[1] = one[p + 1] /\ Len(v) = 0
      BY <2>2
    <3>2. a[i1 + 1] \notin W
      BY <1>9, <2>2, <3>1
    <3>3. i2 = i1 + 1 /\ i1 < n /\ j2 = j1
      BY <1>1, <1>7, <1>8, <1>9, <3>1 DEF i2, j2
    <3>4. Enough(a, b, W, i1 + 1, j1)
      BY <1>11, <3>3
    <3>5. i1 \in 0 .. Len(a) /\ j1 \in 0 .. Len(b) /\ i1 < Len(a)
      BY <1>7, <1>8, <3>3 DEF n, m
    <3> QED BY <3>2, <3>4, <3>5, OneStep
  <2> QED BY <1>3, <2>1, <2>2
<1>13. CASE y = x
  <2> DEFINE d == Len(x)
  <2>1. /\ i \in Nat /\ j \in Nat /\ d \in Nat /\ i1 = i + d /\ j1 = j + d
        /\ i + d <= n /\ j + d <= m /\ \A k \in 1 .. d : a[i + k] = b[j + k]
    BY <1>1, <1>7, <1>8, <1>13 DEF i1, j1
  <2> HIDE DEF d
  <2> QED BY <1>12, <2>1, ManySame DEF n, m
<1>14. CASE x = <<>> /\ ToSet(y) \subseteq W
  <2> DEFINE d == Len(y)
  <2>1. i1 = i
    <3>1. Len(x) = 0 /\ i \in Nat
      BY <1>14
    <3> QED BY <3>1 DEF i1
  <2>2. \A k \in 1 .. Len(y) : y[k] \in ToSet(y)
    BY <1>5, LenProperties DEF ToSet
  <2>3. /\ i \in 0 .. Len(a) /\ j \in Nat /\ d \in Nat /\ j1 = j + d /\ j + d <= m
        /\ \A k \in 1 .. d : b[j + k] \in W
    <3>1. \A k \in 1 .. Len(y) : b[j + k] \in W
      BY <1>8, <1>14, <2>2
    <3>2. j \in 0 .. m /\ i \in 0 .. n
      BY DEF m, n
    <3>3. i \in 0 .. Len(a) /\ j \in Nat /\ Len(y) \in Nat
      BY <1>1, <1>8, <3>2 DEF n
    <3>4. j1 = j + Len(y) /\ j + Len(y) <= m
      BY <1>1, <1>8, <3>2 DEF j1
    <3> QED BY ONLY <3>1, <3>3, <3>4
  <2> HIDE DEF d
  <2>4. Enough(a, b, W, i, j + d)
    BY <1>12, <2>1, <2>3
  <2> QED BY <2>3, <2>4, ManyAdded DEF m
<1> QED BY <1>3, <1>13, <1>14

LEMMA MergeHasEnough ==
  ASSUME NEW one \in Seq(Line), NEW G, NEW H, NEW W, Mixed(one, G, H, W),
         NEW a \in Seq(Line), NEW b \in Seq(Line),
         a = Rest(one, H, 0), b = Rest(one, G \cup H, 0)
  PROVE  InsertedIn(a, b) \subseteq W
<1> DEFINE n == Len(one)
           E(p) == EnoughFrom(one, G, H, W, a, b, p)
           N == {k \in Nat : k <= n + 1 => E(n + 1 - k)}
<1>1. n \in Nat /\ Len(a) \in Nat /\ Len(b) \in Nat
  BY LenProperties
<1>2. H \in SUBSET Hunk /\ G \cup H \in SUBSET Hunk
  BY DEF Mixed, Apart
<1>3. E(n + 1)
  <2> SUFFICES ASSUME NEW i \in 0 .. Len(a), NEW j \in 0 .. Len(b),
                      RestsAre(one, G, H, a, b, n + 1, i, j)
               PROVE  Enough(a, b, W, i, j)
    BY DEF EnoughFrom
  <2> DEFINE U == G \cup H
  <2>1. SubSeq(a, i + 1, Len(a)) = <<>> /\ SubSeq(b, j + 1, Len(b)) = <<>>
    <3>1. SubSeq(a, i + 1, Len(a)) = Rest(one, H, n + 1)
          /\ SubSeq(b, j + 1, Len(b)) = Rest(one, U, n + 1)
      BY DEF RestsAre
    <3>2. U \in SUBSET Hunk
      BY <1>2
    <3> HIDE DEF U
    <3> QED BY <1>2, <3>1, <3>2, RestEnd
  <2>2. i = Len(a)
    <3>1. <<>> \in Seq(Line) /\ Len(<<>>) = 0 /\ <<>> \o <<>> = <<>>
      OBVIOUS
    <3>2. \A k \in i + 1 .. Len(a) : a[k] \in Line
      BY <1>1, ElementOfSeq
    <3>3. i + 1 \in Int /\ Len(a) \in Int /\ i <= Len(a)
      BY <1>1
    <3>4. Len(SubSeq(a, i + 1, Len(a))) = IF i + 1 <= Len(a) THEN Len(a) - (i + 1) + 1 ELSE 0
      BY <3>2, <3>3, SubSeqProperties
    <3>5. Len(SubSeq(a, i + 1, Len(a))) = 0
      BY <2>1, <3>1
    <3> HIDE DEF n
    <3> QED BY ONLY <1>1, <3>3, <3>4, <3>5
  <2>3. j = Len(b)
    <3>1. <<>> \in Seq(Line) /\ Len(<<>>) = 0
      OBVIOUS
    <3>2. \A k \in j + 1 .. Len(b) : b[k] \in Line
      BY <1>1, ElementOfSeq
    <3>3. j + 1 \in Int /\ Len(b) \in Int /\ j <= Len(b)
      BY <1>1
    <3>4. Len(SubSeq(b, j + 1, Len(b))) = IF j + 1 <= Len(b) THEN Len(b) - (j + 1) + 1 ELSE 0
      BY <3>2, <3>3, SubSeqProperties
    <3>5. Len(SubSeq(b, j + 1, Len(b))) = 0
      BY <2>1, <3>1
    <3> HIDE DEF n
    <3> QED BY ONLY <1>1, <3>3, <3>4, <3>5
  <2>4. Among(a, W, i) = 0
    BY <2>2, AmongStep
  <2>5. Among(b, Line \ W, j) = 0
    <3> DEFINE V == Line \ W
    <3> HIDE DEF V
    <3>1. Among(b, V, j) = 0
      BY <2>3, AmongStep
    <3> QED BY <3>1 DEF V
  <2>6. Common(a, b, i, j) \in Nat
    BY CommonStep
  <2> QED BY <2>4, <2>5, <2>6 DEF Enough, Most
<1> HIDE DEF n
<1>4. 0 \in N
  <2>1. n + 1 - 0 = n + 1
    BY <1>1
  <2> HIDE DEF E
  <2> QED BY <1>3, <2>1
<1>5. ASSUME NEW k \in Nat, k \in N PROVE k + 1 \in N
  <2> SUFFICES ASSUME k + 1 <= n + 1 PROVE E(n + 1 - (k + 1))
    <3> HIDE DEF E
    <3> QED OBVIOUS
  <2> DEFINE p == n + 1 - (k + 1)
  <2>1. p \in 0 .. n /\ p + 1 = n + 1 - k /\ k <= n + 1
    BY <1>1
  <2>2. E(p + 1)
    <3> HIDE DEF E, p
    <3> QED BY <1>5, <2>1
  <2> HIDE DEF p
  <2>3. E(p)
    BY <2>1, <2>2, SlotStep DEF n
  <2> HIDE DEF E
  <2> QED BY <2>3 DEF p
<1>6. n + 1 \in N /\ n + 1 - (n + 1) = 0
  <2>1. n + 1 \in Nat /\ n + 1 - (n + 1) = 0
    BY <1>1
  <2> HIDE DEF N
  <2> QED BY <1>4, <1>5, <2>1, Induction
<1>7. E(0)
  <2>1. n + 1 <= n + 1
    BY <1>1
  <2> HIDE DEF E
  <2> QED BY <1>6, <2>1
<1>8. Enough(a, b, W, 0, 0)
  <2>1. SubSeq(a, 0 + 1, Len(a)) = a /\ SubSeq(b, 0 + 1, Len(b)) = b
    BY SubSeqFull
  <2>2. 0 \in 0 .. Len(a) /\ 0 \in 0 .. Len(b)
    BY <1>1
  <2>3. RestsAre(one, G, H, a, b, 0, 0, 0)
    BY <2>1 DEF RestsAre
  <2> QED BY <1>7, <2>2, <2>3 DEF EnoughFrom
<1>9. Common(a, b, 0, 0) = Most(a, b, W, 0, 0)
  <2>1. 0 \in 0 .. Len(a) /\ 0 \in 0 .. Len(b)
    BY <1>1
  <2>2. Common(a, b, 0, 0) \in Nat
    BY <2>1, CommonStep
  <2>3. Most(a, b, W, 0, 0) \in Nat
    BY <2>1, MostStep
  <2>4. Common(a, b, 0, 0) <= Most(a, b, W, 0, 0)
    BY <2>1, NoMoreThanMost
  <2> QED BY <1>8, <2>2, <2>3, <2>4 DEF Enough
<1> QED BY <1>9, DiffOnlyIn

LEMMA MergedText ==
  ASSUME NEW one \in Texts, NEW mine \in Texts, NEW yours \in Texts,
         merge3(one, mine, yours).ok
  PROVE  merge3(one, mine, yours).content \in Seq(Line)
<1> DEFINE m == merge3(one, mine, yours)
           U == ToSet(diffLines(one, mine)) \cup ToSet(diffLines(one, yours))
<1>1. one \in Seq(Line) /\ mine \in Seq(Line) /\ yours \in Seq(Line) /\ 0 \in 0 .. Len(one)
  BY LenProperties DEF Texts
<1>2. U \in SUBSET Hunk
  <2>1. /\ Chain(diffLines(one, mine), 0, Len(one)) /\ Len(one) \in Nat
        /\ Chain(diffLines(one, yours), 0, Len(one))
    BY <1>1, DiffIsADiff, LenProperties
  <2>2. Apart(ToSet(diffLines(one, mine)), Len(one)) /\ Apart(ToSet(diffLines(one, yours)), Len(one))
    BY <2>1, OneDiff
  <2> QED BY <2>2 DEF Apart
<1>3. CASE mine = yours
  BY <1>1, <1>3 DEF merge3, Clean
<1>4. CASE mine # yours
  <2>1. m.content = joinLines(SlotMerge(one, U))
    BY <1>4, AMergeIsBothEdits DEF MergesBoth
  <2> HIDE DEF m, U
  <2>2. SlotMerge(one, U) \in Seq(Line)
    <3>1. Rest(one, U, 0) \in Seq(Line)
      BY <1>1, <1>2, RestFirst
    <3>2. SlotMerge(one, U) = Rest(one, U, 0)
      BY <1>1, SlotMergeIsRest
    <3> QED BY <3>1, <3>2
  <2>3. <<>> \in Seq(Line)
    OBVIOUS
  <2>4. m.content \in Seq(Line)
    BY <2>1, <2>2, <2>3 DEF joinLines
  <2> QED BY <2>4 DEF m
<1> QED BY <1>3, <1>4

(***************************************************************************)
(* What a clean merge adds to the committed text is what ours inserted,    *)
(* when that is none of the base lines: the diff of the two texts keeps at *)
(* least the lines that the merge does.                                    *)
(***************************************************************************)
AddsOnly(yours, content, W) ==
  /\ content \in Seq(Line)
  /\ \A i \in 1 .. Len(content) : content[i] \in InsertedIn(yours, content) => content[i] \in W

LEMMA NothingInserted ==
  ASSUME NEW one \in Seq(Line)
  PROVE  InsertedIn(one, one) = {}
<1>1. ToSet(diffLines(one, one)) = {}
  BY NoDiff DEF ToSet
<1> QED BY <1>1 DEF InsertedIn

LEMMA MergeAddsOnlyMine ==
  ASSUME NEW one \in Texts, NEW mine \in Texts, NEW yours \in Texts, NEW W,
         W = InsertedIn(one, mine), \A k \in 1 .. Len(one) : one[k] \notin W,
         merge3(one, mine, yours).ok
  PROVE  AddsOnly(yours, merge3(one, mine, yours).content, W)
<1> DEFINE G == ToSet(diffLines(one, mine))
           H == ToSet(diffLines(one, yours))
           m == merge3(one, mine, yours)
           r == Rest(one, G \cup H, 0)
<1>1. one \in Seq(Line) /\ mine \in Seq(Line) /\ yours \in Seq(Line)
  BY DEF Texts
<1>2. CASE mine = yours
  <2>1. m.content = yours
    BY <1>2 DEF merge3, Clean
  <2> HIDE DEF m
  <2>2. InsertedIn(yours, yours) = {}
    BY <1>1, NothingInserted
  <2>3. AddsOnly(yours, m.content, W)
    BY <1>1, <2>1, <2>2 DEF AddsOnly
  <2> QED BY <2>3 DEF m
<1>3. CASE mine # yours /\ one = yours
  <2>1. m.content = mine
    BY <1>3 DEF merge3, Clean
  <2> HIDE DEF m
  <2>3. AddsOnly(yours, m.content, W)
    BY <1>1, <1>3, <2>1 DEF AddsOnly
  <2> QED BY <2>3 DEF m
<1>4. CASE mine # yours /\ one # yours /\ one = mine
  <2>1. m.content = yours
    BY <1>4 DEF merge3, Clean
  <2> HIDE DEF m
  <2>2. InsertedIn(yours, yours) = {}
    BY <1>1, NothingInserted
  <2>3. AddsOnly(yours, m.content, W)
    BY <1>1, <2>1, <2>2 DEF AddsOnly
  <2> QED BY <2>3 DEF m
<1>5. CASE mine # yours /\ one # yours /\ one # mine
  <2>1. (\A g \in G, h \in H : ~overlaps(g, h)) /\ m.content = joinLines(ApplyHunks(one, G \cup H))
    <3> HIDE DEF G, H
    <3>1. m = IF \E g \in G, h \in H : overlaps(g, h)
              THEN [ok        |-> FALSE,
                    content   |-> yours,
                    conflicts |-> MergeConflicts(diffLines(one, mine), diffLines(one, yours))]
              ELSE Clean(joinLines(ApplyHunks(one, G \cup H)))
      BY <1>5 DEF merge3, G, H
    <3>2. m.ok
      OBVIOUS
    <3> HIDE DEF m
    <3> QED BY <3>1, <3>2 DEF Clean
  <2>2. /\ Chain(diffLines(one, mine), 0, Len(one)) /\ Len(one) \in Nat
        /\ Chain(diffLines(one, yours), 0, Len(one)) /\ Rest(one, H, 0) = yours
    BY <1>1, DiffIsADiff, LenProperties
  <2>3. Apart(G, Len(one)) /\ Apart(H, Len(one))
    BY <2>2, OneDiff
  <2>4. \A g \in G : ToSet(g.inserted) \subseteq W
    BY DEF InsertedIn
  <2> HIDE DEF G, H, m
  <2>5. \A g \in G, h \in H : g.start # h.start
    <3>1. \A g \in G \cup H : g.start \in Nat /\ g.deleted \in Nat
      BY <2>3 DEF Apart, Hunk
    <3>2. \A g \in G \cup H : Larger(g.deleted, 1) \in Nat \ {0}
      BY <3>1 DEF Larger
    <3> QED BY <2>1, <3>1, <3>2 DEF overlaps
  <2>6. Mixed(one, G, H, W)
    BY <2>3, <2>4, <2>5 DEF Mixed
  <2>7. r \in Seq(Line) /\ ApplyHunks(one, G \cup H) = r
    <3> DEFINE U == G \cup H
    <3>1. U \in SUBSET Hunk
      BY <2>3 DEF Apart
    <3>2. Apart(U, Len(one))
      BY <2>1, <2>2, <2>3, TwoDiffs
    <3>3. 0 \in 0 .. Len(one)
      BY <2>2
    <3> HIDE DEF U
    <3>4. Rest(one, U, 0) \in Seq(Line)
      BY <1>1, <3>1, <3>3, RestFirst
    <3>5. ApplyHunks(one, U) = Rest(one, U, 0)
      BY <1>1, <3>2, ApplyIsRest
    <3> QED BY <3>4, <3>5 DEF U
  <2>8. InsertedIn(yours, r) \subseteq W
    <3>1. yours = Rest(one, H, 0) /\ r = Rest(one, G \cup H, 0)
      BY <2>2
    <3> HIDE DEF r
    <3> QED BY <1>1, <2>6, <2>7, <3>1, MergeHasEnough
  <2> HIDE DEF r
  <2>9. m.content = r \/ m.content = <<>>
    BY <2>1, <2>7 DEF joinLines
  <2>10. AddsOnly(yours, m.content, W)
    <3>1. CASE m.content = r
      BY <2>7, <2>8, <3>1 DEF AddsOnly
    <3>2. CASE m.content = <<>>
      <4>1. <<>> \in Seq(Line) /\ 1 .. Len(<<>>) = {}
        OBVIOUS
      <4> QED BY <3>2, <4>1 DEF AddsOnly
    <3> QED BY <2>9, <3>1, <3>2
  <2> QED BY <2>10 DEF m
<1> QED BY <1>2, <1>3, <1>4, <1>5

\* A single line is recommended to the agent its entry names.
LEMMA NamedIs ==
  ASSUME NEW X, NEW lines \in Seq(X), NEW i \in 1 .. Len(lines)
  PROVE  RecommendedAgent(lines, i, i) = lines[i].by.agent
<1> DEFINE a == lines[i].by.agent
           none == "none"
<1>1. CandidateAgents(lines, i, i) = {a} \ {none}
  <2>1. (i .. i) \cap DOMAIN lines = {i}
    <3>1. DOMAIN lines = 1 .. Len(lines) /\ Len(lines) \in Nat
      BY LenProperties
    <3> QED BY <3>1
  <2> QED BY <2>1 DEF CandidateAgents
<1> HIDE DEF a
<1>2. CASE a = none
  <2> DEFINE E == {a} \ {none}
  <2>1. E = {}
    BY <1>2
  <2> HIDE DEF E
  <2>2. Cardinality(E) = 0
    BY <2>1, FS_EmptySet
  <2>3. RecommendedAgent(lines, i, i) = none
    BY <1>1, <2>2 DEF RecommendedAgent, E
  <2> QED BY <1>2, <2>3 DEF a
<1>3. CASE a # none
  <2> DEFINE E == {a} \ {none}
  <2>1. E = {a}
    BY <1>3
  <2> HIDE DEF E
  <2>2. Cardinality(E) = 1
    BY <2>1, FS_Singleton
  <2>3. RecommendedAgent(lines, i, i) = CHOOSE e \in E : TRUE
    BY <1>1, <2>2 DEF RecommendedAgent, E
  <2> QED BY <2>1, <2>3 DEF a
<1> QED BY <1>2, <1>3

-----------------------------------------------------------------------------
(* Where two texts end alike, from a line on that neither has before, the  *)
(* walk of diffLines comes to that line in both: no hunk goes past it.     *)

EndAlike(a, b, s, t) ==
  /\ s \in 0 .. Len(a) /\ t \in 0 .. Len(b) /\ Len(a) - s = Len(b) - t
  /\ \A k \in 1 .. Len(a) - s : a[s + k] = b[t + k]

LEMMA AmongAll ==
  ASSUME NEW t \in Seq(Line), NEW W, NEW j \in 0 .. Len(t)
  PROVE  /\ (\A k \in 1 .. Len(t) : t[k] \in W) => Among(t, W, j) = Len(t) - j
         /\ (\A k \in 1 .. Len(t) : t[k] \notin W) => Among(t, W, j) = 0
<1> DEFINE n == Len(t)
           S == {k \in j + 1 .. n : t[k] \in W}
<1>1. n \in Nat
  BY LenProperties
<1> HIDE DEF n
<1>2. j \in 0 .. n
  BY DEF n
<1>3. \A k \in j + 1 .. n : k \in 1 .. n
  BY <1>1, <1>2
<1>4. ASSUME \A k \in 1 .. n : t[k] \in W PROVE Cardinality(S) = n - j
  <2>1. S = j + 1 .. n
    BY <1>3, <1>4
  <2>2. j + 1 \in Int /\ n \in Int
    BY <1>1, <1>2
  <2> DEFINE c == Cardinality(j + 1 .. n)
  <2>3. c = IF j + 1 > n THEN 0 ELSE n - (j + 1) + 1
    BY <2>2, FS_Interval
  <2> HIDE DEF c
  <2>4. c = n - j
    BY <1>1, <1>2, <2>3
  <2> QED BY <2>1, <2>4 DEF c
<1>5. ASSUME \A k \in 1 .. n : t[k] \notin W PROVE Cardinality(S) = 0
  <2>1. S = {}
    BY <1>3, <1>5
  <2> QED BY <2>1, FS_EmptySet
<1> QED BY <1>4, <1>5 DEF Among, n

LEMMA CommonAtMost ==
  ASSUME NEW a \in Seq(Line), NEW b \in Seq(Line), NEW i \in 0 .. Len(a), NEW j \in 0 .. Len(b)
  PROVE  /\ Common(a, b, i, j) <= Len(a) - i /\ Common(a, b, i, j) <= Len(b) - j
         /\ Common(a, b, i, j) >= Len(a) - i <=> Enough(a, b, Line, i, j)
<1> DEFINE none == {}
<1>1. (\A k \in 1 .. Len(a) : a[k] \in Line) /\ \A k \in 1 .. Len(b) : b[k] \in Line
  BY ElementOfSeq
<1>2. \A l : l \notin none
  OBVIOUS
<1>3. Line \ Line = none /\ Line \ none = Line
  OBVIOUS
<1> HIDE DEF none
<1>4. Len(a) \in Nat /\ Len(b) \in Nat
  BY LenProperties
<1>5. Among(a, Line, i) = Len(a) - i
  BY <1>1, AmongAll
<1>6. Among(b, none, j) = 0
  BY <1>2, AmongAll
<1>7. Among(a, none, i) = 0
  BY <1>2, AmongAll
<1>8. Among(b, Line, j) = Len(b) - j
  BY <1>1, AmongAll
<1>9. Most(a, b, Line, i, j) = Len(a) - i
  <2>1. Most(a, b, Line, i, j) = Among(a, Line, i) + Among(b, none, j)
    BY <1>3, Zenon DEF Most
  <2> QED BY <1>4, <1>5, <1>6, <2>1
<1>10. Most(a, b, none, i, j) = Len(b) - j
  <2>1. Most(a, b, none, i, j) = Among(a, none, i) + Among(b, Line, j)
    BY <1>3, Zenon DEF Most
  <2> QED BY <1>4, <1>7, <1>8, <2>1
<1>11. Common(a, b, i, j) <= Most(a, b, Line, i, j)
  BY NoMoreThanMost
<1>12. Common(a, b, i, j) <= Most(a, b, none, i, j)
  BY NoMoreThanMost
<1> QED BY <1>9, <1>10, <1>11, <1>12 DEF Enough

LEMMA CommonGrows ==
  ASSUME NEW a \in Seq(Line), NEW b \in Seq(Line), NEW s \in 0 .. Len(a), NEW t \in 0 .. Len(b)
  PROVE  \A i \in 0 .. s, j \in 0 .. t : Common(a, b, i, j) >= Common(a, b, s, t)
<1> DEFINE n == Len(a)
           m == Len(b)
           T(i, j) == Common(a, b, i, j)
           N == {k \in Nat : \A i \in 0 .. s, j \in 0 .. t :
                   (s - i) + (t - j) <= k => T(i, j) >= T(s, t)}
<1>1. n \in Nat /\ m \in Nat
  BY LenProperties
<1>2. \A i \in 0 .. n, j \in 0 .. m :
        /\ T(i, j) \in Nat
        /\ i < n => T(i + 1, j) <= T(i, j)
        /\ j < m => T(i, j + 1) <= T(i, j)
  BY CommonStep
<1> HIDE DEF n, m, T
<1>3. s \in 0 .. n /\ t \in 0 .. m
  BY DEF n, m
<1>4. 0 \in N
  <2> SUFFICES ASSUME NEW i \in 0 .. s, NEW j \in 0 .. t, (s - i) + (t - j) <= 0
               PROVE  T(i, j) >= T(s, t)
    OBVIOUS
  <2>1. i = s /\ j = t
    BY <1>1, <1>3
  <2>2. T(s, t) \in Nat
    BY <1>2, <1>3
  <2> QED BY <2>1, <2>2
<1>5. ASSUME NEW k \in Nat, k \in N PROVE k + 1 \in N
  <2> SUFFICES ASSUME NEW i \in 0 .. s, NEW j \in 0 .. t, (s - i) + (t - j) <= k + 1
               PROVE  T(i, j) >= T(s, t)
    OBVIOUS
  <2>0. i \in 0 .. n /\ j \in 0 .. m /\ T(s, t) \in Nat /\ T(i, j) \in Nat
    BY <1>1, <1>2, <1>3
  <2>1. CASE i = s /\ j = t
    BY <2>0, <2>1
  <2>2. CASE i < s
    <3>1. i + 1 \in 0 .. s /\ i + 1 \in 0 .. n /\ i < n /\ (s - (i + 1)) + (t - j) <= k
      BY <1>1, <1>3, <2>2
    <3>2. T(i + 1, j) >= T(s, t) /\ T(i + 1, j) <= T(i, j) /\ T(i + 1, j) \in Nat
      BY <1>2, <1>5, <2>0, <3>1
    <3> QED BY <2>0, <3>2
  <2>3. CASE j < t
    <3>1. j + 1 \in 0 .. t /\ j + 1 \in 0 .. m /\ j < m /\ (s - i) + (t - (j + 1)) <= k
      BY <1>1, <1>3, <2>3
    <3>2. T(i, j + 1) >= T(s, t) /\ T(i, j + 1) <= T(i, j) /\ T(i, j + 1) \in Nat
      BY <1>2, <1>5, <2>0, <3>1
    <3> QED BY <2>0, <3>2
  <2> QED BY <1>1, <1>3, <2>1, <2>2, <2>3
<1>6. s + t \in N /\ s + t \in Nat
  <2>1. s + t \in Nat
    BY <1>1, <1>3
  <2> HIDE DEF N
  <2> QED BY <1>4, <1>5, <2>1, Induction
<1>7. \A i \in 0 .. s, j \in 0 .. t : T(i, j) >= T(s, t)
  <2> SUFFICES ASSUME NEW i \in 0 .. s, NEW j \in 0 .. t PROVE T(i, j) >= T(s, t)
    OBVIOUS
  <2>1. (s - i) + (t - j) <= s + t
    BY <1>1, <1>3
  <2> QED BY <1>6, <2>1
<1> QED BY <1>7 DEF T

LEMMA CommonOfEnds ==
  ASSUME NEW a \in Seq(Line), NEW b \in Seq(Line), NEW s, NEW t, EndAlike(a, b, s, t)
  PROVE  \A i \in 0 .. s, j \in 0 .. t : Common(a, b, i, j) >= Len(a) - s
<1> DEFINE n == Len(a)
           m == Len(b)
           d == n - s
<1>1. n \in Nat /\ m \in Nat
  BY LenProperties
<1>2. s \in 0 .. n /\ t \in 0 .. m /\ n - s = m - t
  BY DEF EndAlike
<1>3. Enough(a, b, Line, n, m)
  <2>1. n \in 0 .. Len(a) /\ m \in 0 .. Len(b)
    BY <1>1
  <2>2. Common(a, b, n, m) \in Nat
    BY <2>1, CommonStep
  <2>3. Common(a, b, n, m) >= Len(a) - n <=> Enough(a, b, Line, n, m)
    BY <2>1, CommonAtMost
  <2>4. Len(a) - n = 0
    BY <1>1
  <2> QED BY <2>2, <2>3, <2>4
<1>4. Enough(a, b, Line, s, t)
  <2>1. /\ s \in Nat /\ t \in Nat /\ d \in Nat /\ s + d <= Len(a) /\ t + d <= Len(b)
        /\ s + d = n /\ t + d = m
    <3> HIDE DEF n, m
    <3>1. /\ s \in Nat /\ t \in Nat /\ d \in Nat /\ s + d = n /\ t + d = m
          /\ s + d <= n /\ t + d <= m
      BY <1>1, <1>2
    <3> QED BY <3>1 DEF n, m
  <2>2. \A k \in 1 .. d : a[s + k] = b[t + k]
    BY DEF EndAlike
  <2> HIDE DEF d, n, m
  <2>3. Enough(a, b, Line, s + d, t + d)
    BY <1>3, <2>1
  <2> QED BY <2>1, <2>2, <2>3, ManySame
<1>5. Common(a, b, s, t) >= Len(a) - s
  <2>1. s \in 0 .. Len(a) /\ t \in 0 .. Len(b)
    BY <1>2
  <2> QED BY <1>4, <2>1, CommonAtMost
<1> HIDE DEF n, m, d
<1>6. SUFFICES ASSUME NEW i \in 0 .. s, NEW j \in 0 .. t
               PROVE  Common(a, b, i, j) >= Len(a) - s
  OBVIOUS
<1>7. s \in 0 .. Len(a) /\ t \in 0 .. Len(b)
  BY <1>2 DEF n, m
<1>8. Common(a, b, i, j) >= Common(a, b, s, t)
  BY <1>7, CommonGrows
<1>9. i \in 0 .. Len(a) /\ j \in 0 .. Len(b) /\ Len(a) \in Nat /\ Len(b) \in Nat
  <2>1. Len(a) \in Nat /\ Len(b) \in Nat
    BY LenProperties
  <2> QED BY <1>7, <2>1
<1>10. Common(a, b, i, j) \in Nat
  BY <1>9, CommonStep
<1>11. Common(a, b, s, t) \in Nat
  BY <1>7, CommonStep
<1>12. Len(a) - s \in Int
  BY <1>7, <1>9
<1> QED BY ONLY <1>5, <1>8, <1>10, <1>11, <1>12

LEMMA PushInto ==
  ASSUME NEW Q \in SUBSET Hunk, NEW h \in Q, NEW hunks \in Seq(Q),
         \A g \in Q : g.start = h.start + h.deleted =>
           [start    |-> h.start, deleted |-> h.deleted + g.deleted,
            inserted |-> h.inserted \o g.inserted] \in Q
  PROVE  Push(h, hunks) \in Seq(Q)
<1> DEFINE g == Head(hunks)
           gm == [start    |-> h.start, deleted |-> h.deleted + g.deleted,
                  inserted |-> h.inserted \o g.inserted]
<1>1. ASSUME NEW x \in Q, NEW s \in Seq(Q) PROVE << x >> \o s \in Seq(Q)
  <2> DEFINE one == << x >>
  <2>1. one \in Seq(Q)
    OBVIOUS
  <2> HIDE DEF one
  <2>2. one \o s \in Seq(Q)
    BY <2>1, ConcatProperties
  <2> QED BY <2>2 DEF one
<1>2. CASE hunks # <<>> /\ g.start = h.start + h.deleted
  <2>1. g \in Q /\ Tail(hunks) \in Seq(Q)
    BY <1>2, HeadTailProperties
  <2>2. gm \in Q
    BY <1>2, <2>1
  <2>3. Push(h, hunks) = << gm >> \o Tail(hunks)
    BY <1>2 DEF Push
  <2> HIDE DEF gm
  <2> QED BY <1>1, <2>1, <2>2, <2>3
<1>3. CASE ~(hunks # <<>> /\ g.start = h.start + h.deleted)
  <2>1. Push(h, hunks) = << h >> \o hunks
    BY <1>3 DEF Push
  <2> QED BY <1>1, <2>1
<1> QED BY <1>2, <1>3

LEMMA DiffBefore ==
  ASSUME NEW a \in Seq(Line), NEW b \in Seq(Line), NEW s, NEW t, EndAlike(a, b, s, t),
         s < Len(a), \A k \in 1 .. s : a[k] # a[s + 1], \A k \in 1 .. t : b[k] # a[s + 1]
  PROVE  \A h \in ToSet(diffLines(a, b)) : h.start + h.deleted <= s
<1> DEFINE n == Len(a)
           m == Len(b)
           T(i, j) == Common(a, b, i, j)
           Q == {h \in Hunk : h.start + h.deleted <= s}
<1>1. /\ n \in Nat /\ m \in Nat /\ s \in 0 .. n /\ t \in 0 .. m /\ n - s = m - t /\ s < n /\ t < m
      /\ s \in Nat /\ t \in Nat
  <2>1. n \in Nat /\ m \in Nat
    BY LenProperties
  <2>2. s \in 0 .. n /\ t \in 0 .. m /\ n - s = m - t /\ s < n
    BY DEF EndAlike
  <2> HIDE DEF n, m
  <2> QED BY <2>1, <2>2
<1>2. PICK f : IsDiff(a, b, f) /\ diffLines(a, b) = f[<< 0, 0 >>]
  BY DiffLinesIs
<1>3. \A i \in 0 .. n, j \in 0 .. m : OneOf(a, b, f, i, j, f[<< i, j >>])
  <2> SUFFICES ASSUME NEW i \in 0 .. n, NEW j \in 0 .. m
               PROVE  OneOf(a, b, f, i, j, f[<< i, j >>])
    OBVIOUS
  <2>1. << i, j >> \in Grid(a, b) /\ << i, j >>[1] = i /\ << i, j >>[2] = j
    BY DEF Grid
  <2>2. f[<< i, j >>] = Hunks(a, b, f, i, j)
    BY <1>2, <2>1 DEF IsDiff
  <2>3. OneOf(a, b, f, i, j, Hunks(a, b, f, i, j))
    BY HunksAre
  <2> QED BY <2>2, <2>3
<1>4. \A k \in 1 .. n - s : a[s + k] = b[t + k]
  BY DEF EndAlike
<1>5. \A i \in 0 .. s, j \in 0 .. t : T(i, j) >= n - s
  BY CommonOfEnds
<1>6. \A i \in 0 .. n, j \in 0 .. m : T(i, j) \in Nat /\ T(i, j) <= n - i /\ T(i, j) <= m - j
  <2> SUFFICES ASSUME NEW i \in 0 .. n, NEW j \in 0 .. m
               PROVE  T(i, j) \in Nat /\ T(i, j) <= n - i /\ T(i, j) <= m - j
    OBVIOUS
  <2>1. T(i, j) \in Nat
    BY CommonStep
  <2>2. T(i, j) <= n - i /\ T(i, j) <= m - j
    BY CommonAtMost
  <2> QED BY <2>1, <2>2
<1> DEFINE same(i, j) == i < n /\ j < m /\ a[i + 1] = b[j + 1]
           drops(i, j) == i < n /\ ~same(i, j) /\ (j < m => T(i + 1, j) >= T(i, j + 1))
<1>7. \A i \in 0 .. n, j \in 0 .. m :
        \/ i = n /\ j = m /\ f[<< i, j >>] = <<>>
        \/ same(i, j) /\ f[<< i, j >>] = f[<< i + 1, j + 1 >>]
        \/ /\ drops(i, j)
           /\ f[<< i, j >>] = Push([start |-> i, deleted |-> 1, inserted |-> <<>>], f[<< i + 1, j >>])
        \/ /\ ~(i = n /\ j = m) /\ ~same(i, j) /\ ~drops(i, j) /\ j < m
           /\ f[<< i, j >>] = Push([start |-> i, deleted |-> 0, inserted |-> << b[j + 1] >>],
                                   f[<< i, j + 1 >>])
  <2> SUFFICES ASSUME NEW i \in 0 .. n, NEW j \in 0 .. m
               PROVE  \/ i = n /\ j = m /\ f[<< i, j >>] = <<>>
                      \/ same(i, j) /\ f[<< i, j >>] = f[<< i + 1, j + 1 >>]
                      \/ /\ drops(i, j)
                         /\ f[<< i, j >>] = Push([start |-> i, deleted |-> 1, inserted |-> <<>>],
                                                 f[<< i + 1, j >>])
                      \/ /\ ~(i = n /\ j = m) /\ ~same(i, j) /\ ~drops(i, j) /\ j < m
                         /\ f[<< i, j >>] = Push([start |-> i, deleted |-> 0,
                                                  inserted |-> << b[j + 1] >>], f[<< i, j + 1 >>])
    OBVIOUS
  <2> DEFINE h == f[<< i, j >>]
             u == f[<< i + 1, j + 1 >>]
             v == Push([start |-> i, deleted |-> 1, inserted |-> <<>>], f[<< i + 1, j >>])
             w == Push([start |-> i, deleted |-> 0, inserted |-> << b[j + 1] >>], f[<< i, j + 1 >>])
             S == SameLine(a, b, i, j)
             D == Drops(a, b, i, j)
  <2>1. \/ i = n /\ j = m /\ h = <<>>
        \/ S /\ h = u
        \/ D /\ h = v
        \/ ~(i = n /\ j = m) /\ ~S /\ ~D /\ j < m /\ h = w
    BY <1>3 DEF OneOf
  <2>2. (S <=> same(i, j)) /\ (D <=> drops(i, j))
    BY DEF SameLine, Drops, Common
  <2> HIDE DEF S, D, same, drops, h, u, v, w
  <2>3. \/ i = n /\ j = m /\ h = <<>>
        \/ same(i, j) /\ h = u
        \/ drops(i, j) /\ h = v
        \/ ~(i = n /\ j = m) /\ ~same(i, j) /\ ~drops(i, j) /\ j < m /\ h = w
    BY <2>1, <2>2
  <2> QED BY <2>3 DEF h, u, v, w
<1> HIDE DEF n, m, T
<1>8. f[<< s, t >>] = <<>>
  <2> DEFINE N == {d \in Nat : d <= n - s => f[<< n - d, m - d >>] = <<>>}
  <2>1. 0 \in N
    <3>1. n - 0 = n /\ m - 0 = m /\ n \in 0 .. n /\ m \in 0 .. m /\ ~(n < n) /\ ~(m < m)
      BY <1>1
    <3>2. f[<< n, m >>] = <<>>
      BY <1>7, <3>1
    <3> QED BY <3>1, <3>2
  <2>2. ASSUME NEW d \in Nat, d \in N PROVE d + 1 \in N
    <3> SUFFICES ASSUME d + 1 <= n - s PROVE f[<< n - (d + 1), m - (d + 1) >>] = <<>>
      OBVIOUS
    <3> DEFINE i == n - (d + 1)
               j == m - (d + 1)
    <3>1. /\ i \in 0 .. n /\ j \in 0 .. m /\ i < n /\ j < m /\ i + 1 = n - d /\ j + 1 = m - d
          /\ d <= n - s
      BY <1>1
    <3>2. a[i + 1] = b[j + 1]
      <4> DEFINE k == i + 1 - s
      <4>1. k \in 1 .. n - s /\ s + k = i + 1 /\ t + k = j + 1
        BY <1>1
      <4> HIDE DEF k, i, j
      <4> QED BY <1>4, <4>1
    <3> HIDE DEF i, j
    <3>3. same(i, j)
      BY <3>1, <3>2
    <3>4. ~(i = n) /\ ~drops(i, j)
      BY <1>1, <3>1, <3>3
    <3> HIDE DEF same, drops
    <3>5. f[<< i, j >>] = f[<< i + 1, j + 1 >>]
      BY <1>7, <3>1, <3>3, <3>4
    <3>6. f[<< n - d, m - d >>] = <<>>
      BY <2>2, <3>1
    <3> QED BY <3>1, <3>5, <3>6 DEF i, j
  <2>3. n - s \in N /\ n - s \in Nat /\ n - (n - s) = s /\ m - (n - s) = t
    <3>1. n - s \in Nat /\ n - (n - s) = s /\ m - (n - s) = t
      BY <1>1
    <3> HIDE DEF N
    <3> QED BY <2>1, <2>2, <3>1, Induction
  <2>4. n - s <= n - s
    BY <1>1
  <2> QED BY <2>3, <2>4
<1> DEFINE N == {k \in Nat : \A i \in 0 .. s, j \in 0 .. t :
                   (s - i) + (t - j) < k => f[<< i, j >>] \in Seq(Q)}
<1>9. 0 \in N
  BY <1>1
<1>10. ASSUME NEW k \in Nat, k \in N PROVE k + 1 \in N
  <2> SUFFICES ASSUME NEW i \in 0 .. s, NEW j \in 0 .. t, (s - i) + (t - j) < k + 1
               PROVE  f[<< i, j >>] \in Seq(Q)
    <3> HIDE DEF Q
    <3> QED OBVIOUS
  <2>1. \A p \in 0 .. s, q \in 0 .. t : (s - p) + (t - q) < k => f[<< p, q >>] \in Seq(Q)
    BY <1>10
  <2>2. i \in 0 .. n /\ j \in 0 .. m /\ i \in Nat /\ j \in Nat /\ i < n /\ i <= s /\ j <= t
    BY <1>1
  <2> HIDE DEF N
  <2>3. CASE i = s /\ j = t
    <3>1. f[<< i, j >>] = <<>>
      BY <1>8, <2>3
    <3> HIDE DEF Q
    <3>2. <<>> \in Seq(Q)
      OBVIOUS
    <3> QED BY <3>1, <3>2
  <2>4. CASE same(i, j) /\ f[<< i, j >>] = f[<< i + 1, j + 1 >>]
    <3>1. (i = s /\ j = t) \/ (i < s /\ j < t)
      <4>1. ASSUME i = s, j < t PROVE FALSE
        <5>1. j + 1 \in 1 .. t /\ b[j + 1] = a[s + 1]
          BY <1>1, <2>2, <2>4, <4>1
        <5> QED BY <5>1
      <4>2. ASSUME j = t, i < s PROVE FALSE
        <5>1. i + 1 \in 1 .. s /\ 1 \in 1 .. n - s
          BY <1>1, <2>2, <4>2
        <5>2. a[i + 1] = a[s + 1]
          BY <1>4, <2>4, <4>2, <5>1
        <5> QED BY <5>1, <5>2
      <4> QED BY <1>1, <2>2, <4>1, <4>2
    <3>2. CASE i < s /\ j < t
      <4>1. i + 1 \in 0 .. s /\ j + 1 \in 0 .. t /\ (s - (i + 1)) + (t - (j + 1)) < k
        BY <1>1, <2>2, <3>2
      <4> HIDE DEF Q, same
      <4> QED BY <2>1, <2>4, <4>1
    <3> HIDE DEF Q, same
    <3> QED BY <2>3, <3>1, <3>2
  <2>5. CASE /\ drops(i, j)
             /\ f[<< i, j >>] = Push([start |-> i, deleted |-> 1, inserted |-> <<>>], f[<< i + 1, j >>])
    <3>1. i < s \/ (i = s /\ j = t)
      <4>1. ASSUME i = s, j < t PROVE FALSE
        <5>1. T(s + 1, j) >= T(s, j + 1)
          BY <1>1, <2>2, <2>5, <4>1
        <5>2. s + 1 \in 0 .. n /\ j + 1 \in 0 .. t /\ s \in 0 .. s /\ j + 1 \in 0 .. m /\ s \in 0 .. n
          BY <1>1, <2>2, <4>1
        <5>3. T(s + 1, j) \in Nat /\ T(s + 1, j) <= n - (s + 1)
          BY <1>6, <2>2, <5>2
        <5>4. T(s, j + 1) \in Nat /\ T(s, j + 1) >= n - s
          BY <1>5, <1>6, <5>2
        <5> QED BY <1>1, <5>1, <5>3, <5>4
      <4> QED BY <1>1, <2>2, <4>1
    <3>2. CASE i < s
      <4> DEFINE h == [start |-> i, deleted |-> 1, inserted |-> <<>>]
      <4>1. i + 1 \in 0 .. s /\ (s - (i + 1)) + (t - j) < k
        BY <1>1, <2>2, <3>2
      <4>2. f[<< i + 1, j >>] \in Seq(Q)
        <5> HIDE DEF Q
        <5> QED BY <2>1, <4>1
      <4>3. h \in Q
        BY <1>1, <2>2, <3>2 DEF Hunk
      <4>4. ASSUME NEW g \in Q, g.start = h.start + h.deleted
            PROVE  [start    |-> h.start, deleted |-> h.deleted + g.deleted,
                    inserted |-> h.inserted \o g.inserted] \in Q
        <5>1. g.start \in Nat /\ g.deleted \in Nat /\ g.inserted \in Seq(Line)
          BY DEF Hunk
        <5>2. <<>> \o g.inserted \in Seq(Line)
          <6> DEFINE e == <<>>
          <6>1. e \in Seq(Line)
            OBVIOUS
          <6> HIDE DEF e
          <6>2. e \o g.inserted \in Seq(Line)
            BY <5>1, <6>1, ConcatProperties
          <6> QED BY <6>2 DEF e
        <5> DEFINE x == <<>> \o g.inserted
        <5> HIDE DEF x
        <5>3. [start |-> i, deleted |-> 1 + g.deleted, inserted |-> x] \in Q
          BY <1>1, <2>2, <4>4, <5>1, <5>2 DEF Hunk, x
        <5> QED BY <5>3 DEF x
      <4> HIDE DEF h
      <4>5. Q \in SUBSET Hunk
        OBVIOUS
      <4> HIDE DEF Q
      <4>6. Push(h, f[<< i + 1, j >>]) \in Seq(Q)
        BY <4>2, <4>3, <4>4, <4>5, PushInto
      <4> QED BY <2>5, <4>6 DEF h
    <3> HIDE DEF Q
    <3> QED BY <2>3, <3>1, <3>2
  <2>6. CASE /\ ~same(i, j) /\ ~drops(i, j) /\ j < m
             /\ f[<< i, j >>] = Push([start |-> i, deleted |-> 0, inserted |-> << b[j + 1] >>],
                                     f[<< i, j + 1 >>])
    <3>1. j < t \/ (i = s /\ j = t)
      <4>1. ASSUME j = t, i < s PROVE FALSE
        <5>1. ~(T(i + 1, t) >= T(i, t + 1))
          BY <2>2, <2>6, <4>1
        <5>2. i + 1 \in 0 .. s /\ t + 1 \in 0 .. m /\ t \in 0 .. t /\ i + 1 \in 0 .. n /\ t \in 0 .. m
          BY <1>1, <2>2, <4>1
        <5>3. T(i, t + 1) \in Nat /\ T(i, t + 1) <= m - (t + 1)
          BY <1>6, <2>2, <5>2
        <5>4. T(i + 1, t) \in Nat /\ T(i + 1, t) >= n - s
          BY <1>5, <1>6, <5>2
        <5> QED BY <1>1, <5>1, <5>3, <5>4
      <4> QED BY <1>1, <2>2, <4>1
    <3>2. CASE j < t
      <4> DEFINE x == << b[j + 1] >>
                 h == [start |-> i, deleted |-> 0, inserted |-> x]
      <4>1. j + 1 \in 0 .. t /\ (s - i) + (t - (j + 1)) < k /\ j + 1 \in 1 .. m
        BY <1>1, <2>2, <3>2
      <4>2. f[<< i, j + 1 >>] \in Seq(Q)
        <5> HIDE DEF Q
        <5> QED BY <2>1, <4>1
      <4>3. x \in Seq(Line)
        <5>1. b[j + 1] \in Line
          BY <4>1, ElementOfSeq DEF m
        <5> QED BY <5>1
      <4> HIDE DEF x
      <4>4. h \in Q
        BY <1>1, <2>2, <4>3 DEF Hunk
      <4>5. ASSUME NEW g \in Q, g.start = h.start + h.deleted
            PROVE  [start    |-> h.start, deleted |-> h.deleted + g.deleted,
                    inserted |-> h.inserted \o g.inserted] \in Q
        <5>1. g.start \in Nat /\ g.deleted \in Nat /\ g.inserted \in Seq(Line)
          BY DEF Hunk
        <5> DEFINE y == x \o g.inserted
        <5>2. y \in Seq(Line)
          BY <4>3, <5>1, ConcatProperties
        <5> HIDE DEF y
        <5>3. [start |-> i, deleted |-> 0 + g.deleted, inserted |-> y] \in Q
          BY <1>1, <2>2, <4>5, <5>1, <5>2 DEF Hunk
        <5> QED BY <5>3 DEF y
      <4> HIDE DEF h
      <4>6. Q \in SUBSET Hunk
        OBVIOUS
      <4> HIDE DEF Q
      <4>7. Push(h, f[<< i, j + 1 >>]) \in Seq(Q)
        BY <4>2, <4>4, <4>5, <4>6, PushInto
      <4> QED BY <2>6, <4>7 DEF h, x
    <3> HIDE DEF Q
    <3> QED BY <2>3, <3>1, <3>2
  <2>7. ~(i = n)
    BY <1>1, <2>2
  <2> HIDE DEF Q, same, drops
  <2> QED BY <1>7, <2>2, <2>4, <2>5, <2>6, <2>7
<1>11. f[<< 0, 0 >>] \in Seq(Q)
  <2>1. s + t + 1 \in Nat /\ 0 \in 0 .. s /\ 0 \in 0 .. t /\ (s - 0) + (t - 0) < s + t + 1
    BY <1>1
  <2>2. s + t + 1 \in N
    <3> HIDE DEF N
    <3> QED BY <1>9, <1>10, <2>1, Induction
  <2> HIDE DEF Q
  <2> QED BY <2>1, <2>2
<1>12. \A h \in ToSet(f[<< 0, 0 >>]) : h \in Q
  <2> HIDE DEF Q
  <2> QED BY <1>11, ElementOfSeq, LenProperties DEF ToSet
<1> QED BY <1>2, <1>12

-----------------------------------------------------------------------------
(* Two sections: the headings A and B, in this order, are a text's only    *)
(* headings.                                                               *)

LEMMA LeastIs ==
  ASSUME NEW S \in SUBSET Int, NEW e \in S, \A y \in S : e <= y
  PROVE  Min(S) = e
<1>1. \A x, y \in S : x <= y /\ y <= x => x = y
  OBVIOUS
<1>2. Min(S) \in S /\ \A y \in S : Min(S) <= y
  BY DEF Min
<1> QED BY <1>1, <1>2

\* A section goes from its heading to the line before the next heading of its level.
LEMMA SectionAt ==
  ASSUME NEW t \in Seq(Line), NEW heading \in Line, NEW i \in 1 .. Len(t), t[i] = heading,
         \A k \in 1 .. Len(t) : k < i => t[k] # heading,
         NEW e \in i .. Len(t), \A k \in i + 1 .. e : Level[t[k]] = 0,
         e = Len(t) \/ (Level[t[e + 1]] > 0 /\ Level[t[e + 1]] <= Level[heading])
  PROVE  locateSection(t, heading) = [startLine |-> i, endLine |-> e]
<1> DEFINE n == Len(t)
           at == {k \in DOMAIN t : t[k] = heading}
           closes(k) == Level[t[k]] > 0 /\ (Level[heading] = 0 \/ Level[t[k]] <= Level[heading])
           C == {k \in DOMAIN t : k > Min(at) /\ closes(k)}
           ends == {k - 1 : k \in C}
           E == ends \cup {n}
<1>1. n \in Nat /\ DOMAIN t = 1 .. n /\ i \in Nat /\ e \in Nat /\ i <= e /\ e <= n /\ 1 <= i
  BY LenProperties
<1>0. /\ e = n \/ (Level[t[e + 1]] > 0 /\ Level[t[e + 1]] <= Level[heading])
      /\ i \in 1 .. n /\ \A k \in 1 .. n : k < i => t[k] # heading
  OBVIOUS
<1>2. Min(at) = i
  <2> HIDE DEF n
  <2>1. at \in SUBSET Int /\ i \in at /\ \A y \in at : i <= y
    <3>1. \A y \in 1 .. n : t[y] = heading => i <= y
      BY <1>0, <1>1
    <3> QED BY <1>0, <1>1, <3>1
  <2> HIDE DEF at
  <2> QED BY <2>1, LeastIs
<1>5. locateSection(t, heading)
        = IF at = {} THEN NoRange ELSE [startLine |-> Min(at), endLine |-> Min(E)]
  BY DEF locateSection
<1> HIDE DEF n
<1>3. Min(E) = e
  <2>1. \A k \in C : k \in 1 .. n /\ k > i /\ Level[t[k]] > 0
    BY <1>1, <1>2
  <2>2. \A k \in C : k > e
    <3> SUFFICES ASSUME NEW k \in C PROVE k > e
      OBVIOUS
    <3>1. k \in i + 1 .. e \/ k > e
      <4>1. k \in Nat /\ k > i
        BY <1>1, <2>1
      <4> HIDE DEF C
      <4> QED BY <1>1, <4>1
    <3>2. k \in i + 1 .. e => Level[t[k]] = 0 /\ Level[t[k]] > 0
      BY <2>1
    <3> QED BY <3>1, <3>2
  <2>3. e = n \/ e + 1 \in C
    <3>1. CASE e # n
      <4>1. e + 1 \in 1 .. n /\ e + 1 > i
        BY <1>1, <3>1
      <4>2. closes(e + 1)
        BY <1>0, <3>1
      <4> QED BY <1>1, <1>2, <4>1, <4>2
    <3> QED BY <3>1
  <2> HIDE DEF C
  <2>4. E \in SUBSET Int
    <3>1. \A k \in C : k - 1 \in Int
      BY <1>1, <2>1
    <3> QED BY <1>1, <3>1
  <2>5. e \in E
    <3>1. CASE e = n
      BY <3>1
    <3>2. CASE e + 1 \in C
      <4>1. e = (e + 1) - 1
        BY <1>1
      <4> QED BY <3>2, <4>1
    <3> QED BY <2>3, <3>1, <3>2
  <2>6. \A y \in E : e <= y
    <3>1. \A k \in C : e <= k - 1
      BY <1>1, <2>1, <2>2
    <3> QED BY <1>1, <3>1
  <2> HIDE DEF E
  <2> QED BY <2>4, <2>5, <2>6, LeastIs
<1>4. at # {}
  BY <1>1
<1> HIDE DEF at, E
<1> QED BY <1>2, <1>3, <1>4, <1>5

TwoSections(t, i, j) ==
  /\ i \in 1 .. Len(t) /\ j \in 1 .. Len(t) /\ i < j /\ t[i] = A /\ t[j] = B
  /\ \A k \in 1 .. Len(t) : k # i /\ k # j => Level[t[k]] = 0

LEMMA SectionsFound ==
  ASSUME NEW t \in Seq(Line), NEW i, NEW j, TwoSections(t, i, j)
  PROVE  /\ locateSection(t, A) = [startLine |-> i, endLine |-> j - 1]
         /\ locateSection(t, B) = [startLine |-> j, endLine |-> Len(t)]
         /\ \A k \in 1 .. Len(t) : (t[k] = A => k = i) /\ (t[k] = B => k = j)
<1>1. Len(t) \in Nat
  BY LenProperties
<1>2. A \in Line /\ B \in Line /\ A # B /\ Level[A] > 0 /\ Level[B] = Level[A] /\ Level[A] \in 0 .. 6
  BY MergeAssumption, LevelAssumption
<1>3. \A k \in 1 .. Len(t) : (t[k] = A => k = i) /\ (t[k] = B => k = j)
  BY <1>2 DEF TwoSections
<1>4. locateSection(t, A) = [startLine |-> i, endLine |-> j - 1]
  <2> DEFINE e == j - 1
  <2>1. /\ i \in 1 .. Len(t) /\ e \in i .. Len(t) /\ e + 1 = j /\ t[i] = A /\ t[j] = B
        /\ j \in 1 .. Len(t)
    BY <1>1 DEF TwoSections
  <2>2. \A k \in 1 .. Len(t) : k < i => t[k] # A
    BY <1>1, <1>3, <2>1
  <2>3. \A k \in i + 1 .. e : Level[t[k]] = 0
    BY <1>1, <2>1 DEF TwoSections
  <2>4. Level[t[e + 1]] > 0 /\ Level[t[e + 1]] <= Level[A]
    BY <1>2, <2>1
  <2> HIDE DEF e
  <2>5. locateSection(t, A) = [startLine |-> i, endLine |-> e]
    BY <1>2, <2>1, <2>2, <2>3, <2>4, SectionAt
  <2> QED BY <2>5 DEF e
<1>5. locateSection(t, B) = [startLine |-> j, endLine |-> Len(t)]
  <2> DEFINE e == Len(t)
  <2>1. j \in 1 .. Len(t) /\ e \in j .. Len(t) /\ t[j] = B /\ e = Len(t) /\ i < j /\ i \in Nat
    BY <1>1 DEF TwoSections
  <2>2. \A k \in 1 .. Len(t) : k < j => t[k] # B
    BY <1>1, <1>3, <2>1
  <2>3. \A k \in j + 1 .. e : Level[t[k]] = 0
    BY <1>1, <2>1 DEF TwoSections
  <2> HIDE DEF e
  <2>5. locateSection(t, B) = [startLine |-> j, endLine |-> e]
    BY <1>2, <2>1, <2>2, <2>3, SectionAt
  <2> QED BY <2>5 DEF e
<1> QED BY <1>3, <1>4, <1>5

-----------------------------------------------------------------------------
(* Edits on either side of a line: what they make of the base, alone and   *)
(* together, has the same two halves.                                      *)

LEMMA FrontSame ==
  ASSUME NEW one \in Seq(Line), NEW G \in SUBSET Hunk, NEW H \in SUBSET Hunk, NEW k \in 0 .. Len(one),
         \A p \in 0 .. k : p < k => Slot(one, G, p) = Slot(one, H, p)
  PROVE  \E x \in Seq(Line) :
           /\ Rest(one, G, 0) = x \o Rest(one, G, k) /\ Rest(one, H, 0) = x \o Rest(one, H, k)
           /\ (\A p \in 0 .. k : p < k => Len(Slot(one, H, p)) = 1) => Len(x) = k
<1> DEFINE n == Len(one)
           ones == \A p \in 0 .. k : p < k => Len(Slot(one, H, p)) = 1
           F(q, x) == /\ Rest(one, G, 0) = x \o Rest(one, G, q)
                      /\ Rest(one, H, 0) = x \o Rest(one, H, q)
                      /\ ones => Len(x) = q
           N == {q \in Nat : q <= k => \E x \in Seq(Line) : F(q, x)}
<1>1. n \in Nat /\ k \in Nat /\ k <= n
  BY LenProperties
<1>2. \A p \in 0 .. n : /\ Rest(one, G, p) = Slot(one, G, p) \o Rest(one, G, p + 1)
                        /\ Rest(one, G, p) \in Seq(Line) /\ Rest(one, G, p + 1) \in Seq(Line)
  BY RestFirst
<1>3. \A p \in 0 .. n : /\ Rest(one, H, p) = Slot(one, H, p) \o Rest(one, H, p + 1)
                        /\ Rest(one, H, p) \in Seq(Line) /\ Rest(one, H, p + 1) \in Seq(Line)
  BY RestFirst
<1>4. 0 \in N
  <2> DEFINE e == <<>>
  <2>1. e \in Seq(Line) /\ Len(e) = 0
    OBVIOUS
  <2>2. 0 \in 0 .. n
    BY <1>1
  <2>3. Rest(one, G, 0) \in Seq(Line) /\ Rest(one, H, 0) \in Seq(Line)
    BY <1>2, <1>3, <2>2
  <2>4. e \o Rest(one, G, 0) = Rest(one, G, 0)
    BY <2>3, ConcatEmptySeq
  <2>5. e \o Rest(one, H, 0) = Rest(one, H, 0)
    BY <2>3, ConcatEmptySeq
  <2> HIDE DEF e, ones
  <2>6. F(0, e)
    BY <2>1, <2>4, <2>5
  <2> HIDE DEF F
  <2> QED BY <2>1, <2>6
<1>5. ASSUME NEW q \in Nat, q \in N PROVE q + 1 \in N
  <2> SUFFICES ASSUME q + 1 <= k PROVE \E x \in Seq(Line) : F(q + 1, x)
    <3> HIDE DEF F
    <3> QED OBVIOUS
  <2>1. q \in 0 .. n /\ q \in 0 .. k /\ q < k /\ q <= k
    BY <1>1
  <2>2. PICK x \in Seq(Line) : F(q, x)
    <3> HIDE DEF F
    <3> QED BY <1>5, <2>1
  <2> DEFINE s == Slot(one, H, q)
             g == Rest(one, G, q + 1)
             h == Rest(one, H, q + 1)
             y == x \o s
  <2>3. s \in Seq(Line)
    <3>1. q \in Nat
      OBVIOUS
    <3> QED BY <3>1, SlotAt
  <2>4. Rest(one, G, q) = s \o g /\ g \in Seq(Line)
    BY <1>2, <2>1
  <2>5. Rest(one, H, q) = s \o h /\ h \in Seq(Line)
    BY <1>3, <2>1
  <2>6. y \in Seq(Line) /\ Len(y) = Len(x) + Len(s)
    BY <2>3, ConcatProperties
  <2>7. ones => Len(y) = q + 1
    BY <2>1, <2>2, <2>6
  <2>8. Rest(one, G, 0) = x \o (s \o g) /\ Rest(one, H, 0) = x \o (s \o h)
    BY <2>2, <2>4, <2>5
  <2> HIDE DEF s, g, h, ones
  <2>9. x \o (s \o g) = (x \o s) \o g
    BY <2>3, <2>4, Glue, ZenonT(30)
  <2>10. x \o (s \o h) = (x \o s) \o h
    BY <2>3, <2>5, Glue, ZenonT(30)
  <2>11. Rest(one, G, 0) = y \o g /\ Rest(one, H, 0) = y \o h
    BY <2>8, <2>9, <2>10
  <2> HIDE DEF y
  <2>12. F(q + 1, y)
    BY <2>7, <2>11 DEF g, h
  <2> HIDE DEF F
  <2> QED BY <2>6, <2>12
<1>6. k \in N
  <2> HIDE DEF N
  <2> QED BY <1>1, <1>4, <1>5, Induction
<1>7. \E x \in Seq(Line) : F(k, x)
  <2> HIDE DEF F
  <2> QED BY <1>1, <1>6
<1> QED BY <1>7

\* Hunks G before the line k + 1 and H from it on, not both before that line.
Parted(one, G, H, k) ==
  /\ k \in 0 .. Len(one) /\ G \in SUBSET Hunk /\ H \in SUBSET Hunk
  /\ \A g \in G : g.start + g.deleted <= k
  /\ \A h \in H : k <= h.start
  /\ \A g \in G, h \in H : g.start # h.start

PartedAt(one, G, H, k, p) ==
  /\ p < k => Slot(one, G \cup H, p) = Slot(one, G, p) /\ Slot(one, H, p) = Slot(one, {}, p)
  /\ p > k => Slot(one, G \cup H, p) = Slot(one, H, p) /\ Slot(one, G, p) = Slot(one, {}, p)
  /\ p = k => /\ Kept(one, G \cup H, p) = Kept(one, H, p)
              /\ Kept(one, G, p) = Kept(one, {}, p)
              /\ \/ Ins(G \cup H, p) = Ins(G, p) /\ Ins(H, p) = <<>>
                 \/ Ins(G \cup H, p) = Ins(H, p) /\ Ins(G, p) = <<>>
              /\ Ins({}, p) = <<>>

LEMMA PartedSlots ==
  ASSUME NEW one \in Seq(Line), NEW G, NEW H, NEW k, Parted(one, G, H, k), NEW p \in Nat
  PROVE  PartedAt(one, G, H, k, p)
<1> DEFINE U == G \cup H
           none == {}
<1>1. /\ k \in Nat
      /\ \A g \in G : g.start \in Nat /\ g.deleted \in Nat /\ g.start + g.deleted <= k
      /\ \A h \in H : h.start \in Nat /\ h.deleted \in Nat /\ k <= h.start
  <2>1. Len(one) \in Nat
    BY LenProperties
  <2> QED BY <2>1 DEF Parted, Hunk
<1>2. \A g \in none : FALSE
  OBVIOUS
<1> DEFINE At(S) == {h \in S : h.start = p}
<1>3. /\ p < k => At(U) = At(G) /\ At(H) = none
      /\ p > k => At(U) = At(H) /\ At(G) = none
      /\ At(none) = none
      /\ (At(U) = At(G) /\ At(H) = none) \/ (At(U) = At(H) /\ At(G) = none)
  <2>1. p < k => At(H) = none
    BY <1>1
  <2>2. p > k => At(G) = none
    <3> SUFFICES ASSUME p > k, NEW g \in G, g.start = p PROVE FALSE
      OBVIOUS
    <3> QED BY <1>1
  <2>3. At(H) = none \/ At(G) = none
    BY DEF Parted
  <2>4. At(U) = At(G) \cup At(H)
    OBVIOUS
  <2> HIDE DEF At
  <2>5. At(none) = none
    BY DEF At
  <2> HIDE DEF none
  <2>6. At(G) \cup none = At(G) /\ none \cup At(H) = At(H)
    BY DEF none
  <2> QED BY <1>1, <2>1, <2>2, <2>3, <2>4, <2>5, <2>6
<1>4. /\ p < k => (Gone(U, p) <=> Gone(G, p)) /\ ~Gone(H, p)
      /\ p >= k => (Gone(U, p) <=> Gone(H, p)) /\ ~Gone(G, p)
      /\ ~Gone(none, p)
  <2>1. Gone(U, p) <=> Gone(G, p) \/ Gone(H, p)
    BY DEF Gone
  <2>2. p < k => ~Gone(H, p)
    <3> SUFFICES ASSUME p < k, NEW h \in H, h.start <= p PROVE FALSE
      BY DEF Gone
    <3> QED BY <1>1
  <2>3. p >= k => ~Gone(G, p)
    <3> SUFFICES ASSUME p >= k, NEW g \in G, p < g.start + g.deleted PROVE FALSE
      BY DEF Gone
    <3> QED BY <1>1
  <2>4. ~Gone(none, p)
    BY DEF Gone
  <2> QED BY <2>1, <2>2, <2>3, <2>4
<1> HIDE DEF U, none
<1>5. \A S, T : At(S) = At(T) => Ins(S, p) = Ins(T, p)
  <2> DEFINE First(X) == IF X = {} THEN <<>> ELSE (CHOOSE h \in X : TRUE).inserted
  <2>1. \A S : Ins(S, p) = First(At(S))
    BY DEF Ins
  <2> HIDE DEF First, At
  <2> QED BY <2>1
<1>6. \A S : At(S) = none => Ins(S, p) = <<>>
  BY DEF Ins, none
<1>7. \A S, T : (Gone(S, p) <=> Gone(T, p)) => Kept(one, S, p) = Kept(one, T, p)
  BY DEF Kept
<1> HIDE DEF At
<1>8. ASSUME p < k
      PROVE  Slot(one, U, p) = Slot(one, G, p) /\ Slot(one, H, p) = Slot(one, none, p)
  <2>1. Ins(U, p) = Ins(G, p) /\ Ins(H, p) = Ins(none, p)
    BY <1>3, <1>5, <1>8
  <2>2. Kept(one, U, p) = Kept(one, G, p) /\ Kept(one, H, p) = Kept(one, none, p)
    BY <1>4, <1>7, <1>8
  <2> QED BY <2>1, <2>2 DEF Slot
<1>9. ASSUME p > k
      PROVE  Slot(one, U, p) = Slot(one, H, p) /\ Slot(one, G, p) = Slot(one, none, p)
  <2>1. Ins(U, p) = Ins(H, p) /\ Ins(G, p) = Ins(none, p)
    BY <1>3, <1>5, <1>9
  <2>2. p >= k
    BY <1>1, <1>9
  <2>3. Kept(one, U, p) = Kept(one, H, p) /\ Kept(one, G, p) = Kept(one, none, p)
    BY <1>4, <1>7, <2>2
  <2> QED BY <2>1, <2>3 DEF Slot
<1>10. ASSUME p = k
       PROVE  /\ Kept(one, U, p) = Kept(one, H, p) /\ Kept(one, G, p) = Kept(one, none, p)
              /\ \/ Ins(U, p) = Ins(G, p) /\ Ins(H, p) = <<>>
                 \/ Ins(U, p) = Ins(H, p) /\ Ins(G, p) = <<>>
              /\ Ins(none, p) = <<>>
  <2>1. p >= k
    BY <1>1, <1>10
  <2>2. Kept(one, U, p) = Kept(one, H, p) /\ Kept(one, G, p) = Kept(one, none, p)
    BY <1>4, <1>7, <2>1
  <2>3. Ins(none, p) = <<>>
    BY <1>3, <1>6
  <2>4. \/ Ins(U, p) = Ins(G, p) /\ Ins(H, p) = <<>>
        \/ Ins(U, p) = Ins(H, p) /\ Ins(G, p) = <<>>
    BY <1>3, <1>5, <1>6
  <2> QED BY <2>2, <2>3, <2>4
<1> QED BY <1>8, <1>9, <1>10 DEF PartedAt, U, none

\* L and R are the halves of the base, M and S what the two edits make of them.
HalvesOf(one, G, H, k) ==
  \E L, M, R, S \in Seq(Line) :
    /\ one = L \o R /\ Rest(one, G, 0) = M \o R
    /\ Rest(one, H, 0) = L \o S /\ Rest(one, G \cup H, 0) = M \o S
    /\ Len(L) = k

LEMMA TwoHalves ==
  ASSUME NEW one \in Seq(Line), NEW G, NEW H, NEW k, Parted(one, G, H, k)
  PROVE  HalvesOf(one, G, H, k)
<1> DEFINE U == G \cup H
           none == {}
           n == Len(one)
<1>1. /\ n \in Nat /\ k \in 0 .. n /\ k \in Nat /\ k <= n
      /\ G \in SUBSET Hunk /\ H \in SUBSET Hunk /\ U \in SUBSET Hunk /\ none \in SUBSET Hunk
  <2>1. n \in Nat
    BY LenProperties
  <2>2. k \in 0 .. n /\ G \in SUBSET Hunk /\ H \in SUBSET Hunk
    BY DEF Parted
  <2> HIDE DEF n
  <2> QED BY <2>1, <2>2
<1>2. \A p \in Nat :
        /\ p < k => Slot(one, U, p) = Slot(one, G, p) /\ Slot(one, H, p) = Slot(one, none, p)
        /\ p > k => Slot(one, U, p) = Slot(one, H, p) /\ Slot(one, G, p) = Slot(one, none, p)
        /\ p = k => /\ Kept(one, U, p) = Kept(one, H, p)
                    /\ Kept(one, G, p) = Kept(one, none, p)
                    /\ \/ Ins(U, p) = Ins(G, p) /\ Ins(H, p) = <<>>
                       \/ Ins(U, p) = Ins(H, p) /\ Ins(G, p) = <<>>
                    /\ Ins(none, p) = <<>>
  <2>1. \A p \in Nat : PartedAt(one, G, H, k, p)
    BY PartedSlots
  <2> QED BY <2>1 DEF PartedAt
<1>3. Rest(one, none, 0) = one
  <2>1. ToSet(diffLines(one, one)) = none
    BY NoDiff DEF ToSet
  <2> QED BY <2>1, DiffIsADiff
<1>4. \A p \in 0 .. k : p < k => Len(Slot(one, none, p)) = 1
  <2> SUFFICES ASSUME NEW p \in 0 .. k, p < k PROVE Len(Slot(one, none, p)) = 1
    OBVIOUS
  <2>1. p < n
    BY <1>1
  <2>2. Ins(none, p) = <<>> /\ ~Gone(none, p)
    BY DEF Ins, Gone
  <2> DEFINE x == << one[p + 1] >>
  <2>3. Kept(one, none, p) = x
    BY <2>1, <2>2 DEF Kept
  <2>4. x \in Seq(Line) /\ Len(x) = 1
    <3>1. p + 1 \in 1 .. n
      BY <1>1, <2>1
    <3>2. one[p + 1] \in Line
      BY <3>1, ElementOfSeq
    <3> QED BY <3>2
  <2> HIDE DEF x
  <2>5. <<>> \o x = x
    BY <2>4, ConcatEmptySeq
  <2> QED BY <2>2, <2>3, <2>4, <2>5 DEF Slot
<1> HIDE DEF U, none, n
<1>5. PICK M0 \in Seq(Line) :
        Rest(one, U, 0) = M0 \o Rest(one, U, k) /\ Rest(one, G, 0) = M0 \o Rest(one, G, k)
  <2>1. \A p \in 0 .. k : p < k => Slot(one, U, p) = Slot(one, G, p)
    BY <1>1, <1>2
  <2>2. k \in 0 .. Len(one)
    BY <1>1 DEF n
  <2> QED BY <1>1, <2>1, <2>2, FrontSame
<1>6. PICK L \in Seq(Line) :
        /\ Rest(one, H, 0) = L \o Rest(one, H, k) /\ Rest(one, none, 0) = L \o Rest(one, none, k)
        /\ Len(L) = k
  <2>1. \A p \in 0 .. k : p < k => Slot(one, H, p) = Slot(one, none, p)
    BY <1>1, <1>2
  <2>2. k \in 0 .. Len(one)
    BY <1>1 DEF n
  <2> QED BY <1>1, <1>4, <2>1, <2>2, FrontSame, ZenonT(30)
<1> DEFINE g == Ins(G, k)
           h == Ins(H, k)
           u == Kept(one, H, k)
           v == Kept(one, none, k)
           y == Rest(one, H, k + 1)
           z == Rest(one, none, k + 1)
           M == M0 \o g
           R == Rest(one, none, k)
           S == Rest(one, H, k)
<1>7. /\ Rest(one, G, k + 1) = z /\ Rest(one, U, k + 1) = y
  <2>1. k + 1 \in Nat /\ \A q \in k + 1 .. Len(one) : q \in Nat /\ q > k
    BY <1>1
  <2>2. Rest(one, G, k + 1) = Rest(one, none, k + 1)
    BY <1>2, <2>1, RestSame
  <2>3. Rest(one, U, k + 1) = Rest(one, H, k + 1)
    BY <1>2, <2>1, RestSame
  <2> QED BY <2>2, <2>3
<1>8. /\ g \in Seq(Line) /\ h \in Seq(Line) /\ u \in Seq(Line) /\ v \in Seq(Line)
      /\ y \in Seq(Line) /\ z \in Seq(Line) /\ R \in Seq(Line) /\ S \in Seq(Line)
  <2>1. g \in Seq(Line) /\ h \in Seq(Line)
    BY <1>1, InsAt
  <2>2. u \in Seq(Line)
    BY <1>1, SlotAt
  <2>3. v \in Seq(Line)
    BY <1>1, SlotAt
  <2>4. y \in Seq(Line) /\ S \in Seq(Line)
    BY <1>1, RestFirst DEF n
  <2>5. z \in Seq(Line) /\ R \in Seq(Line)
    BY <1>1, RestFirst DEF n
  <2> QED BY <2>1, <2>2, <2>3, <2>4, <2>5
<1>9. /\ R = (<<>> \o v) \o z /\ S = (h \o u) \o y
      /\ Rest(one, G, k) = (g \o v) \o z
      /\ Rest(one, U, k) = (Ins(U, k) \o u) \o y
  <2>1. \A W \in SUBSET Hunk : Rest(one, W, k) = Slot(one, W, k) \o Rest(one, W, k + 1)
    BY <1>1, RestFirst DEF n
  <2>2. /\ Rest(one, none, k) = (Ins(none, k) \o Kept(one, none, k)) \o Rest(one, none, k + 1)
        /\ Rest(one, H, k) = (Ins(H, k) \o Kept(one, H, k)) \o Rest(one, H, k + 1)
        /\ Rest(one, G, k) = (Ins(G, k) \o Kept(one, G, k)) \o Rest(one, G, k + 1)
        /\ Rest(one, U, k) = (Ins(U, k) \o Kept(one, U, k)) \o Rest(one, U, k + 1)
    BY <1>1, <2>1 DEF Slot
  <2>3. /\ Kept(one, U, k) = Kept(one, H, k) /\ Kept(one, G, k) = Kept(one, none, k)
        /\ Ins(none, k) = <<>>
    BY <1>1, <1>2
  <2> QED BY <1>7, <2>2, <2>3
<1>10. (Ins(U, k) = g /\ h = <<>>) \/ (Ins(U, k) = h /\ g = <<>>)
  BY <1>1, <1>2
<1> HIDE DEF g, h, u, v, y, z, R, S
<1>11. Rest(one, G, k) = g \o R
  <2>1. <<>> \o v = v
    BY <1>8, ConcatEmptySeq
  <2>2. R = v \o z
    BY <1>9, <2>1
  <2>3. g \o (v \o z) = (g \o v) \o z
    <3>1. g \in Seq(Line) /\ v \in Seq(Line) /\ z \in Seq(Line)
      BY <1>8
    <3> QED BY ONLY <3>1, Glue, SMTT(30)
  <2> QED BY <1>9, <2>2, <2>3
<1>12. Rest(one, U, k) = g \o S
  <2>1. h \o u \in Seq(Line) /\ g \o u \in Seq(Line)
    BY <1>8, ConcatProperties
  <2>2. CASE Ins(U, k) = g /\ h = <<>>
    <3>1. <<>> \o u = u
      BY <1>8, ConcatEmptySeq
    <3>2. S = u \o y
      BY <1>9, <2>2, <3>1
    <3>3. g \o (u \o y) = (g \o u) \o y
      <4>1. g \in Seq(Line) /\ u \in Seq(Line) /\ y \in Seq(Line)
        BY <1>8
      <4> QED BY ONLY <4>1, Glue, SMTT(30)
    <3> QED BY <1>9, <2>2, <3>2, <3>3
  <2>3. CASE Ins(U, k) = h /\ g = <<>>
    <3>1. <<>> \o S = S
      BY <1>8, ConcatEmptySeq
    <3> QED BY <1>9, <2>3, <3>1
  <2> QED BY <1>10, <2>2, <2>3
<1>13. M \in Seq(Line) /\ Rest(one, G, 0) = M \o R /\ Rest(one, U, 0) = M \o S
  <2>1. M \in Seq(Line)
    BY <1>8, ConcatProperties
  <2>2. M0 \o (g \o R) = (M0 \o g) \o R
    <3>1. M0 \in Seq(Line) /\ g \in Seq(Line) /\ R \in Seq(Line)
      BY <1>8
    <3> QED BY ONLY <3>1, Glue
  <2>3. M0 \o (g \o S) = (M0 \o g) \o S
    <3>1. M0 \in Seq(Line) /\ g \in Seq(Line) /\ S \in Seq(Line)
      BY <1>8
    <3> QED BY ONLY <3>1, Glue
  <2> QED BY <1>5, <1>11, <1>12, <2>1, <2>2, <2>3
<1>14. one = L \o R /\ Rest(one, H, 0) = L \o S
  BY <1>3, <1>6 DEF R, S
<1> HIDE DEF M
<1> QED BY <1>6, <1>8, <1>13, <1>14 DEF U, HalvesOf

\* What a merge makes of edits on either side of a line.
MergesHalves(one, mine, yours, k) ==
  \E L, M, R, S \in Seq(Line) :
    /\ one = L \o R /\ mine = M \o R /\ yours = L \o S /\ Len(L) = k
    /\ merge3(one, mine, yours).content = joinLines(M \o S)

LEMMA MergedHalves ==
  ASSUME NEW one \in Texts, NEW mine \in Texts, NEW yours \in Texts, mine # yours,
         merge3(one, mine, yours).ok, NEW k \in 0 .. Len(one),
         \A g \in ToSet(diffLines(one, mine)) : g.start + g.deleted <= k,
         \A h \in ToSet(diffLines(one, yours)) : k <= h.start
  PROVE  MergesHalves(one, mine, yours, k)
<1> DEFINE G == ToSet(diffLines(one, mine))
           H == ToSet(diffLines(one, yours))
           m == merge3(one, mine, yours)
           r == Rest(one, G \cup H, 0)
<1>1. one \in Seq(Line) /\ mine \in Seq(Line) /\ yours \in Seq(Line)
  BY DEF Texts
<1>2. m.content = joinLines(r)
  <2>1. m.content = joinLines(SlotMerge(one, G \cup H))
    BY AMergeIsBothEdits DEF MergesBoth
  <2> DEFINE U == G \cup H
  <2> HIDE DEF U
  <2>2. SlotMerge(one, U) = Rest(one, U, 0)
    BY <1>1, SlotMergeIsRest
  <2> QED BY <2>1, <2>2 DEF U
<1>3. /\ Chain(diffLines(one, mine), 0, Len(one)) /\ Rest(one, G, 0) = mine
      /\ Chain(diffLines(one, yours), 0, Len(one)) /\ Rest(one, H, 0) = yours
  BY <1>1, DiffIsADiff
<1>4. Apart(G, Len(one)) /\ Apart(H, Len(one))
  BY <1>1, <1>3, OneDiff, LenProperties
<1>5. \A g \in G, h \in H : ~overlaps(g, h)
  <2>1. ToSet(diffLines(one, one)) = {}
    BY <1>1, NoDiff DEF ToSet
  <2>2. CASE one = mine \/ one = yours
    BY <2>1, <2>2
  <2>3. CASE one # mine /\ one # yours
    <3> HIDE DEF G, H
    <3>1. m = IF \E g \in G, h \in H : overlaps(g, h)
              THEN [ok        |-> FALSE,
                    content   |-> yours,
                    conflicts |-> MergeConflicts(diffLines(one, mine), diffLines(one, yours))]
              ELSE Clean(joinLines(ApplyHunks(one, G \cup H)))
      BY <2>3 DEF merge3, G, H
    <3>2. m.ok
      OBVIOUS
    <3> HIDE DEF m
    <3> QED BY <3>1, <3>2 DEF Clean
  <2> QED BY <2>2, <2>3
<1>6. /\ \A g \in G : g.start + g.deleted <= k
      /\ \A h \in H : k <= h.start
  OBVIOUS
<1> HIDE DEF G, H, m
<1>7. \A g \in G, h \in H : g.start # h.start
  <2>1. \A g \in G \cup H : g.start \in Nat /\ g.deleted \in Nat
    BY <1>4 DEF Apart, Hunk
  <2>2. \A g \in G \cup H : Larger(g.deleted, 1) \in Nat \ {0}
    BY <2>1 DEF Larger
  <2> QED BY <1>5, <2>1, <2>2 DEF overlaps
<1>8. Parted(one, G, H, k)
  BY <1>4, <1>6, <1>7 DEF Parted, Apart
<1>9. PICK L, M, R, S \in Seq(Line) :
           /\ one = L \o R /\ Rest(one, G, 0) = M \o R
           /\ Rest(one, H, 0) = L \o S /\ Rest(one, G \cup H, 0) = M \o S
           /\ Len(L) = k
  <2>1. HalvesOf(one, G, H, k)
    BY <1>1, <1>8, TwoHalves
  <2> QED BY <2>1 DEF HalvesOf
<1>10. one = L \o R /\ mine = M \o R /\ yours = L \o S /\ Len(L) = k /\ m.content = joinLines(M \o S)
  BY <1>2, <1>3, <1>9
<1> QED BY <1>10 DEF m, MergesHalves

LEMMA Joined ==
  ASSUME NEW a \in Seq(Line), NEW b \in Seq(Line)
  PROVE  /\ Len(a) \in Nat /\ Len(b) \in Nat /\ a \o b \in Seq(Line) /\ Len(a \o b) = Len(a) + Len(b)
         /\ \A i \in 1 .. Len(a) : (a \o b)[i] = a[i]
         /\ \A i \in 1 .. Len(b) : (a \o b)[Len(a) + i] = b[i]
<1> DEFINE n == Len(a)
           m == Len(b)
           c == a \o b
<1>1. n \in Nat /\ m \in Nat
  BY LenProperties
<1>2. /\ c \in Seq(Line) /\ Len(c) = n + m
      /\ \A i \in 1 .. n + m : c[i] = IF i <= n THEN a[i] ELSE b[i - n]
  BY ConcatProperties
<1> HIDE DEF n, m, c
<1>3. \A i \in 1 .. n : c[i] = a[i]
  BY <1>1, <1>2
<1>4. \A i \in 1 .. m : c[n + i] = b[i]
  <2> SUFFICES ASSUME NEW i \in 1 .. m PROVE c[n + i] = b[i]
    OBVIOUS
  <2>1. n + i \in 1 .. n + m /\ ~(n + i <= n) /\ (n + i) - n = i
    BY <1>1
  <2> QED BY <1>2, <2>1
<1> QED BY <1>1, <1>2, <1>3, <1>4 DEF n, m, c

(***************************************************************************)
(* For texts of any length: where ours changes only the section of A and   *)
(* theirs only that of B, the hunks of ours end before the heading B, and  *)
(* those of theirs do not begin before it. The merge has ours up to that   *)
(* heading and theirs from it on. So theirs and the merge end alike, from  *)
(* the heading B on, and the walk of their diff comes to it in both.       *)
(***************************************************************************)
LEMMA OwnersStayApart ==
  ASSUME base \in Texts, ours \in Texts, theirs \in Texts,
         NEW j0, TwoSections(base, 1, j0), NEW i1, NEW j1, TwoSections(ours, i1, j1),
         NEW i2, NEW j2, TwoSections(theirs, i2, j2)
  PROVE  SectionsDoNotCollide
<1> DEFINE m == merge3(base, ours, theirs)
           c == m.content
           k == j0 - 1
           G == ToSet(diffLines(base, ours))
           H == ToSet(diffLines(base, theirs))
<1> SUFFICES ASSUME StaysInside(base, ours, A), StaysInside(base, theirs, B)
             PROVE  /\ m.ok \/ BeginsAt(B, theirs)
                    /\ m.ok => /\ StaysInside(theirs, c, A)
                               /\ SectionText(c, B) = SectionText(theirs, B)
  BY DEF SectionsDoNotCollide
<1>1. base \in Seq(Line) /\ ours \in Seq(Line) /\ theirs \in Seq(Line)
  BY DEF Texts
<1>2. /\ Len(base) \in Nat /\ Len(ours) \in Nat /\ Len(theirs) \in Nat
      /\ j0 \in 1 .. Len(base) /\ 1 < j0 /\ k \in 0 .. Len(base) /\ k + 1 = j0 /\ k \in Nat /\ 1 <= k
  <2>1. Len(base) \in Nat /\ Len(ours) \in Nat /\ Len(theirs) \in Nat
    BY <1>1, LenProperties
  <2> QED BY <2>1 DEF TwoSections
<1>3. /\ locateSection(base, A) = [startLine |-> 1, endLine |-> j0 - 1]
      /\ locateSection(base, B) = [startLine |-> j0, endLine |-> Len(base)]
      /\ \A q \in 1 .. Len(base) : (base[q] = A => q = 1) /\ (base[q] = B => q = j0)
  BY <1>1, SectionsFound
<1>4. /\ Chain(diffLines(base, ours), 0, Len(base))
      /\ Chain(diffLines(base, theirs), 0, Len(base))
  BY <1>1, DiffIsADiff
<1>5. Apart(G, Len(base)) /\ Apart(H, Len(base))
  BY <1>2, <1>4, OneDiff
<1>6. \A g \in G \cup H : g.start \in Nat /\ g.deleted \in Nat
  BY <1>5 DEF Apart, Hunk
<1>7. \A g \in G : g.start + g.deleted <= k
  <2>1. \A g \in G : ~Outside(g, [startLine |-> 1, endLine |-> j0 - 1])
    BY <1>3 DEF StaysInside, findOutOfBounds
  <2> SUFFICES ASSUME NEW g \in G PROVE g.start + g.deleted <= k
    OBVIOUS
  <2>2. IF g.deleted > 0 THEN ~(g.start + g.deleted > j0 - 1) ELSE ~(g.start + 1 > j0 - 1 + 1)
    BY <2>1 DEF Outside
  <2>3. g.start \in Nat /\ g.deleted \in Nat
    BY <1>6
  <2> HIDE DEF G
  <2> QED BY <1>2, <2>2, <2>3
<1>8. \A h \in H : k <= h.start
  <2>1. \A h \in H : ~Outside(h, [startLine |-> j0, endLine |-> Len(base)])
    BY <1>3 DEF StaysInside, findOutOfBounds
  <2> SUFFICES ASSUME NEW h \in H PROVE k <= h.start
    OBVIOUS
  <2>2. ~(h.start + 1 < j0)
    BY <2>1 DEF Outside
  <2>3. h.start \in Nat
    BY <1>6
  <2> HIDE DEF H
  <2> QED BY <1>2, <2>2, <2>3
<1>9. m.ok \/ BeginsAt(B, theirs)
  <2> SUFFICES ASSUME ~m.ok PROVE BeginsAt(B, theirs)
    OBVIOUS
  <2>1. PICK g \in G, h \in H : overlaps(g, h)
    <3>1. m.ok \/ \E g \in G, h \in H : overlaps(g, h)
      BY DEF merge3, Clean
    <3> QED BY <3>1
  <2>2. /\ g.start \in Nat /\ g.deleted \in Nat /\ h.start \in Nat /\ h.deleted \in Nat
        /\ g.start + g.deleted <= k /\ k <= h.start
    BY <1>6, <1>7, <1>8
  <2>3. h.start < g.start + Larger(g.deleted, 1)
    BY <2>1 DEF overlaps
  <2>4. h.start + 1 = j0
    BY <1>2, <2>2, <2>3, SMTT(30) DEF Larger
  <2>5. h.start + 1 = locateSection(base, B).startLine
    BY <1>3, <2>4
  <2> QED BY <2>5 DEF BeginsAt
<1>10. /\ locateSection(theirs, A) = [startLine |-> i2, endLine |-> j2 - 1]
       /\ locateSection(theirs, B) = [startLine |-> j2, endLine |-> Len(theirs)]
       /\ \A q \in 1 .. Len(theirs) : (theirs[q] = A => q = i2) /\ (theirs[q] = B => q = j2)
  BY <1>1, SectionsFound
<1>11. /\ i2 \in 1 .. Len(theirs) /\ j2 \in 1 .. Len(theirs) /\ i2 < j2
       /\ theirs[i2] = A /\ theirs[j2] = B
       /\ \A q \in 1 .. Len(theirs) : q # i2 /\ q # j2 => Level[theirs[q]] = 0
  BY DEF TwoSections
<1>12. ASSUME NEW r, r.startLine = i2, NEW other
       PROVE  r # NoRange
  BY <1>2, <1>11, <1>12 DEF NoRange
<1>13. CASE ours = theirs
  <2>1. c = theirs
    BY <1>13 DEF merge3, Clean
  <2>2. ToSet(diffLines(theirs, theirs)) = {}
    BY <1>1, NoDiff DEF ToSet
  <2>3. locateSection(theirs, A) # NoRange
    BY <1>10, <1>12
  <2> HIDE DEF m, c
  <2>4. StaysInside(theirs, c, A)
    BY <2>1, <2>2, <2>3 DEF StaysInside, findOutOfBounds
  <2> QED BY <1>9, <2>1, <2>4 DEF m, c
<1>14. CASE ours # theirs /\ m.ok
  <2>1. PICK L, M, R, S \in Seq(Line) :
          /\ base = L \o R /\ ours = M \o R /\ theirs = L \o S /\ Len(L) = k
          /\ c = joinLines(M \o S)
    <3>1. /\ base \in Texts /\ ours \in Texts /\ theirs \in Texts /\ ours # theirs
          /\ merge3(base, ours, theirs).ok /\ k \in 0 .. Len(base)
          /\ \A g \in ToSet(diffLines(base, ours)) : g.start + g.deleted <= k
          /\ \A h \in ToSet(diffLines(base, theirs)) : k <= h.start
      BY <1>2, <1>7, <1>8, <1>14
    <3> HIDE DEF m, c, G, H, k
    <3>2. MergesHalves(base, ours, theirs, k)
      BY ONLY <3>1, MergedHalves
    <3> QED BY <3>2 DEF MergesHalves, m, c
  <2> HIDE DEF m, c, G, H, k
  <2> DEFINE l == Len(M)
             d == M \o S
             jc == l + (j2 - k)
  <2>2. /\ Len(R) \in Nat /\ Len(base) = k + Len(R) /\ \A q \in 1 .. k : base[q] = L[q]
        /\ \A q \in 1 .. Len(R) : base[k + q] = R[q]
    BY <2>1, Joined, ZenonT(30)
  <2>3. /\ l \in Nat /\ Len(ours) = l + Len(R) /\ \A q \in 1 .. l : ours[q] = M[q]
        /\ \A q \in 1 .. Len(R) : ours[l + q] = R[q]
    BY <2>1, Joined
  <2>4. /\ Len(S) \in Nat /\ Len(theirs) = k + Len(S) /\ \A q \in 1 .. k : theirs[q] = L[q]
        /\ \A q \in 1 .. Len(S) : theirs[k + q] = S[q]
    BY <2>1, Joined, ZenonT(30)
  <2>5. /\ d \in Seq(Line) /\ Len(d) = l + Len(S) /\ \A q \in 1 .. l : d[q] = M[q]
        /\ \A q \in 1 .. Len(S) : d[l + q] = S[q]
    BY <2>1, Joined
  <2> HIDE DEF l, d
  <2>6. i1 \in 1 .. l /\ \A q \in 1 .. l : M[q] # B
    <3>1. /\ i1 \in 1 .. Len(ours) /\ j1 \in 1 .. Len(ours) /\ i1 < j1
          /\ \A q \in 1 .. Len(ours) : ours[q] = B => q = j1
      <4>1. \A q \in 1 .. Len(ours) : (ours[q] = A => q = i1) /\ (ours[q] = B => q = j1)
        BY <1>1, SectionsFound
      <4>2. i1 \in 1 .. Len(ours) /\ j1 \in 1 .. Len(ours) /\ i1 < j1
        BY DEF TwoSections
      <4> QED BY <4>1, <4>2
    <3>2. 1 \in 1 .. Len(R) /\ base[k + 1] = B
      BY <1>2, <2>2, SMTT(30) DEF TwoSections
    <3>3. ours[l + 1] = B /\ l + 1 \in 1 .. Len(ours)
      BY <2>2, <2>3, <3>2
    <3>4. j1 = l + 1
      BY <3>1, <3>3
    <3>5. \A q \in 1 .. l : q \in 1 .. Len(ours) /\ q # j1
      BY <2>2, <2>3, <3>4
    <3> QED BY <2>3, <3>1, <3>4, <3>5
  <2>7. k < j2 /\ i2 = 1
    <3>1. \A q \in 1 .. k : base[q] = theirs[q] /\ q \in 1 .. Len(base) /\ q \in 1 .. Len(theirs)
      <4>1. \A q \in 1 .. k : base[q] = theirs[q]
        BY <2>2, <2>4
      <4>2. /\ k \in Nat /\ Len(R) \in Nat /\ Len(S) \in Nat
            /\ Len(base) = k + Len(R) /\ Len(theirs) = k + Len(S)
        BY <1>2, <2>2, <2>4
      <4>3. \A q \in 1 .. k : q \in 1 .. Len(base) /\ q \in 1 .. Len(theirs)
        BY ONLY <4>2
      <4> QED BY <4>1, <4>3
    <3>2. \A q \in 1 .. k : theirs[q] # B
      <4>1. \A q \in 1 .. k : q # j0
        BY <1>2
      <4> QED BY <1>3, <3>1, <4>1
    <3>3. k < j2
      BY <1>2, <1>11, <3>2
    <3>4. 1 \in 1 .. k /\ base[1] = A
      BY <1>2 DEF TwoSections
    <3>5. theirs[1] = A /\ 1 \in 1 .. Len(theirs)
      BY <3>1, <3>4
    <3> QED BY <1>10, <3>3, <3>5
  <2>8. /\ j2 \in Nat /\ jc \in Nat /\ jc = l + (j2 - k) /\ l < jc /\ j2 - k \in 1 .. Len(S)
        /\ jc \in 1 .. Len(d) /\ Len(d) - jc = Len(theirs) - j2
    BY <1>2, <1>11, <2>3, <2>4, <2>5, <2>7
  <2>9. /\ \A q \in 1 .. l : d[q] # B
        /\ \A q \in 1 .. Len(d) : q > l => q - l + k \in 1 .. Len(theirs) /\ d[q] = theirs[q - l + k]
    <3>1. \A q \in 1 .. l : d[q] # B
      BY <2>5, <2>6
    <3>2. ASSUME NEW q \in 1 .. Len(d), q > l
          PROVE  q - l + k \in 1 .. Len(theirs) /\ d[q] = theirs[q - l + k]
      <4> DEFINE w == q - l
      <4>1. w \in 1 .. Len(S) /\ l + w = q /\ k + w = q - l + k /\ k + w \in 1 .. Len(theirs)
        BY <1>2, <2>3, <2>4, <2>5, <3>2
      <4> HIDE DEF w
      <4> QED BY <2>4, <2>5, <4>1
    <3> QED BY <3>1, <3>2
  <2> HIDE DEF jc
  <2>10. c = d
    <3>1. Len(d) # 1
      BY <2>5, <2>6, <2>8, <2>3
    <3> DEFINE b == << Blank >>
    <3>2. Len(b) = 1
      OBVIOUS
    <3> HIDE DEF b
    <3>3. d # b
      BY <3>1, <3>2
    <3> QED BY <2>1, <3>3 DEF joinLines, b, d
  <2>11. d[jc] = B /\ \A q \in 1 .. Len(d) : q < jc => d[q] # B
    <3>1. d[jc] = theirs[j2]
      <4>1. jc - l + k = j2
        BY <1>2, <2>3, <2>8
      <4> QED BY <2>8, <2>9, <4>1
    <3>2. ASSUME NEW q \in 1 .. Len(d), q < jc PROVE d[q] # B
      <4>1. CASE q <= l
        BY <2>3, <2>9, <4>1
      <4>2. CASE q > l
        <5>1. q - l + k \in 1 .. Len(theirs) /\ d[q] = theirs[q - l + k]
          BY <2>9, <4>2
        <5>2. q - l + k < j2
          BY <1>2, <2>3, <2>8, <3>2
        <5>3. q - l + k # j2
          BY <1>2, <2>3, <2>8, <5>2
        <5> QED BY <1>10, <5>1, <5>3
      <4> QED BY <2>3, <4>1, <4>2
    <3> QED BY <1>11, <3>1, <3>2
  <2>12. \A q \in 1 .. Len(d) : q > jc =>
           /\ q - jc + j2 \in 1 .. Len(theirs) /\ q - jc + j2 # i2 /\ q - jc + j2 # j2
           /\ d[q] = theirs[q - jc + j2]
    <3> SUFFICES ASSUME NEW q \in 1 .. Len(d), q > jc
                 PROVE  /\ q - jc + j2 \in 1 .. Len(theirs) /\ q - jc + j2 # i2 /\ q - jc + j2 # j2
                        /\ d[q] = theirs[q - jc + j2]
      OBVIOUS
    <3>1. q > l /\ q - l + k = q - jc + j2
      BY <1>2, <2>3, <2>8
    <3>2. q - jc + j2 # i2 /\ q - jc + j2 # j2
      BY <1>11, <2>8, SMTT(30)
    <3> QED BY <2>9, <3>1, <3>2
  <2>13. locateSection(d, B) = [startLine |-> jc, endLine |-> Len(d)]
    <3> DEFINE e == Len(d)
    <3>1. e \in jc .. Len(d) /\ e = Len(d) /\ jc \in 1 .. Len(d) /\ B \in Line
      BY <2>8, <2>5, <2>4, <2>3, MergeAssumption
    <3>2. \A q \in jc + 1 .. e : Level[d[q]] = 0
      <4>1. \A q \in jc + 1 .. e : q \in 1 .. Len(d) /\ q > jc
        BY <2>8, <3>1
      <4> QED BY <1>11, <2>12, <4>1
    <3> HIDE DEF e
    <3>3. locateSection(d, B) = [startLine |-> jc, endLine |-> e]
      BY <2>5, <2>11, <3>1, <3>2, SectionAt
    <3> QED BY <3>1, <3>3
  <2>14. SectionText(d, B) = SectionText(theirs, B)
    <3> DEFINE x == SubSeq(d, jc, Len(d))
               y == SubSeq(theirs, j2, Len(theirs))
               w == Len(d) - jc + 1
    <3>1. Len(d) \in Nat /\ w \in Nat /\ w = Len(theirs) - j2 + 1 /\ jc <= Len(d) /\ j2 <= Len(theirs)
      BY <1>2, <1>11, <2>8, <2>5, <2>4, <2>3
    <3>2. x \in Seq(Line) /\ Len(x) = w /\ \A q \in 1 .. w : x[q] = d[jc + q - 1]
      <4>1. jc \in Int /\ Len(d) \in Int /\ \A q \in jc .. Len(d) : d[q] \in Line
        <5>1. \A q \in jc .. Len(d) : q \in 1 .. Len(d)
          BY <2>8, <3>1
        <5> QED BY <2>5, <2>8, <3>1, <5>1, ElementOfSeq
      <4>2. /\ x \in Seq(Line)
            /\ Len(x) = IF jc <= Len(d) THEN Len(d) - jc + 1 ELSE 0
            /\ \A q \in 1 .. Len(d) - jc + 1 : x[q] = d[jc + q - 1]
        BY <4>1, SubSeqProperties
      <4> QED BY <3>1, <4>2
    <3>3. y \in Seq(Line) /\ Len(y) = w /\ \A q \in 1 .. w : y[q] = theirs[j2 + q - 1]
      <4>1. j2 \in Int /\ Len(theirs) \in Int /\ \A q \in j2 .. Len(theirs) : theirs[q] \in Line
        <5>1. \A q \in j2 .. Len(theirs) : q \in 1 .. Len(theirs)
          BY <1>2, <1>11
        <5> QED BY <1>1, <1>2, <2>8, <5>1, ElementOfSeq
      <4>2. /\ y \in Seq(Line)
            /\ Len(y) = IF j2 <= Len(theirs) THEN Len(theirs) - j2 + 1 ELSE 0
            /\ \A q \in 1 .. Len(theirs) - j2 + 1 : y[q] = theirs[j2 + q - 1]
        BY <4>1, SubSeqProperties
      <4> QED BY <3>1, <4>2
    <3>4. \A q \in 1 .. w : d[jc + q - 1] = theirs[j2 + q - 1]
      <4> SUFFICES ASSUME NEW q \in 1 .. w PROVE d[jc + q - 1] = theirs[j2 + q - 1]
        OBVIOUS
      <4> DEFINE v == jc + q - 1
      <4>1. v \in 1 .. Len(d) /\ v > l /\ v - l + k = j2 + q - 1
        BY <1>2, <2>3, <2>8, <3>1
      <4> HIDE DEF v
      <4>2. d[v] = theirs[v - l + k]
        BY <2>9, <4>1
      <4> QED BY <4>1, <4>2 DEF v
    <3> HIDE DEF x, y, w
    <3>5. x = y
      <4>1. \A q \in 1 .. w : x[q] = y[q]
        BY <3>2, <3>3, <3>4
      <4> QED BY <3>2, <3>3, <4>1, SeqEqual
    <3>6. SectionText(d, B) = x
      <4> DEFINE r == locateSection(d, B)
      <4>1. r.startLine = jc /\ r.endLine = Len(d)
        BY <2>13
      <4>2. SectionText(d, B) = SubSeq(d, r.startLine, r.endLine)
        BY DEF SectionText
      <4> HIDE DEF r
      <4> QED BY <4>1, <4>2 DEF x
    <3>7. SectionText(theirs, B) = y
      <4> DEFINE r == locateSection(theirs, B)
      <4>1. r.startLine = j2 /\ r.endLine = Len(theirs)
        BY <1>10
      <4>2. SectionText(theirs, B) = SubSeq(theirs, r.startLine, r.endLine)
        BY DEF SectionText
      <4> HIDE DEF r
      <4> QED BY <4>1, <4>2 DEF y
    <3> QED BY <3>5, <3>6, <3>7
  <2>15. StaysInside(theirs, d, A)
    <3> DEFINE s == j2 - 1
               t == jc - 1
    <3>1. /\ s \in 0 .. Len(theirs) /\ t \in 0 .. Len(d) /\ Len(theirs) - s = Len(d) - t
          /\ s + 1 = j2 /\ t + 1 = jc /\ s < Len(theirs) /\ s \in Nat /\ t \in Nat
      BY <1>2, <1>11, <2>8, <2>5, <2>4, <2>3
    <3> HIDE DEF s, t
    <3>2. \A q \in 1 .. Len(theirs) - s : theirs[s + q] = d[t + q]
      <4> SUFFICES ASSUME NEW q \in 1 .. Len(theirs) - s PROVE theirs[s + q] = d[t + q]
        OBVIOUS
      <4> DEFINE v == t + q
      <4>0. /\ Len(d) \in Nat /\ Len(theirs) \in Nat /\ l \in Nat /\ k \in Nat
            /\ j2 \in Nat /\ jc \in Nat /\ s \in Nat /\ t \in Nat
            /\ s + 1 = j2 /\ t + 1 = jc /\ jc = l + (j2 - k) /\ l < jc
            /\ Len(theirs) - s = Len(d) - t /\ q \in 1 .. Len(theirs) - s
        BY <1>2, <2>3, <2>8, <2>4, <2>5, <3>1
      <4>1. v \in 1 .. Len(d) /\ v > l /\ v - l + k = s + q
        BY ONLY <4>0
      <4> HIDE DEF v
      <4>2. d[v] = theirs[v - l + k]
        BY <2>9, <4>1
      <4> QED BY <4>1, <4>2 DEF v
    <3>3. EndAlike(theirs, d, s, t)
      BY <3>1, <3>2 DEF EndAlike
    <3>4. \A q \in 1 .. s : theirs[q] # theirs[s + 1]
      <4>1. \A q \in 1 .. s : q \in 1 .. Len(theirs) /\ q # j2
        BY <1>2, <3>1, SMTT(30)
      <4> QED BY <1>10, <1>11, <3>1, <4>1
    <3>5. \A q \in 1 .. t : d[q] # theirs[s + 1]
      <4>1. \A q \in 1 .. t : q \in 1 .. Len(d) /\ q < jc
        BY <2>3, <2>4, <2>5, <3>1
      <4> QED BY <1>11, <2>11, <3>1, <4>1
    <3>6. \A h \in ToSet(diffLines(theirs, d)) : h.start + h.deleted <= s
      BY <1>1, <2>5, <3>1, <3>3, <3>4, <3>5, DiffBefore
    <3>7. \A h \in ToSet(diffLines(theirs, d)) : h.start \in Nat /\ h.deleted \in Nat
      <4>1. Chain(diffLines(theirs, d), 0, Len(theirs))
        BY <1>1, <2>5, DiffIsADiff
      <4>2. Apart(ToSet(diffLines(theirs, d)), Len(theirs))
        BY <1>2, <4>1, OneDiff
      <4> QED BY <4>2 DEF Apart, Hunk
    <3> DEFINE range == [startLine |-> 1, endLine |-> s]
    <3>8. ASSUME NEW h \in ToSet(diffLines(theirs, d)) PROVE ~Outside(h, range)
      <4>1. h.start \in Nat /\ h.deleted \in Nat /\ h.start + h.deleted <= s
        BY <3>6, <3>7
      <4>2. ~(h.start + 1 < 1) /\ ~(h.start + h.deleted > s)
            /\ (h.deleted > 0 \/ ~(h.start + 1 > s + 1))
        BY <3>1, <4>1, SMTT(30)
      <4> QED BY <4>2 DEF Outside
    <3>9. locateSection(theirs, A) = range /\ range # NoRange
      BY <1>10, <2>7 DEF NoRange, s
    <3> HIDE DEF range
    <3> QED BY <3>8, <3>9 DEF StaysInside, findOutOfBounds
  <2> QED BY <1>9, <2>10, <2>14, <2>15
<1> QED BY <1>9, <1>13, <1>14

-----------------------------------------------------------------------------
(* The texts the state graph tries are texts. *)

MergeInv == base \in Texts /\ ours \in Texts /\ theirs \in Texts

LEMMA SmallTexts ==
  ASSUME NEW lines \in SUBSET Line, NEW n \in Nat
  PROVE  TextsOf(lines, n) \subseteq Texts
<1> SUFFICES ASSUME NEW t \in TextsOf(lines, n) PROVE t \in Texts
  OBVIOUS
<1>1. PICK k \in 0 .. n : t \in [1 .. k -> lines]
  BY DEF TextsOf
<1>2. t \in [1 .. k -> Line] /\ k \in Nat
  BY <1>1
<1>3. t \in Seq(Line)
  BY <1>2, SeqDef
<1>4. t # << Blank >>
  BY DEF TextsOf
<1> QED BY <1>3, <1>4 DEF Texts

LEMMA SectionedTexts ==
  ASSUME NEW before \in SUBSET Texts
  PROVE  Sectioned(before) \subseteq Texts
<1> SUFFICES ASSUME NEW t \in Sectioned(before) PROVE t \in Texts
  OBVIOUS
<1> DEFINE Body1 == TextsOf(Body \ {Blank}, 1)
<1>1. Body1 \subseteq Texts
  BY MergeAssumption, SmallTexts
<1> HIDE DEF Body1
<1>2. PICK p \in before, x \in Body1, y \in Body1 : t = p \o << A >> \o x \o << B >> \o y
  <2> DEFINE Text(at) == at[1] \o << A >> \o at[2] \o << B >> \o at[3]
  <2>1. t \in {Text(at) : at \in before \X Body1 \X Body1}
    BY DEF Sectioned, Body1
  <2> HIDE DEF Text
  <2>2. PICK at \in before \X Body1 \X Body1 : t = Text(at)
    BY <2>1
  <2> QED BY <2>2 DEF Text
<1>3. /\ p \in Seq(Line) /\ x \in Seq(Line) /\ y \in Seq(Line)
      /\ << A >> \in Seq(Line) /\ << B >> \in Seq(Line)
      /\ Len(<< A >>) = 1 /\ Len(<< B >>) = 1
  BY <1>1, MergeAssumption DEF Texts
<1> DEFINE t1 == p \o << A >>
           t2 == t1 \o x
           t3 == t2 \o << B >>
<1>4. t1 \in Seq(Line) /\ Len(t1) = Len(p) + 1
  BY <1>3, ConcatProperties
<1> HIDE DEF t1
<1>5. t2 \in Seq(Line) /\ Len(t2) = Len(t1) + Len(x)
  BY <1>3, <1>4, ConcatProperties
<1> HIDE DEF t2
<1>6. t3 \in Seq(Line) /\ Len(t3) = Len(t2) + 1
  <2> DEFINE b == << B >>
  <2>1. b \in Seq(Line) /\ Len(b) = 1
    BY <1>3
  <2> HIDE DEF b
  <2>2. t2 \o b \in Seq(Line) /\ Len(t2 \o b) = Len(t2) + Len(b)
    BY ONLY <1>5, <2>1, ConcatProperties
  <2> QED BY <2>1, <2>2 DEF b
<1> HIDE DEF t3
<1>7. t \in Seq(Line) /\ Len(t) = Len(t3) + Len(y)
  BY <1>2, <1>3, <1>6, ConcatProperties DEF t1, t2, t3
<1>8. Len(p) \in Nat /\ Len(x) \in Nat /\ Len(y) \in Nat
  BY <1>3, LenProperties
<1>9. Len(t) # 1
  BY <1>4, <1>5, <1>6, <1>7, <1>8
<1>10. t # << Blank >>
  <2> DEFINE b == << Blank >>
  <2>1. Len(b) = 1
    OBVIOUS
  <2> HIDE DEF b
  <2>2. t # b
    BY <1>9, <2>1
  <2> QED BY <2>2 DEF b
<1> QED BY <1>7, <1>10 DEF Texts

LEMMA EditsAreTexts == Edits \subseteq Texts
<1>1. SmallText \subseteq Texts
  BY MergeAssumption, SmallTexts DEF SmallText
<1>2. TextsOf(Body \ {Blank}, 1) \subseteq Texts
  BY MergeAssumption, SmallTexts
<1>3. Sectioned(TextsOf(Body \ {Blank}, 1)) \subseteq Texts
  BY <1>2, SectionedTexts
<1> QED BY <1>1, <1>3 DEF Edits

LEMMA MergeInvHolds == MergeSpec => []MergeInv
<1>1. MergeInit => MergeInv
  <2> SUFFICES ASSUME MergeInit PROVE MergeInv
    OBVIOUS
  <2>1. SmallText \subseteq Texts
    BY MergeAssumption, SmallTexts DEF SmallText
  <2>2. {<<>>} \in SUBSET Texts
    BY DEF Texts
  <2>3. Sectioned({<<>>}) \subseteq Texts
    <3> DEFINE none == {<<>>}
    <3>1. none \in SUBSET Texts
      BY <2>2
    <3> HIDE DEF none
    <3>2. Sectioned(none) \subseteq Texts
      BY <3>1, SectionedTexts
    <3> QED BY <3>2 DEF none
  <2> QED BY <2>1, <2>3 DEF MergeInit, MergeInv
<1>2. MergeInv /\ [MergeNext]_mergeVars => MergeInv'
  BY EditsAreTexts DEF MergeInv, MergeNext, EditOurs, EditTheirs, mergeVars
<1> QED BY <1>1, <1>2, PTL DEF MergeSpec

THEOREM CleanMergesAreBothEdits == MergeSpec => []CleanMergeIsBothEdits
<1>1. MergeInv => CleanMergeIsBothEdits
  BY AMergeIsBothEdits DEF MergeInv, MergesBoth, CleanMergeIsBothEdits
<1> QED BY <1>1, MergeInvHolds, PTL

(***************************************************************************)
(* Two commits, and so blame: the second entry of a line is the one of     *)
(* agent 1, of agent 2, or of nobody.                                      *)
(***************************************************************************)
Entry(by, version) == [by |-> by, version |-> version]

Blamed(blame, previous, next, first, second) ==
  /\ Len(blame) = Len(next)
  /\ \A i \in 1 .. Len(next) :
       \/ blame[i] = second /\ next[i] \in InsertedIn(previous, next)
       \/ /\ blame[i] = first /\ next[i] \in InsertedIn(base, previous)
          /\ \E k \in 1 .. Len(previous) : previous[k] = next[i]
       \/ /\ blame[i] = Entry(NoOne, 1) /\ next[i] \in ToSet(base)
          /\ \E k \in 1 .. Len(previous) : previous[k] = next[i]

LEMMA TwoCommits ==
  ASSUME base \in Seq(Line), theirs \in Seq(Line), NEW next \in Seq(Line), NEW by
  PROVE  /\ Blamed(reconcileProvenance(Committed, theirs, next, by, 3),
                   theirs, next, Entry(AgentWrite("a2"), 2), Entry(by, 3))
         /\ reconcileProvenance(Committed, theirs, next, by, 3)
              \in Seq({Entry(NoOne, 1), Entry(AgentWrite("a2"), 2), Entry(by, 3)})
<1> DEFINE e0 == Entry(NoOne, 1)
           e1 == Entry(AgentWrite("a2"), 2)
           e2 == Entry(by, 3)
           X == {e0, e1, e2}
           seed == seedProvenance(base, 1)
           c == Committed
           d == reconcileProvenance(c, theirs, next, by, 3)
<1>1. seed \in Seq(X) /\ Len(seed) = Len(base) /\ \A k \in 1 .. Len(base) : seed[k] = e0
  <2>1. DOMAIN base = 1 .. Len(base) /\ Len(base) \in Nat
    BY LenProperties
  <2>2. seed = [k \in 1 .. Len(base) |-> e0]
    BY <2>1 DEF seedProvenance, Entry
  <2> HIDE DEF e0, seed
  <2>3. seed \in [1 .. Len(base) -> X]
    BY <2>2
  <2>4. seed \in Seq(X)
    BY <2>1, <2>3, SeqDef
  <2> HIDE DEF X
  <2>5. Len(seed) = Len(base)
    BY <2>1, <2>2, <2>4, LenProperties
  <2> QED BY <2>2, <2>4, <2>5
<1>2. c \in Seq(X) /\ BlameOf(c, seed, base, theirs, e1)
  <2>1. c = reconcileProvenance(seed, base, theirs, AgentWrite("a2"), 2)
    BY DEF Committed
  <2>2. [by |-> AgentWrite("a2"), version |-> 2] \in X /\ e1 = [by |-> AgentWrite("a2"), version |-> 2]
    BY DEF Entry
  <2> HIDE DEF X, c, seed, e1
  <2> QED BY <1>1, <2>1, <2>2, Reconciled
<1>3. Len(c) = Len(theirs)
  BY <1>2 DEF BlameOf
<1>4. d \in Seq(X) /\ BlameOf(d, c, theirs, next, e2)
  <2>2. [by |-> by, version |-> 3] \in X /\ e2 = [by |-> by, version |-> 3]
    BY DEF Entry
  <2> HIDE DEF X, c, e2
  <2>3. /\ reconcileProvenance(c, theirs, next, by, 3) \in Seq(X)
        /\ BlameOf(reconcileProvenance(c, theirs, next, by, 3), c, theirs, next, [by |-> by, version |-> 3])
    BY <1>2, <1>3, <2>2, Reconciled
  <2> QED BY <2>2, <2>3
<1> HIDE DEF e0, e1, e2, X, seed, c, d
<1>5. \A k \in 1 .. Len(theirs) : \/ c[k] = e1 /\ theirs[k] \in InsertedIn(base, theirs)
                                  \/ c[k] = e0 /\ theirs[k] \in ToSet(base)
  <2>1. \A k \in 1 .. Len(base) : base[k] \in ToSet(base)
    BY LenProperties DEF ToSet
  <2> QED BY <1>1, <1>2, <2>1 DEF BlameOf
<1>6. Blamed(d, theirs, next, e1, e2)
  <2>1. Len(d) = Len(next)
    BY <1>4 DEF BlameOf
  <2>2. ASSUME NEW i \in 1 .. Len(next)
        PROVE  \/ d[i] = e2 /\ next[i] \in InsertedIn(theirs, next)
               \/ /\ d[i] = e1 /\ next[i] \in InsertedIn(base, theirs)
                  /\ \E k \in 1 .. Len(theirs) : theirs[k] = next[i]
               \/ /\ d[i] = e0 /\ next[i] \in ToSet(base)
                  /\ \E k \in 1 .. Len(theirs) : theirs[k] = next[i]
    <3>1. \/ d[i] = e2 /\ next[i] \in InsertedIn(theirs, next)
          \/ \E k \in 1 .. Len(theirs) : d[i] = c[k] /\ theirs[k] = next[i]
      BY <1>4 DEF BlameOf
    <3> QED BY <1>5, <3>1
  <2> QED BY <2>1, <2>2 DEF Blamed, e0
<1> QED BY <1>4, <1>6 DEF d, c, X, e0, e1, e2

(***************************************************************************)
(* For texts of any length, blame names the writer. A line new to the      *)
(* document is in one of the two commits' diffs, and only with moved lines *)
(* can the second commit's diff hold a line that ours did not insert.      *)
(***************************************************************************)
THEOREM BlameIsTheWriters == MergeSpec => []BlameNamesTheWriter
<1>1. ASSUME MergeInv PROVE BlameNamesTheWriter
  <2> DEFINE m == merge3(base, ours, theirs)
             content == m.content
             merged == reconcileProvenance(Committed, theirs, content, AgentWrite("a1"), 3)
             byHand == reconcileProvenance(Committed, theirs, ours, HumanEdit("h1"), 3)
             Wrote == [a1 |-> InsertedBy(ours), a2 |-> InsertedBy(theirs)]
             named(i) == RecommendedAgent(merged, i, i)
             isNew(i) == content[i] \notin ToSet(base)
             moves == \E a \in DOMAIN Wrote : Wrote[a] \cap ToSet(base) # {}
             e0 == Entry(NoOne, 1)
             e1 == Entry(AgentWrite("a2"), 2)
             e2 == Entry(AgentWrite("a1"), 3)
             eh == Entry(HumanEdit("h1"), 3)
  <2>1. base \in Texts /\ ours \in Texts /\ theirs \in Texts
    BY <1>1 DEF MergeInv
  <2>2. base \in Seq(Line) /\ ours \in Seq(Line) /\ theirs \in Seq(Line)
    BY <2>1 DEF Texts
  <2>3. /\ e0.by.agent = "none" /\ e1.by.agent = "a2" /\ e2.by.agent = "a1"
        /\ eh.by.agent = "none" /\ eh.by.human = "h1"
    BY DEF Entry, NoOne, AgentWrite, HumanEdit
  <2>4. InsertedBy(ours) = InsertedIn(base, ours) /\ InsertedBy(theirs) = InsertedIn(base, theirs)
    BY DEF InsertedBy, InsertedIn
  <2>5. DOMAIN Wrote = {"a1", "a2"}
        /\ Wrote["a1"] = InsertedIn(base, ours) /\ Wrote["a2"] = InsertedIn(base, theirs)
    BY <2>4
  <2> HIDE DEF Wrote
  <2>6. ASSUME m.ok
        PROVE  /\ DOMAIN merged = DOMAIN content
               /\ \A i \in DOMAIN merged :
                    /\ isNew(i) => named(i) \in DOMAIN Wrote
                    /\ ~moves => IF isNew(i) THEN content[i] \in Wrote[named(i)]
                                             ELSE named(i) = "none"
    <3> DEFINE X == {e0, e1, e2}
    <3>1. content \in Seq(Line)
      BY <2>1, <2>6, MergedText
    <3> HIDE DEF content, m
    <3>2. Blamed(merged, theirs, content, e1, e2) /\ merged \in Seq(X)
      BY <2>2, <3>1, TwoCommits
    <3>3. DOMAIN merged = 1 .. Len(content) /\ DOMAIN content = 1 .. Len(content)
          /\ Len(merged) = Len(content)
      BY <3>1, <3>2, LenProperties DEF Blamed
    <3> HIDE DEF merged, e1, e2, X
    <3>4. ASSUME NEW i \in 1 .. Len(content)
          PROVE  /\ isNew(i) => named(i) \in DOMAIN Wrote
                 /\ ~moves => IF isNew(i) THEN content[i] \in Wrote[named(i)]
                                          ELSE named(i) = "none"
      <4>1. named(i) = merged[i].by.agent
        BY <3>2, <3>3, NamedIs
      <4>2. \/ merged[i] = e2 /\ content[i] \in InsertedIn(theirs, content)
            \/ merged[i] = e1 /\ content[i] \in InsertedIn(base, theirs)
            \/ merged[i] = e0 /\ content[i] \in ToSet(base)
        BY <3>2 DEF Blamed
      <4> HIDE DEF named, e0
      <4>3. isNew(i) => named(i) \in DOMAIN Wrote
        BY <2>3, <2>5, <4>1, <4>2
      <4>4. ASSUME ~moves
            PROVE  IF isNew(i) THEN content[i] \in Wrote[named(i)] ELSE named(i) = "none"
        <5>1. \A k \in 1 .. Len(base) : base[k] \in ToSet(base)
          BY <2>2, LenProperties DEF ToSet
        <5>2. Wrote["a1"] \cap ToSet(base) = {} /\ Wrote["a2"] \cap ToSet(base) = {}
          BY <2>5, <4>4
        <5> DEFINE W == Wrote["a1"]
        <5>3. AddsOnly(theirs, content, W)
          <6>1. W = InsertedIn(base, ours) /\ \A k \in 1 .. Len(base) : base[k] \notin W
            BY <2>5, <5>1, <5>2
          <6> HIDE DEF W
          <6>2. AddsOnly(theirs, merge3(base, ours, theirs).content, W)
            BY <2>1, <2>6, <6>1, MergeAddsOnlyMine DEF m
          <6> QED BY <6>2 DEF content, m
        <5>4. content[i] \in InsertedIn(theirs, content) => content[i] \in W
          BY <5>3 DEF AddsOnly
        <5> QED BY <2>3, <2>5, <4>1, <4>2, <5>2, <5>4
      <4> QED BY <4>3, <4>4
    <3> QED BY <3>3, <3>4
  <2>7. ASSUME NEW i \in DOMAIN ours, ours[i] \notin ToSet(theirs)
        PROVE  RecommendedAgent(byHand, i, i) = "none" /\ byHand[i].by.human = "h1"
    <3> DEFINE X == {e0, e1, eh}
    <3>1. Blamed(byHand, theirs, ours, e1, eh) /\ byHand \in Seq(X)
      BY <2>2, TwoCommits
    <3>2. i \in 1 .. Len(ours) /\ Len(byHand) = Len(ours)
      BY <2>2, <3>1, LenProperties DEF Blamed
    <3> HIDE DEF byHand, e0, e1, eh, X
    <3>3. \A k \in 1 .. Len(theirs) : theirs[k] \in ToSet(theirs)
      BY <2>2, LenProperties DEF ToSet
    <3>4. byHand[i] = eh
      BY <2>7, <3>1, <3>2, <3>3 DEF Blamed
    <3>5. RecommendedAgent(byHand, i, i) = byHand[i].by.agent
      BY <3>1, <3>2, NamedIs
    <3> QED BY <2>3, <3>4, <3>5
  <2>8. /\ m.ok => /\ DOMAIN merged = DOMAIN content
                 /\ \A i \in DOMAIN merged :
                      /\ isNew(i) => named(i) \in DOMAIN Wrote
                      /\ ~moves => IF isNew(i) THEN content[i] \in Wrote[named(i)]
                                               ELSE named(i) = "none"
        /\ \A i \in DOMAIN ours : ours[i] \notin ToSet(theirs) =>
             RecommendedAgent(byHand, i, i) = "none" /\ byHand[i].by.human = "h1"
    <3> HIDE DEF m, content, merged, byHand, named, isNew, moves
    <3> QED BY <2>6, <2>7
  <2> QED BY ONLY <2>8 DEF BlameNamesTheWriter, Wrote
<1> QED BY <1>1, MergeInvHolds, PTL


(***************************************************************************)
(* Two sections: every text the owners of the sections write has the two   *)
(* headings, and the base that has them begins with A.                     *)
(***************************************************************************)
LEMMA SectionedIsTwo ==
  ASSUME NEW p \in Seq(Body), NEW x \in Seq(Body), NEW y \in Seq(Body)
  PROVE  \E j : TwoSections(p \o << A >> \o x \o << B >> \o y, Len(p) + 1, j)
<1> DEFINE a == << A >>
           b == << B >>
           t1 == p \o a
           t2 == t1 \o x
           t3 == t2 \o b
           t == t3 \o y
           n == Len(p)
           i == n + 1
           j == n + Len(x) + 2
<1>1. /\ p \in Seq(Line) /\ x \in Seq(Line) /\ y \in Seq(Line)
      /\ \A q \in 1 .. Len(p) : Level[p[q]] = 0
      /\ \A q \in 1 .. Len(x) : Level[x[q]] = 0
      /\ \A q \in 1 .. Len(y) : Level[y[q]] = 0
  <2>1. Body \subseteq Line /\ \A l \in Body : Level[l] = 0
    BY MergeAssumption
  <2>2. ASSUME NEW z \in Seq(Body)
        PROVE  z \in Seq(Line) /\ \A q \in 1 .. Len(z) : Level[z[q]] = 0
    <3>1. \A q \in 1 .. Len(z) : z[q] \in Body
      BY <2>2, ElementOfSeq
    <3>2. z \in Seq(Line)
      BY <2>1, <2>2
    <3> QED BY <2>1, <3>1, <3>2
  <2> QED BY <2>2
<1>2. a \in Seq(Line) /\ Len(a) = 1 /\ a[1] = A /\ b \in Seq(Line) /\ Len(b) = 1 /\ b[1] = B
  BY MergeAssumption
<1> HIDE DEF a, b
<1>3. /\ n \in Nat /\ t1 \in Seq(Line) /\ Len(t1) = n + 1
      /\ \A q \in 1 .. n : t1[q] = p[q]
      /\ t1[n + 1] = A
  <2>1. /\ Len(p) \in Nat /\ t1 \in Seq(Line) /\ Len(t1) = Len(p) + Len(a)
        /\ \A q \in 1 .. Len(p) : t1[q] = p[q]
        /\ \A q \in 1 .. Len(a) : t1[Len(p) + q] = a[q]
    BY <1>1, <1>2, Joined
  <2> HIDE DEF t1
  <2>2. t1[Len(p) + 1] = a[1]
    BY <1>2, <2>1
  <2> QED BY <1>2, <2>1, <2>2
<1> HIDE DEF t1
<1>4. /\ Len(x) \in Nat /\ t2 \in Seq(Line) /\ Len(t2) = n + 1 + Len(x)
      /\ \A q \in 1 .. n + 1 : t2[q] = t1[q]
      /\ \A q \in 1 .. Len(x) : t2[n + 1 + q] = x[q]
  <2>1. /\ Len(x) \in Nat /\ t2 \in Seq(Line) /\ Len(t2) = Len(t1) + Len(x)
        /\ \A q \in 1 .. Len(t1) : t2[q] = t1[q]
        /\ \A q \in 1 .. Len(x) : t2[Len(t1) + q] = x[q]
    BY <1>1, <1>3, Joined
  <2> HIDE DEF t2, n
  <2> QED BY <1>3, <2>1
<1> HIDE DEF t2
<1> DEFINE m == n + 1 + Len(x)
<1>5. /\ m \in Nat /\ t3 \in Seq(Line) /\ Len(t3) = m + 1
      /\ \A q \in 1 .. m : t3[q] = t2[q]
      /\ t3[m + 1] = B
  <2>1. /\ Len(t2) \in Nat /\ t3 \in Seq(Line) /\ Len(t3) = Len(t2) + Len(b)
        /\ \A q \in 1 .. Len(t2) : t3[q] = t2[q]
        /\ \A q \in 1 .. Len(b) : t3[Len(t2) + q] = b[q]
    BY <1>2, <1>4, Joined
  <2> HIDE DEF t3
  <2>2. t3[Len(t2) + 1] = b[1]
    BY <1>2, <2>1
  <2> QED BY <1>2, <1>4, <2>1, <2>2
<1> HIDE DEF t3
<1>6. /\ Len(y) \in Nat /\ t \in Seq(Line) /\ Len(t) = m + 1 + Len(y)
      /\ \A q \in 1 .. m + 1 : t[q] = t3[q]
      /\ \A q \in 1 .. Len(y) : t[m + 1 + q] = y[q]
  <2>1. /\ Len(y) \in Nat /\ t \in Seq(Line) /\ Len(t) = Len(t3) + Len(y)
        /\ \A q \in 1 .. Len(t3) : t[q] = t3[q]
        /\ \A q \in 1 .. Len(y) : t[Len(t3) + q] = y[q]
    BY <1>1, <1>5, Joined
  <2> HIDE DEF t, m
  <2> QED BY <1>5, <2>1
<1>7. n \in Nat /\ Len(x) \in Nat /\ Len(y) \in Nat /\ m = n + 1 + Len(x) /\ i = n + 1 /\ j = m + 1
  BY <1>3, <1>4, <1>6
<1> HIDE DEF t, n, m, i, j
<1>8. i \in 1 .. Len(t) /\ j \in 1 .. Len(t) /\ i < j
  BY <1>6, <1>7
<1>9. t[j] = B
  <2>1. m + 1 \in 1 .. m + 1
    BY <1>7
  <2> QED BY <1>5, <1>6, <1>7, <2>1
<1>10. \A q \in 1 .. n + 1 : t[q] = t1[q]
  <2> SUFFICES ASSUME NEW q \in 1 .. n + 1 PROVE t[q] = t1[q]
    OBVIOUS
  <2>1. q \in 1 .. m /\ q \in 1 .. m + 1
    BY <1>7
  <2> QED BY <1>4, <1>5, <1>6, <2>1
<1>11. t[i] = A
  <2>1. n + 1 \in 1 .. n + 1
    BY <1>7
  <2> QED BY <1>3, <1>7, <1>10, <2>1
<1>12. ASSUME NEW q \in 1 .. Len(t), q # i, q # j
       PROVE  Level[t[q]] = 0
  <2>1. CASE q < i
    <3>1. q \in 1 .. n /\ q \in 1 .. n + 1
      BY <1>7, <2>1
    <3> QED BY <1>1, <1>3, <1>10, <3>1 DEF n
  <2>2. CASE i < q /\ q < j
    <3> DEFINE w == q - (n + 1)
    <3>1. w \in 1 .. Len(x) /\ n + 1 + w = q /\ q \in 1 .. m /\ q \in 1 .. m + 1
      BY <1>7, <2>2
    <3> HIDE DEF w
    <3>2. t[q] = t2[n + 1 + w]
      BY <1>5, <1>6, <3>1
    <3> QED BY <1>1, <1>4, <3>1, <3>2
  <2>3. CASE q > j
    <3> DEFINE w == q - (m + 1)
    <3>1. w \in 1 .. Len(y) /\ m + 1 + w = q
      BY <1>6, <1>7, <2>3
    <3> HIDE DEF w
    <3> QED BY <1>1, <1>6, <3>1
  <2> QED BY <1>7, <1>12, <2>1, <2>2, <2>3
<1>13. TwoSections(t, i, j)
  BY <1>8, <1>9, <1>11, <1>12 DEF TwoSections
<1>14. p \o << A >> \o x \o << B >> \o y = t
  BY DEF t, t3, t2, t1, a, b
<1> QED BY <1>13, <1>14 DEF i, n

FirstSections(t) == \E j : TwoSections(t, 1, j)

AnySections(t) == \E i, j : TwoSections(t, i, j)

LEMMA LinesOfTexts ==
  ASSUME NEW lines, NEW n \in Nat, NEW more, lines \subseteq more
  PROVE  TextsOf(lines, n) \subseteq Seq(more)
<1> SUFFICES ASSUME NEW t \in TextsOf(lines, n) PROVE t \in Seq(more)
  OBVIOUS
<1>1. PICK k \in 0 .. n : t \in [1 .. k -> lines]
  BY DEF TextsOf
<1>2. t \in [1 .. k -> more] /\ k \in Nat
  BY <1>1
<1> QED BY <1>2, SeqDef

LEMMA SectionedTwice ==
  ASSUME NEW before \in SUBSET Seq(Body), NEW t \in Sectioned(before)
  PROVE  \E p \in before : \E j : TwoSections(t, Len(p) + 1, j)
<1> DEFINE Body1 == TextsOf(Body \ {Blank}, 1)
<1>1. Body1 \subseteq Seq(Body)
  <2>1. Body \ {Blank} \subseteq Body
    OBVIOUS
  <2> QED BY <2>1, LinesOfTexts
<1> HIDE DEF Body1
<1>2. PICK p \in before, x \in Body1, y \in Body1 : t = p \o << A >> \o x \o << B >> \o y
  <2> DEFINE Text(at) == at[1] \o << A >> \o at[2] \o << B >> \o at[3]
  <2>1. t \in {Text(at) : at \in before \X Body1 \X Body1}
    BY DEF Sectioned, Body1
  <2> HIDE DEF Text
  <2>2. PICK at \in before \X Body1 \X Body1 : t = Text(at)
    BY <2>1
  <2> QED BY <2>2 DEF Text
<1>3. p \in Seq(Body) /\ x \in Seq(Body) /\ y \in Seq(Body)
  BY <1>1
<1>4. \E j : TwoSections(p \o << A >> \o x \o << B >> \o y, Len(p) + 1, j)
  BY <1>3, SectionedIsTwo
<1> QED BY <1>2, <1>4

\* The inductive invariant: an edit of a base with sections leaves both in place.
SectionsInv ==
  A \in ToSet(base) => FirstSections(base) /\ AnySections(ours) /\ AnySections(theirs)

LEMMA SectionsInvHolds == MergeSpec => []SectionsInv
<1>1. MergeInit => SectionsInv
  <2> SUFFICES ASSUME MergeInit, A \in ToSet(base)
               PROVE  FirstSections(base) /\ AnySections(ours) /\ AnySections(theirs)
    BY DEF SectionsInv
  <2>1. base \notin SmallText
    <3> SUFFICES ASSUME base \in SmallText PROVE FALSE
      OBVIOUS
    <3>1. base \in Seq(Body)
      BY LinesOfTexts, MergeAssumption DEF SmallText
    <3>2. PICK k \in 1 .. Len(base) : base[k] = A
      BY <3>1, LenProperties DEF ToSet
    <3>3. A \in Body
      BY <3>1, <3>2, ElementOfSeq
    <3>4. Level[A] > 0 /\ \A l \in Body : Level[l] = 0
      BY MergeAssumption
    <3> QED BY <3>3, <3>4
  <2> DEFINE none == {<<>>}
  <2>2. base \in Sectioned(none)
    BY <2>1 DEF MergeInit
  <2>3. none \in SUBSET Seq(Body) /\ \A p \in none : Len(p) + 1 = 1
    OBVIOUS
  <2> HIDE DEF none
  <2>4. \E p \in none : \E j : TwoSections(base, Len(p) + 1, j)
    BY <2>2, <2>3, SectionedTwice
  <2>5. FirstSections(base)
    BY <2>3, <2>4 DEF FirstSections
  <2>6. AnySections(base)
    BY <2>5 DEF FirstSections, AnySections
  <2> QED BY <2>5, <2>6 DEF MergeInit
<1>2. SectionsInv /\ [MergeNext]_mergeVars => SectionsInv'
  <2> SUFFICES ASSUME SectionsInv, [MergeNext]_mergeVars, (A \in ToSet(base))'
               PROVE  (FirstSections(base) /\ AnySections(ours) /\ AnySections(theirs))'
    BY DEF SectionsInv
  <2>1. base' = base
    BY DEF MergeNext, EditOurs, EditTheirs, mergeVars
  <2>2. A \in ToSet(base)
    BY <2>1
  <2>3. FirstSections(base) /\ AnySections(ours) /\ AnySections(theirs)
    BY <2>2 DEF SectionsInv
  <2>4. ASSUME NEW t \in Edits
        PROVE  AnySections(t)
    <3> DEFINE before == TextsOf(Body \ {Blank}, 1)
    <3>1. t \in Sectioned(before)
      BY <2>2, <2>4 DEF Edits
    <3>2. before \in SUBSET Seq(Body)
      <4>1. Body \ {Blank} \subseteq Body
        OBVIOUS
      <4>2. before \subseteq Seq(Body)
        BY <4>1, LinesOfTexts
      <4> QED BY <4>2
    <3> HIDE DEF before
    <3>3. \E p \in before : \E j : TwoSections(t, Len(p) + 1, j)
      BY <3>1, <3>2, SectionedTwice
    <3> QED BY <3>3 DEF AnySections
  <2>5. AnySections(ours')
    <3>1. ours' = ours \/ ours' \in Edits
      BY DEF MergeNext, EditOurs, EditTheirs, mergeVars
    <3> QED BY <2>3, <2>4, <3>1
  <2>6. AnySections(theirs')
    <3>1. theirs' = theirs \/ theirs' \in Edits
      BY DEF MergeNext, EditOurs, EditTheirs, mergeVars
    <3> QED BY <2>3, <2>4, <3>1
  <2> QED BY <2>1, <2>3, <2>5, <2>6
<1> QED BY <1>1, <1>2, PTL DEF MergeSpec

(***************************************************************************)
(* The owners of two sections do not collide (store.ts outOfBounds with    *)
(* sections.ts and merge.ts): whatever the texts around and in the two     *)
(* sections are, the edits of the two owners merge unless the second one   *)
(* begins at its heading; the merged write is accepted, and the section of *)
(* the second owner is as that owner left it.                              *)
(***************************************************************************)
THEOREM TheOwnersDoNotCollide == MergeSpec => []SectionsDoNotCollide
<1>1. MergeInv /\ SectionsInv => SectionsDoNotCollide
  <2> SUFFICES ASSUME MergeInv, SectionsInv PROVE SectionsDoNotCollide
    OBVIOUS
  <2>1. CASE A \in ToSet(base)
    <3>1. FirstSections(base) /\ AnySections(ours) /\ AnySections(theirs)
      BY <2>1 DEF SectionsInv
    <3>2. base \in Texts /\ ours \in Texts /\ theirs \in Texts
      BY DEF MergeInv
    <3>3. PICK j0, i1, j1, i2, j2 : /\ TwoSections(base, 1, j0) /\ TwoSections(ours, i1, j1)
                                    /\ TwoSections(theirs, i2, j2)
      BY <3>1 DEF FirstSections, AnySections
    <3> QED BY <3>2, <3>3, OwnersStayApart
  <2>2. CASE A \notin ToSet(base)
    <3>1. ~\E k \in DOMAIN base : base[k] = A
      BY <2>2 DEF ToSet
    <3>2. locateSection(base, A) = NoRange
      BY <3>1 DEF locateSection
    <3>3. ~StaysInside(base, ours, A)
      BY <3>2 DEF StaysInside
    <3> QED BY <3>3 DEF SectionsDoNotCollide
  <2> QED BY <2>1, <2>2
<1> QED BY <1>1, MergeInvHolds, SectionsInvHolds, PTL
=============================================================================
