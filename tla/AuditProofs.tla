---------------------------- MODULE AuditProofs ----------------------------
(***************************************************************************)
(* Audit, for any runs, retention and numbers of records: its type         *)
(* invariant, that the chain verifies, that no number repeats, and that    *)
(* the records tell what happened to their run; the decisions of Policy,   *)
(* for any list of rules; where any path leads; and that a run is stopped  *)
(* exactly for what the policy is shown of it.                             *)
(***************************************************************************)
EXTENDS MCAegis, FiniteSetTheorems, SequenceTheorems, NaturalsInduction, WellFoundedInduction, TLAPS

USE AuditAssumption

\* The hash that what follows the first i - 1 records of s has to hold, when
\* s follows a record with hash a.
Link(s, a, i) == IF i = 1 THEN a ELSE s[i - 1].id

\* s leads from hash a to hash h.
Chain(s, a, h) ==
  /\ \A i \in 1 .. Len(s) : s[i].prev = Link(s, a, i)
  /\ h = Link(s, a, Len(s) + 1)

FileHead == Link(file, GENESIS, Len(file) + 1)

\* The numbers of each run grow along s.
Increasing(s) ==
  \A i, k \in 1 .. Len(s) : i < k /\ s[i].run = s[k].run => s[i].seq < s[k].seq

\* Those of s are before those of t.
Before(s, t) ==
  \A i \in 1 .. Len(s), k \in 1 .. Len(t) : s[i].run = t[k].run => s[i].seq < t[k].seq

\* f has given them; run has none from n on.
Given(s, f) == \A i \in 1 .. Len(s) : s[i].seq <= f[s[i].run]

Older(s, run, n) == \A i \in 1 .. Len(s) : s[i].run = run => s[i].seq < n

ChainInv ==
  /\ holed = "yes" => failed # {}
  /\ failed = {} => Chain(file, GENESIS, FileHead)
  /\ failed = {} /\ server = "up" => Chain(queue, FileHead, head)
  /\ holed = "no" /\ server = "up" => Chain(events, anchor, head)
  /\ server # "up" => anchor = GENESIS /\ queue = <<>> /\ events = <<>>

NumbersInv ==
  /\ Increasing(file)
  /\ server = "up" =>
       /\ Increasing(events) /\ Increasing(queue) /\ Before(file, queue)
       /\ Given(events, seqByRun) /\ Given(queue, seqByRun) /\ Given(file, seqByRun)

IInv == TypeOK /\ ChainInv /\ NumbersInv

-----------------------------------------------------------------------------
(* Sequences.                                                              *)

LEMMA Elements ==
  ASSUME NEW s \in Seq(Record), NEW i \in 1 .. Len(s)
  PROVE  /\ s[i] \in Record /\ s[i].run \in RunIds
         /\ s[i].seq \in Nat /\ s[i].id \in Nat
<1>1. s[i] \in Record
  BY LenProperties, ElementOfSeq
<1> QED
  BY <1>1 DEF Record

LEMMA ChainAppend ==
  ASSUME NEW s \in Seq(Record), NEW a, NEW h, NEW e \in Record,
         Chain(s, a, h), e.prev = h
  PROVE  Chain(Append(s, e), a, e.id)
<1>1. Len(Append(s, e)) = Len(s) + 1 /\ Append(s, e)[Len(s) + 1] = e
      /\ \A i \in 1 .. Len(s) : Append(s, e)[i] = s[i]
  BY AppendProperties
<1>2. Len(s) \in Nat
  BY LenProperties
<1>3. \A i \in 1 .. Len(s) + 1 : Link(Append(s, e), a, i) = Link(s, a, i)
  BY <1>1, <1>2 DEF Link
<1>4. Link(Append(s, e), a, Len(s) + 2) = e.id
  BY <1>1, <1>2 DEF Link
<1> QED
  BY <1>1, <1>2, <1>3, <1>4 DEF Chain

LEMMA ChainDrop ==
  ASSUME NEW s \in Seq(Record), NEW a, NEW h, Chain(s, a, h), NEW d \in 0 .. Len(s)
  PROVE  Chain(SubSeq(s, d + 1, Len(s)), Link(s, a, d + 1), h)
<1> DEFINE t == SubSeq(s, d + 1, Len(s))
<1>1. Len(s) \in Nat
  BY LenProperties
<1>2. Len(t) = Len(s) - d /\ \A i \in 1 .. Len(s) - d : t[i] = s[d + i]
  BY <1>1, SubSeqProperties
<1>3. \A i \in 1 .. Len(t) + 1 : Link(t, Link(s, a, d + 1), i) = Link(s, a, d + i)
  BY <1>1, <1>2 DEF Link
<1> QED
  BY <1>1, <1>2, <1>3 DEF Chain

LEMMA IncreasingAppend ==
  ASSUME NEW s \in Seq(Record), NEW e \in Record, Increasing(s), Older(s, e.run, e.seq)
  PROVE  Increasing(Append(s, e))
<1>1. Len(Append(s, e)) = Len(s) + 1 /\ Append(s, e)[Len(s) + 1] = e
      /\ \A i \in 1 .. Len(s) : Append(s, e)[i] = s[i]
  BY AppendProperties
<1>2. Len(s) \in Nat
  BY LenProperties
<1> QED
  BY <1>1, <1>2 DEF Increasing, Older

LEMMA IncreasingDrop ==
  ASSUME NEW s \in Seq(Record), Increasing(s), NEW d \in 0 .. Len(s)
  PROVE  Increasing(SubSeq(s, d + 1, Len(s)))
<1> DEFINE t == SubSeq(s, d + 1, Len(s))
<1>1. Len(s) \in Nat
  BY LenProperties
<1>2. Len(t) = Len(s) - d /\ \A i \in 1 .. Len(s) - d : t[i] = s[d + i]
  BY <1>1, SubSeqProperties
<1> HIDE DEF t
<1>3. ASSUME NEW i \in 1 .. Len(t), NEW k \in 1 .. Len(t), i < k, t[i].run = t[k].run
      PROVE  t[i].seq < t[k].seq
  <2>1. /\ d + i \in 1 .. Len(s) /\ d + k \in 1 .. Len(s) /\ d + i < d + k
        /\ t[i] = s[d + i] /\ t[k] = s[d + k]
    BY <1>1, <1>2, <1>3
  <2> QED
    BY <1>3, <2>1 DEF Increasing
<1>4. Increasing(t)
  BY <1>3 DEF Increasing
<1> QED
  BY <1>4 DEF t

\* What a sequence's first element and the rest are.
LEMMA HeadAndTail ==
  ASSUME NEW s \in Seq(Record), s # <<>>
  PROVE  /\ Head(s) = s[1] /\ Head(s) \in Record
         /\ Tail(s) = SubSeq(s, 2, Len(s)) /\ Tail(s) \in Seq(Record)
         /\ Len(s) \in Nat \ {0} /\ Len(Tail(s)) = Len(s) - 1
         /\ \A i \in 1 .. Len(s) - 1 : Tail(s)[i] = s[i + 1]
<1>1. Len(s) \in Nat /\ Len(s) # 0
  BY LenProperties, EmptySeq
<1>2. s[1] \in Record
  BY <1>1, ElementOfSeq
<1> QED
  BY <1>1, <1>2, HeadTailProperties, TailIsSubSeq

\* A nonempty set of naturals below n has a largest.
LEMMA LargestExists ==
  ASSUME NEW n \in Nat, NEW S \in SUBSET (1 .. n), S # {}
  PROVE  \E m \in S : \A k \in S : k <= m
<1> DEFINE T == {n - k : k \in S}
<1>a. \A k \in S : k \in Nat /\ k <= n /\ n - k \in Nat
  OBVIOUS
<1>1. T \subseteq Nat /\ T # {}
  BY <1>a
<1>2. IsWellFoundedOn({q \in Nat \X Nat : q[1] < q[2]}, Nat)
  BY NatLessThanWellFounded DEF OpToRel
<1>3. \E t \in T : \A u \in T : ~(<< u, t >> \in {q \in Nat \X Nat : q[1] < q[2]})
  BY ONLY <1>1, <1>2, WFMin
<1> PICK t \in T : \A u \in T : ~(u < t)
  BY <1>1, <1>3
<1>4. PICK m \in S : t = n - m
  OBVIOUS
<1>5. ASSUME NEW k \in S PROVE k <= m
  <2>1. n - k \in T
    OBVIOUS
  <2>2. ~(n - k < n - m)
    BY <2>1, <1>4
  <2> QED
    BY <1>a, <2>2
<1> QED
  BY <1>4, <1>5

LEMMA LastSeqIs ==
  ASSUME file \in Seq(Record), Increasing(file), NEW r \in RunIds
  PROVE  /\ LastSeq(r) \in Nat \cup {-1}
         /\ \A i \in 1 .. Len(file) : file[i].run = r => file[i].seq <= LastSeq(r)
<1> DEFINE S == {k \in 1 .. Len(file) : file[k].run = r}
           V == {-1} \cup {file[i].seq : i \in S}
<1>1. Len(file) \in Nat /\ DOMAIN file = 1 .. Len(file)
  BY LenProperties
<1>2. LastSeq(r) = Max(V)
  BY <1>1 DEF LastSeq
<1>3. \A i \in S : file[i].seq \in Nat
  BY Elements
<1>4. \E v \in V : \A w \in V : v >= w
  <2>1. CASE S = {}
    BY <2>1
  <2>2. CASE S # {}
    <3>1. PICK m \in S : \A k \in S : k <= m
      BY <1>1, <2>2, LargestExists
    <3>2. \A k \in S : file[k].seq <= file[m].seq
      BY <1>1, <1>3, <3>1 DEF Increasing
    <3>3. file[m].seq \in V /\ file[m].seq \in Nat
      BY <1>3
    <3>4. \A w \in V : file[m].seq >= w
      <4> SUFFICES ASSUME NEW k \in S PROVE file[m].seq >= file[k].seq
        BY <3>3
      <4>1. file[k].seq \in Nat /\ file[k].seq <= file[m].seq
        BY <1>3, <3>2
      <4> QED
        BY <3>3, <4>1
    <3> QED
      BY <3>3, <3>4
  <2> QED
    BY <2>1, <2>2
<1>5. Max(V) \in V /\ \A w \in V : Max(V) >= w
  <2> HIDE DEF V
  <2> QED
    BY <1>4 DEF Max
<1> QED
  BY <1>1, <1>2, <1>3, <1>5

\* The number after the last one given is new, and stays the largest.
LEMMA NextIsNew ==
  ASSUME NEW s \in Seq(Record), NEW f \in [RunIds -> Nat \cup {-1}], NEW run \in RunIds,
         Given(s, f)
  PROVE  Older(s, run, f[run] + 1)
<1> SUFFICES ASSUME NEW i \in 1 .. Len(s), s[i].run = run PROVE s[i].seq < f[run] + 1
  BY DEF Older
<1>1. s[i].seq \in Nat
  BY Elements
<1>2. s[i].seq <= f[run]
  BY DEF Given
<1>3. f[run] \in Nat \cup {-1}
  OBVIOUS
<1> QED
  BY <1>1, <1>2, <1>3

LEMMA StillGiven ==
  ASSUME NEW s \in Seq(Record), NEW f \in [RunIds -> Nat \cup {-1}], NEW run \in RunIds,
         Given(s, f)
  PROVE  Given(s, [f EXCEPT ![run] = f[run] + 1])
<1> SUFFICES ASSUME NEW i \in 1 .. Len(s)
             PROVE  s[i].seq <= [f EXCEPT ![run] = f[run] + 1][s[i].run]
  BY DEF Given
<1>1. s[i].seq \in Nat /\ s[i].run \in RunIds
  BY Elements
<1>2. s[i].seq <= f[s[i].run]
  BY DEF Given
<1>3. f[run] \in Nat \cup {-1}
  OBVIOUS
<1> QED
  BY <1>1, <1>2, <1>3

LEMMA GivenAppend ==
  ASSUME NEW s \in Seq(Record), NEW f, NEW e \in Record, Given(s, f), e.seq <= f[e.run]
  PROVE  Given(Append(s, e), f)
<1>1. Len(Append(s, e)) = Len(s) + 1 /\ Append(s, e)[Len(s) + 1] = e
      /\ \A i \in 1 .. Len(s) : Append(s, e)[i] = s[i]
  BY AppendProperties
<1>2. Len(s) \in Nat
  BY LenProperties
<1> QED
  BY <1>1, <1>2 DEF Given

LEMMA GivenDrop ==
  ASSUME NEW s \in Seq(Record), NEW f, Given(s, f), NEW d \in 0 .. Len(s)
  PROVE  Given(SubSeq(s, d + 1, Len(s)), f)
<1> DEFINE t == SubSeq(s, d + 1, Len(s))
<1>1. Len(s) \in Nat
  BY LenProperties
<1>2. Len(t) = Len(s) - d /\ \A i \in 1 .. Len(s) - d : t[i] = s[d + i]
  BY <1>1, SubSeqProperties
<1> QED
  BY <1>1, <1>2 DEF Given

LEMMA BeforeAppend ==
  ASSUME NEW s \in Seq(Record), NEW t \in Seq(Record), NEW e \in Record,
         Before(s, t), Older(s, e.run, e.seq)
  PROVE  Before(s, Append(t, e))
<1>1. Len(Append(t, e)) = Len(t) + 1 /\ Append(t, e)[Len(t) + 1] = e
      /\ \A i \in 1 .. Len(t) : Append(t, e)[i] = t[i]
  BY AppendProperties
<1>2. Len(t) \in Nat
  BY LenProperties
<1> QED
  BY <1>1, <1>2 DEF Before, Older

-----------------------------------------------------------------------------
(* Steps.                                                                  *)

LEMMA Initially == Init => IInv
<1> SUFFICES ASSUME Init PROVE IInv
  OBVIOUS
<1> USE DEF Init
<1>1. TypeOK
  <2>1. seqByRun \in [RunIds -> Nat \cup {-1}]
    OBVIOUS
  <2>2. LogTypeOK
    BY <2>1, FS_EmptySet DEF LogTypeOK, GENESIS
  <2> QED
    BY <2>2 DEF TypeOK
<1>2. ChainInv
  BY DEF ChainInv, Chain, Link, FileHead, GENESIS
<1>3. NumbersInv
  BY DEF NumbersInv, Increasing, Before, Given
<1> QED
  BY <1>1, <1>2, <1>3 DEF IInv

LEMMA AppendStep ==
  ASSUME LogTypeOK, ChainInv, NumbersInv, NEW run \in RunIds, NEW rule \in Rules,
         append(run, rule)
  PROVE  LogTypeOK' /\ ChainInv' /\ NumbersInv'
<1> DEFINE e == Unhashed(run, rule)
           all == Append(events, e)
<1>1. Len(events) \in Nat /\ Len(queue) \in Nat /\ Len(file) \in Nat
  BY LenProperties DEF LogTypeOK
<1>2. Made \in Nat
  BY <1>1, FS_CardinalityType DEF Made, LogTypeOK
<1>3. seqByRun[run] \in Nat \cup {-1}
  BY DEF LogTypeOK
<1>4. e \in Record /\ e.prev = head /\ e.run = run /\ e.seq = seqByRun[run] + 1
      /\ e.id \in Nat
  BY <1>2, <1>3 DEF Unhashed, Record, LogTypeOK
<1>5. /\ server = "up" /\ head' = e.id
      /\ seqByRun' = [seqByRun EXCEPT ![run] = e.seq]
      /\ queue' = Append(queue, e)
      /\ UNCHANGED << disk, server >>
  BY DEF append
<1> HIDE DEF e
<1>6. all \in Seq(Record) /\ Len(all) = Len(events) + 1 /\ all[Len(events) + 1] = e
      /\ \A i \in 1 .. Len(events) : all[i] = events[i]
  BY <1>4, AppendProperties DEF LogTypeOK
<1>7. queue' \in Seq(Record) /\ Len(queue') = Len(queue) + 1 /\ queue'[Len(queue) + 1] = e
      /\ \A i \in 1 .. Len(queue) : queue'[i] = queue[i]
  BY <1>4, <1>5, AppendProperties DEF LogTypeOK
<1>8. PICK d \in 0 .. Len(all) : Prune(all, d)
  <2>1. PICK old \in 0 .. Len(events) : Prune(all, Larger(old, Len(all) - MaxEvents))
    BY DEF append, e
  <2>2. Larger(old, Len(all) - MaxEvents) \in 0 .. Len(all)
    BY <1>1, <1>6 DEF Larger
  <2> QED
    BY <2>1, <2>2
<1> HIDE DEF all
<1>9. events' = SubSeq(all, d + 1, Len(all)) /\ anchor' = Link(all, anchor, d + 1)
  BY <1>1, <1>6, <1>8 DEF Prune, Link
<1>10. events' \in Seq(Record) /\ Len(events') = Len(all) - d
       /\ \A i \in 1 .. Len(all) - d : events'[i] = all[d + i]
  BY <1>1, <1>6, <1>9, SubSeqProperties
<1>11. anchor' \in Nat
  <2>1. CASE d = 0
    BY <2>1, <1>9 DEF Link, LogTypeOK
  <2>2. CASE d # 0
    <3>1. d \in 1 .. Len(all) /\ anchor' = all[d].id
      BY <1>1, <1>6, <1>9, <2>2 DEF Link
    <3> QED
      BY <1>6, <3>1, Elements
  <2> QED
    BY <2>1, <2>2
<1>12. LogTypeOK'
  <2>1. seqByRun' \in [RunIds -> Nat \cup {-1}]
    <3>1. e.seq \in Nat
      BY <1>3, <1>4
    <3> QED
      BY <3>1, <1>5 DEF LogTypeOK
  <2>2. head' \in Nat
    BY <1>4, <1>5
  <2> QED
    BY <2>1, <2>2, <1>5, <1>7, <1>10, <1>11 DEF LogTypeOK, disk
<1>13. ChainInv'
  <2>1. FileHead' = FileHead
    BY <1>5 DEF FileHead, Link, disk, GENESIS
  <2>2. ASSUME failed = {} PROVE Chain(queue', FileHead, head')
    BY <2>2, <1>4, <1>5, ChainAppend DEF ChainInv, LogTypeOK
  <2>3. ASSUME holed = "no" PROVE Chain(events', anchor', head')
    <3>1. Chain(all, anchor, e.id)
      BY <2>3, <1>4, <1>5, ChainAppend DEF ChainInv, LogTypeOK, all
    <3> QED
      BY <3>1, <1>5, <1>6, <1>9, ChainDrop
  <2>4. Chain(file, GENESIS, FileHead)' <=> Chain(file, GENESIS, FileHead)
    BY <2>1, <1>5 DEF Chain, Link, disk, GENESIS
  <2> QED
    BY <2>1, <2>2, <2>3, <2>4, <1>5 DEF ChainInv, disk
<1>14. NumbersInv'
  <2> DEFINE f == seqByRun
             g == [f EXCEPT ![run] = f[run] + 1]
  <2>1. f \in [RunIds -> Nat \cup {-1}] /\ f[run] + 1 \in Nat
    BY <1>3 DEF LogTypeOK
  <2>2. events \in Seq(Record) /\ queue \in Seq(Record) /\ file \in Seq(Record)
    BY DEF LogTypeOK
  <2>3. /\ Increasing(events) /\ Increasing(queue) /\ Increasing(file) /\ Before(file, queue)
        /\ Given(events, f) /\ Given(queue, f) /\ Given(file, f)
    BY <1>5 DEF NumbersInv
  <2>4. seqByRun' = g /\ e.seq <= g[e.run]
    BY <1>3, <1>4, <1>5, <2>1
  <2> HIDE DEF f
  <2>5. Older(events, run, f[run] + 1) /\ Older(queue, run, f[run] + 1)
        /\ Older(file, run, f[run] + 1)
    BY <2>1, <2>2, <2>3, NextIsNew
  <2>6. Older(events, e.run, e.seq) /\ Older(queue, e.run, e.seq) /\ Older(file, e.run, e.seq)
    BY <2>5, <1>4 DEF f
  <2>7. Given(events, g) /\ Given(queue, g) /\ Given(file, g)
    BY <2>1, <2>2, <2>3, StillGiven
  <2> HIDE DEF g
  <2>8. Increasing(all) /\ Increasing(queue')
    BY <2>2, <2>3, <2>6, <1>4, <1>5, IncreasingAppend DEF all
  <2>9. Given(all, g) /\ Given(queue', g)
    BY <2>2, <2>4, <2>7, <1>4, <1>5, GivenAppend DEF all
  <2>10. Increasing(events') /\ Given(events', g)
    BY <2>8, <2>9, <1>6, <1>9, IncreasingDrop, GivenDrop
  <2>11. Before(file, queue')
    BY <2>2, <2>3, <2>6, <1>4, <1>5, BeforeAppend
  <2>12. file' = file
    BY <1>5 DEF disk
  <2> QED
    BY <2>3, <2>4, <2>7, <2>8, <2>9, <2>10, <2>11, <2>12 DEF NumbersInv, Increasing, Before, Given
<1> QED
  BY <1>12, <1>13, <1>14

LEMMA WriteStep ==
  ASSUME LogTypeOK, ChainInv, NumbersInv, Write
  PROVE  LogTypeOK' /\ ChainInv' /\ NumbersInv'
<1> DEFINE e == Head(queue)
<1>1. server = "up" /\ queue # <<>> /\ file' = Append(file, e) /\ queue' = Tail(queue)
      /\ UNCHANGED << events, anchor, head, seqByRun, torn, failed, crashed, holed, troubles,
                      server >>
  BY DEF Write
<1>2. file \in Seq(Record) /\ queue \in Seq(Record) /\ Len(file) \in Nat
  BY LenProperties DEF LogTypeOK
<1>3. /\ e = queue[1] /\ e \in Record /\ Len(queue) \in Nat \ {0}
      /\ Tail(queue) = SubSeq(queue, 2, Len(queue)) /\ Tail(queue) \in Seq(Record)
      /\ Len(Tail(queue)) = Len(queue) - 1
      /\ \A i \in 1 .. Len(queue) - 1 : Tail(queue)[i] = queue[i + 1]
  BY <1>1, <1>2, HeadAndTail
<1> HIDE DEF e
<1>4. file' \in Seq(Record) /\ Len(file') = Len(file) + 1 /\ file'[Len(file) + 1] = e
      /\ \A i \in 1 .. Len(file) : file'[i] = file[i]
  BY <1>1, <1>2, <1>3, AppendProperties
<1>5. LogTypeOK'
  BY <1>1, <1>3, <1>4 DEF LogTypeOK
<1>6. FileHead' = e.id
  BY <1>2, <1>4 DEF FileHead, Link
<1>7. ChainInv'
  <2>1. ASSUME failed = {} PROVE Chain(file', GENESIS, e.id) /\ Chain(queue', e.id, head)
    <3>1. Chain(file, GENESIS, FileHead) /\ Chain(queue, FileHead, head)
      BY <2>1, <1>1 DEF ChainInv
    <3>2. e.prev = FileHead
      BY <3>1, <1>3 DEF Chain, Link
    <3>3. Chain(SubSeq(queue, 1 + 1, Len(queue)), Link(queue, FileHead, 1 + 1), head)
      BY <3>1, <1>2, <1>3, ChainDrop
    <3>4. Link(queue, FileHead, 1 + 1) = e.id
      BY <1>3 DEF Link
    <3>5. file' = Append(file, e) /\ queue' = SubSeq(queue, 1 + 1, Len(queue))
      BY <1>1, <1>3
    <3>6. Chain(Append(file, e), GENESIS, e.id)
      BY <3>1, <3>2, <1>2, <1>3, ChainAppend
    <3> QED
      BY <3>3, <3>4, <3>5, <3>6
  <2>2. ASSUME holed = "no" PROVE Chain(events, anchor, head)'
    BY <2>2, <1>1 DEF ChainInv, Chain, Link
  <2> QED
    BY <2>1, <2>2, <1>1, <1>6 DEF ChainInv, Chain, Link, GENESIS
<1>8. NumbersInv'
  <2>1. Increasing(file) /\ Increasing(queue) /\ Increasing(events) /\ Before(file, queue)
        /\ Given(events, seqByRun) /\ Given(queue, seqByRun) /\ Given(file, seqByRun)
    BY <1>1 DEF NumbersInv
  <2>2. Older(file, e.run, e.seq)
    BY <2>1, <1>3 DEF Before, Older
  <2>3. Increasing(file')
    BY <2>1, <2>2, <1>1, <1>2, <1>3, IncreasingAppend
  <2>4. e.seq <= seqByRun[e.run]
    BY <2>1, <1>3 DEF Given
  <2>5. Given(file', seqByRun)
    BY <2>1, <2>4, <1>1, <1>2, <1>3, GivenAppend
  <2>6. Increasing(queue') /\ Given(queue', seqByRun)
    <3>1. 1 \in 0 .. Len(queue) /\ queue' = SubSeq(queue, 1 + 1, Len(queue))
      BY <1>1, <1>3
    <3> QED
      BY <2>1, <3>1, <1>2, IncreasingDrop, GivenDrop
  <2>7. Before(file', queue')
    <3> SUFFICES ASSUME NEW i \in 1 .. Len(file) + 1, NEW k \in 1 .. Len(queue) - 1,
                        file'[i].run = queue[k + 1].run
                 PROVE  file'[i].seq < queue[k + 1].seq
      BY <1>1, <1>3, <1>4 DEF Before
    <3>1. k + 1 \in 1 .. Len(queue) /\ 1 \in 1 .. Len(queue) /\ 1 < k + 1
      BY <1>3
    <3>2. CASE i = Len(file) + 1
      <4>1. file'[i] = queue[1]
        BY <3>2, <1>3, <1>4
      <4> QED
        BY <4>1, <3>1, <2>1 DEF Increasing
    <3>3. CASE i # Len(file) + 1
      <4>1. i \in 1 .. Len(file) /\ file'[i] = file[i]
        BY <3>3, <1>2, <1>4
      <4> QED
        BY <4>1, <3>1, <2>1 DEF Before
    <3> QED
      BY <3>2, <3>3
  <2> QED
    BY <2>1, <2>3, <2>5, <2>6, <2>7, <1>1 DEF NumbersInv, Increasing, Before, Given
<1> QED
  BY <1>5, <1>7, <1>8

LEMMA WriteFailsStep ==
  ASSUME LogTypeOK, ChainInv, NumbersInv, WriteFails
  PROVE  LogTypeOK' /\ ChainInv' /\ NumbersInv'
<1>1. /\ server = "up" /\ queue # <<>> /\ queue' = Tail(queue) /\ torn' \in {torn, "yes"}
      /\ failed' = failed \cup {Head(queue).id}
      /\ troubles < MaxTroubles /\ troubles' = troubles + 1
      /\ UNCHANGED << events, anchor, head, seqByRun, file, crashed, holed, server >>
  BY DEF WriteFails, Trouble
<1>2. queue \in Seq(Record)
  BY DEF LogTypeOK
<1>3. /\ Head(queue).id \in Nat /\ Len(queue) \in Nat \ {0}
      /\ Tail(queue) = SubSeq(queue, 1 + 1, Len(queue)) /\ Tail(queue) \in Seq(Record)
      /\ Len(Tail(queue)) = Len(queue) - 1
      /\ \A i \in 1 .. Len(queue) - 1 : Tail(queue)[i] = queue[i + 1]
  <2>1. Head(queue) \in Record
    BY <1>1, <1>2, HeadAndTail
  <2>2. Head(queue).id \in Nat
    BY <2>1 DEF Record
  <2> QED
    BY <1>1, <1>2, <2>2, HeadAndTail
<1>4. LogTypeOK'
  <2>1. failed' \subseteq Nat /\ IsFiniteSet(failed')
    BY <1>1, <1>3, FS_AddElement DEF LogTypeOK
  <2>2. troubles' \in 0 .. MaxTroubles
    BY <1>1 DEF LogTypeOK
  <2> QED
    BY <1>1, <1>3, <2>1, <2>2 DEF LogTypeOK
<1>5. ChainInv'
  BY <1>1 DEF ChainInv, Chain, Link
<1>6. NumbersInv'
  <2>1. Increasing(file) /\ Increasing(queue) /\ Increasing(events) /\ Before(file, queue)
        /\ Given(events, seqByRun) /\ Given(queue, seqByRun) /\ Given(file, seqByRun)
    BY <1>1 DEF NumbersInv
  <2>2. Increasing(queue') /\ Given(queue', seqByRun)
    <3>1. 1 \in 0 .. Len(queue)
      BY <1>3
    <3> QED
      BY <2>1, <3>1, <1>1, <1>2, <1>3, IncreasingDrop, GivenDrop
  <2>3. Before(file, queue')
    <3>1. \A k \in 1 .. Len(queue) - 1 : k + 1 \in 1 .. Len(queue)
      BY <1>3
    <3> QED
      BY <2>1, <3>1, <1>1, <1>3 DEF Before
  <2> QED
    BY <2>1, <2>2, <2>3, <1>1 DEF NumbersInv, Increasing, Before, Given
<1> QED
  BY <1>4, <1>5, <1>6

LEMMA CrashStep ==
  ASSUME LogTypeOK, ChainInv, NumbersInv, Crash
  PROVE  LogTypeOK' /\ ChainInv' /\ NumbersInv'
<1>1. /\ server' = "down" /\ events' = <<>> /\ anchor' = GENESIS /\ head' = GENESIS
      /\ seqByRun' = [r \in RunIds |-> -1] /\ queue' = <<>>
      /\ crashed' = crashed \cup Ids(queue) /\ torn' \in {torn, "yes"}
      /\ troubles < MaxTroubles /\ troubles' = troubles + 1
      /\ UNCHANGED << file, failed, holed >>
  BY DEF Crash, Trouble
<1>2. LogTypeOK'
  <2>1. queue \in Seq(Record) /\ Len(queue) \in Nat /\ DOMAIN queue = 1 .. Len(queue)
    BY LenProperties DEF LogTypeOK
  <2>2. Ids(queue) \subseteq Nat
    BY <2>1, Elements DEF Ids
  <2>3. IsFiniteSet(Ids(queue))
    <3>1. IsFiniteSet(1 .. Len(queue))
      BY <2>1, FS_Interval
    <3> DEFINE f == [i \in 1 .. Len(queue) |-> queue[i].id]
    <3>2. f \in Surjection(1 .. Len(queue), Ids(queue))
      BY <2>1 DEF Surjection, Ids
    <3> QED
      BY <3>1, <3>2, FS_Surjection
  <2>4. crashed' \subseteq Nat /\ IsFiniteSet(crashed')
    BY <1>1, <2>2, <2>3, FS_Union DEF LogTypeOK
  <2>5. troubles' \in 0 .. MaxTroubles
    BY <1>1 DEF LogTypeOK
  <2>6. seqByRun' \in [RunIds -> Nat \cup {-1}]
    BY <1>1
  <2> QED
    BY <1>1, <2>4, <2>5, <2>6 DEF LogTypeOK, GENESIS
<1>3. ChainInv' /\ NumbersInv'
  BY <1>1 DEF ChainInv, NumbersInv, Chain, Link, FileHead, Increasing, GENESIS
<1> QED
  BY <1>2, <1>3

LEMMA InitializeStep ==
  ASSUME LogTypeOK, ChainInv, NumbersInv, initialize
  PROVE  LogTypeOK' /\ ChainInv' /\ NumbersInv'
<1>1. /\ server = "down" /\ anchor = GENESIS /\ queue = <<>>
      /\ UNCHANGED << anchor, queue, file, torn, failed, crashed, troubles >>
  BY DEF initialize, ChainInv
<1>2. file \in Seq(Record) /\ Len(file) \in Nat /\ Increasing(file)
  BY LenProperties DEF LogTypeOK, NumbersInv
<1>3. CASE /\ server' = "broken"
           /\ UNCHANGED << events, head, seqByRun, holed >>
  BY <1>1, <1>3 DEF LogTypeOK, ChainInv, NumbersInv, Chain, Link, FileHead, Increasing, GENESIS
<1>4. CASE /\ server' = "up" /\ Restore
           /\ holed' = IF failed = {} THEN "no" ELSE "yes"
  <2>1. events' = file /\ head' = FileHead /\ head' \in Nat
    <3>1. CASE file = <<>>
      BY <1>4, <3>1 DEF Restore, FileHead, Link, GENESIS
    <3>2. CASE file # <<>>
      <4>1. Len(file) \in 1 .. Len(file)
        BY <1>2, <3>2, EmptySeq
      <4>2. file[Len(file)].id \in Nat
        BY <4>1, <1>2, Elements
      <4> QED
        BY <1>2, <1>4, <3>2, <4>1, <4>2 DEF Restore, FileHead, Link, Last
    <3> QED
      BY <3>1, <3>2
  <2>2. seqByRun' \in [RunIds -> Nat \cup {-1}] /\ Given(file, seqByRun')
    <3>1. seqByRun' = [r \in RunIds |-> LastSeq(r)]
      BY <1>4 DEF Restore
    <3>2. \A r \in RunIds : LastSeq(r) \in Nat \cup {-1}
      BY <1>2, LastSeqIs
    <3>3. ASSUME NEW i \in 1 .. Len(file) PROVE file[i].seq <= seqByRun'[file[i].run]
      <4>1. file[i].run \in RunIds
        BY <1>2, Elements
      <4>2. file[i].seq <= LastSeq(file[i].run)
        BY <4>1, <1>2, LastSeqIs
      <4> QED
        BY <3>1, <4>1, <4>2
    <3> QED
      BY <3>1, <3>2, <3>3 DEF Given
  <2>3. LogTypeOK'
    BY <2>1, <2>2, <1>1, <1>4 DEF LogTypeOK
  <2>4. ChainInv'
    <3>1. FileHead' = FileHead
      BY <1>1 DEF FileHead, Link, GENESIS
    <3>2. ASSUME failed = {} PROVE Chain(file, GENESIS, FileHead)
      BY <3>2 DEF ChainInv
    <3>3. Chain(queue, FileHead, FileHead)
      BY <1>1 DEF Chain, Link
    <3> QED
      BY <2>1, <3>1, <3>2, <3>3, <1>1, <1>4 DEF ChainInv, Chain, Link, GENESIS
  <2>5. NumbersInv'
    <3>1. Increasing(queue) /\ Before(file, queue) /\ Given(queue, seqByRun')
      BY <1>1 DEF Increasing, Before, Given
    <3> QED
      BY <2>1, <2>2, <3>1, <1>1, <1>2, <1>4 DEF NumbersInv, Increasing, Before, Given
  <2> QED
    BY <2>3, <2>4, <2>5
<1> QED
  BY <1>3, <1>4 DEF initialize

LEMMA QuietStep ==
  ASSUME LogTypeOK, ChainInv, NumbersInv, UNCHANGED << logVars, disk, server >>
  PROVE  LogTypeOK' /\ ChainInv' /\ NumbersInv'
BY DEF logVars, disk, LogTypeOK, ChainInv, NumbersInv, Chain, Link, FileHead, Increasing, Before,
       Given, GENESIS

RunsOK ==
  /\ at \in [Runs -> {"out", "live", "confined", "stopped", "contained", "over"}]
  /\ flying \in [Runs -> 0 .. MaxCalls]

LEMMA RunsMove ==
  ASSUME RunsOK, [Next]_vars PROVE RunsOK'
<1> USE DEF RunsOK
<1>1. ASSUME NEW r \in Runs, RunStep(r) PROVE RunsOK'
  <2> USE DEF Moves
  <2>1. CASE Refuse(r) \/ Admit(r) \/ Confine(r)
    BY <2>1 DEF Refuse, Admit, Confine
  <2>2. CASE EndUnrecorded(r) \/ Inspect(r) \/ Contain(r) \/ Settle(r)
    BY <2>2 DEF EndUnrecorded, Inspect, Contain, Settle
  <2>3. CASE Forward(r)
    BY <2>3 DEF Forward
  <2>4. CASE NotLive(r)
    BY <2>4 DEF NotLive, runVars
  <2>5. CASE Answered(r) \/ CutOff(r)
    BY <2>5 DEF Answered, CutOff
  <2> QED
    BY <1>1, <2>1, <2>2, <2>3, <2>4, <2>5 DEF RunStep
<1>2. CASE Decide \/ Write \/ WriteFails \/ initialize
  BY <1>2 DEF Decide, Write, WriteFails, initialize, runVars
<1>3. CASE Crash
  BY <1>3 DEF Crash
<1>4. CASE UNCHANGED vars
  BY <1>4 DEF vars, runVars
<1> QED
  BY <1>1, <1>2, <1>3, <1>4 DEF Next

LEMMA LogMoves ==
  ASSUME LogTypeOK, ChainInv, NumbersInv, [Next]_vars
  PROVE  LogTypeOK' /\ ChainInv' /\ NumbersInv'
<1>1. ASSUME NEW r \in Runs, RunStep(r) PROVE LogTypeOK' /\ ChainInv' /\ NumbersInv'
  <2> USE DEF RunIds, Rules
  <2>1. CASE Refuse(r) \/ Admit(r) \/ Confine(r) \/ Contain(r) \/ Settle(r)
    BY <2>1, AppendStep DEF Refuse, Admit, Confine, Contain, Settle
  <2>2. CASE NotLive(r) \/ Answered(r)
    BY <2>2, AppendStep DEF NotLive, Answered
  <2>3. CASE EndUnrecorded(r) \/ Inspect(r) \/ Forward(r) \/ CutOff(r)
    BY <2>3, QuietStep DEF EndUnrecorded, Inspect, Forward, CutOff
  <2> QED
    BY <1>1, <2>1, <2>2, <2>3 DEF RunStep
<1>2. CASE Decide
  BY <1>2, AppendStep DEF Decide, RunIds, Rules
<1>3. CASE UNCHANGED vars
  BY <1>3, QuietStep DEF vars
<1> QED
  BY <1>1, <1>2, <1>3, WriteStep, WriteFailsStep, CrashStep, InitializeStep DEF Next

LEMMA Inductive == IInv /\ [Next]_vars => IInv'
<1>1. TypeOK <=> LogTypeOK /\ RunsOK
  BY DEF TypeOK, RunsOK
<1>2. TypeOK' <=> LogTypeOK' /\ RunsOK'
  BY DEF TypeOK, RunsOK
<1> QED
  BY <1>1, <1>2, LogMoves, RunsMove DEF IInv

LEMMA Always == Spec => []IInv
BY Initially, Inductive, PTL DEF Spec

-----------------------------------------------------------------------------

\* The log, its file and the runs keep their types, for any runs and bounds.
THEOREM AuditIsWellTyped == Spec => []TypeOK
<1>1. IInv => TypeOK
  BY DEF IInv
<1> QED
  BY <1>1, Always, PTL

\* Until memory was read from a file that misses a record whose append had
\* failed, the retained records form a chain from the anchor: whatever the
\* retention prunes, and over every restart (AuditLog.verify).
THEOREM TheChainVerifies == Spec => []ChainVerifies
<1>1. IInv => ChainVerifies
  <2> SUFFICES ASSUME IInv, server = "up", holed = "no" PROVE verify(events, anchor) = -1
    BY DEF ChainVerifies
  <2>1. Chain(events, anchor, head) /\ DOMAIN events = 1 .. Len(events)
    BY LenProperties DEF IInv, ChainInv, TypeOK, LogTypeOK
  <2> QED
    BY <2>1 DEF Chain, Link, verify
<1> QED
  BY <1>1, Always, PTL

\* No two records that are retained have the same number in the same run, and
\* the numbers tell their order: failed appends, crashes and pruning included.
THEOREM NumbersNeverRepeat == Spec => []NumbersDoNotRepeat
<1>1. IInv => NumbersDoNotRepeat
  <2> SUFFICES ASSUME IInv PROVE NumbersDoNotRepeat
    OBVIOUS
  <2>1. events \in Seq(Record) /\ DOMAIN events = 1 .. Len(events)
    BY LenProperties DEF IInv, TypeOK, LogTypeOK
  <2>2. CASE server = "up"
    BY <2>1, <2>2 DEF IInv, NumbersInv, Increasing, NumbersDoNotRepeat
  <2>3. CASE server # "up"
    BY <2>1, <2>3, EmptySeq DEF IInv, ChainInv, NumbersDoNotRepeat
  <2> QED
    BY <2>2, <2>3
<1> QED
  BY <1>1, Always, PTL

\* The log is linked, and in order for each run.
THEOREM TheLogIsSound == Spec => []LogIsSound
<1>1. ChainVerifies /\ NumbersDoNotRepeat => LogIsSound
  BY DEF LogIsSound
<1> QED BY <1>1, TheChainVerifies, NumbersNeverRepeat, PTL

-----------------------------------------------------------------------------
(* What is told of a run.                                                  *)

Records(s) == {s[i] : i \in 1 .. Len(s)}

\* The records of run r, in memory, waiting and on the disk.
Told(r) == {x \in Records(file) \cup Records(queue) \cup Records(events) : x.run = r}

Story(W) ==
  \A x \in W : /\ x.seq = 0 <=> x.rule \in {"admitted", "refused"}
               /\ x.rule = "refused" => \A y \in W : y.seq = 0
               /\ x.rule = "settled" => \A y \in W : y.seq > x.seq => y.rule = "crossing"

\* Run r was admitted.
Going(r) == seqByRun[r] >= 0 /\ \A x \in Told(r) : x.rule # "refused"

\* An admission that is retained is followed by the run's denial.
Answers(r) ==
  \A i \in 1 .. Len(events) : events[i].run = r /\ events[i].rule = "admitted" =>
    \E k \in 1 .. Len(events) : k > i /\ events[k].run = r /\ events[k].rule = "denied"

RunStory(r) ==
  /\ Story(Told(r))
  /\ at[r] = "out" => Told(r) = {} /\ flying[r] = 0 /\ violation[r] = {}
                      /\ (server = "up" => seqByRun[r] = -1)
  /\ Holds(r) => server = "up" /\ Going(r) /\ \A x \in Told(r) : x.rule # "settled"
  /\ flying[r] > 0 => at[r] # "out" /\ Going(r)
  /\ violation[r] # {} => at[r] \in {"stopped", "contained", "over"}
  /\ violation[r] # {} /\ at[r] # "stopped" => Answers(r)
  /\ server # "up" => flying[r] = 0 /\ violation[r] = {}

StoryInv == \A r \in Runs : RunStory(r)

LEMMA StoryShrinks ==
  ASSUME NEW W, NEW V, V \subseteq W, Story(W) PROVE Story(V)
BY DEF Story

LEMMA StoryGrows ==
  ASSUME NEW W \in SUBSET Record, NEW e \in Record, NEW V, V \subseteq W \cup {e}, Story(W),
         \A x \in W : x.seq < e.seq /\ x.rule # "refused",
         e.seq = 0 <=> e.rule \in {"admitted", "refused"},
         e.rule = "refused" => W = {},
         e.rule = "crossing" \/ \A x \in W : x.rule # "settled"
  PROVE  Story(V)
<1>1. \A x \in W \cup {e} : x.seq \in Nat
  BY DEF Record
<1>2. ASSUME NEW x \in W \cup {e}
      PROVE  /\ x.seq = 0 <=> x.rule \in {"admitted", "refused"}
             /\ x.rule = "refused" => \A y \in W \cup {e} : y.seq = 0
             /\ x.rule = "settled" => \A y \in W \cup {e} : y.seq > x.seq => y.rule = "crossing"
  <2>1. CASE x \in W
    BY <2>1, <1>1 DEF Story
  <2>2. CASE x = e
    BY <2>2, <1>1
  <2> QED
    BY <2>1, <2>2
<1>3. Story(W \cup {e})
  BY <1>2 DEF Story
<1> QED
  BY <1>3, StoryShrinks

\* What one more record of a run does to what is told.
Adds(run, rule) ==
  /\ server = "up" /\ server' = "up"
  /\ \E e \in Record :
       /\ e.run = run /\ e.rule = rule /\ e.seq = seqByRun[run] + 1
       /\ \A x \in Told(run) : x.seq < e.seq
       /\ seqByRun' = [seqByRun EXCEPT ![run] = e.seq]
       /\ \A r \in Runs : Told(r)' \subseteq Told(r) \cup {x \in {e} : x.run = r}
  /\ \A r \in Runs : Answers(r) /\ (r # run \/ rule # "admitted") => Answers(r)'
  /\ rule = "denied" /\ run \in Runs => Answers(run)'

LEMMA AppendAdds ==
  ASSUME LogTypeOK, ChainInv, NumbersInv, NEW run \in RunIds, NEW rule \in Rules,
         append(run, rule)
  PROVE  Adds(run, rule)
<1> DEFINE e == Unhashed(run, rule)
           all == Append(events, e)
<1>1. Len(events) \in Nat /\ Len(queue) \in Nat /\ Len(file) \in Nat
  BY LenProperties DEF LogTypeOK
<1>2. Made \in Nat
  BY <1>1, FS_CardinalityType DEF Made, LogTypeOK
<1>3. seqByRun[run] \in Nat \cup {-1}
  BY DEF LogTypeOK
<1>4. e \in Record /\ e.run = run /\ e.seq = seqByRun[run] + 1 /\ e.rule = rule
  BY <1>2, <1>3 DEF Unhashed, Record, LogTypeOK
<1>5. /\ server = "up" /\ server' = "up" /\ file' = file
      /\ seqByRun' = [seqByRun EXCEPT ![run] = e.seq]
      /\ queue' = Append(queue, e)
  BY DEF append, disk
<1>6. PICK d \in 0 .. Len(all) : Prune(all, d)
  <2>1. PICK old \in 0 .. Len(events) : Prune(all, Larger(old, Len(all) - MaxEvents))
    BY DEF append
  <2>2. Len(all) = Len(events) + 1
    BY <1>4, AppendProperties DEF LogTypeOK
  <2>3. Larger(old, Len(all) - MaxEvents) \in 0 .. Len(all)
    BY <1>1, <2>2 DEF Larger
  <2> QED
    BY <2>1, <2>3
<1> HIDE DEF e
<1>7. all \in Seq(Record) /\ Len(all) = Len(events) + 1 /\ all[Len(events) + 1] = e
      /\ \A i \in 1 .. Len(events) : all[i] = events[i]
  BY <1>4, AppendProperties DEF LogTypeOK
<1>8. Len(queue') = Len(queue) + 1 /\ queue'[Len(queue) + 1] = e
      /\ \A i \in 1 .. Len(queue) : queue'[i] = queue[i]
  BY <1>4, <1>5, AppendProperties DEF LogTypeOK
<1> HIDE DEF all
<1>9. Len(events') = Len(all) - d /\ \A i \in 1 .. Len(all) - d : events'[i] = all[d + i]
  BY <1>1, <1>6, <1>7, SubSeqProperties DEF Prune
<1>10. /\ Records(file)' = Records(file)
       /\ Records(queue)' \subseteq Records(queue) \cup {e}
       /\ Records(events)' \subseteq Records(events) \cup {e}
  <2>1. Records(file)' = Records(file)
    BY <1>5 DEF Records
  <2>2. Records(queue)' \subseteq Records(queue) \cup {e}
    <3> SUFFICES ASSUME NEW i \in 1 .. Len(queue) + 1
                 PROVE  queue'[i] \in Records(queue) \cup {e}
      BY <1>8 DEF Records
    <3>1. i = Len(queue) + 1 \/ i \in 1 .. Len(queue)
      BY <1>1
    <3> QED
      BY <3>1, <1>8 DEF Records
  <2>3. Records(events)' \subseteq Records(events) \cup {e}
    <3> SUFFICES ASSUME NEW i \in 1 .. Len(all) - d
                 PROVE  events'[i] \in Records(events) \cup {e}
      BY <1>9 DEF Records
    <3>1. events'[i] = all[d + i] /\ (d + i = Len(events) + 1 \/ d + i \in 1 .. Len(events))
      BY <1>1, <1>7, <1>9
    <3> QED
      BY <3>1, <1>7 DEF Records
  <2> QED
    BY <2>1, <2>2, <2>3
<1>11. \A r \in Runs : Told(r)' \subseteq Told(r) \cup {x \in {e} : x.run = r}
  BY <1>10 DEF Told
<1>12. \A x \in Told(run) : x.seq < e.seq
  <2> SUFFICES ASSUME NEW x \in Told(run) PROVE x.seq < e.seq
    OBVIOUS
  <2>1. Given(events, seqByRun) /\ Given(queue, seqByRun) /\ Given(file, seqByRun)
    BY <1>5 DEF NumbersInv
  <2>2. events \in Seq(Record) /\ queue \in Seq(Record) /\ file \in Seq(Record)
    BY DEF LogTypeOK
  <2>3. x.run = run /\ x.seq \in Nat /\ x.seq <= seqByRun[x.run]
    BY <2>1, <2>2, Elements DEF Told, Records, Given
  <2> QED
    BY <2>3, <1>3, <1>4
<1>13. ASSUME NEW r \in Runs, Answers(r), r # run \/ rule # "admitted" PROVE Answers(r)'
  <2> SUFFICES ASSUME NEW i \in 1 .. Len(all) - d, events'[i].run = r,
                      events'[i].rule = "admitted"
               PROVE  \E k \in 1 .. Len(all) - d :
                        k > i /\ events'[k].run = r /\ events'[k].rule = "denied"
    BY <1>9 DEF Answers
  <2>1. events'[i] = all[d + i] /\ all[d + i] # e
    BY <1>9, <1>4, <1>13
  <2>2. d + i \in 1 .. Len(events) /\ all[d + i] = events[d + i]
    BY <2>1, <1>1, <1>7
  <2>3. PICK k \in 1 .. Len(events) : k > d + i /\ events[k].run = r /\ events[k].rule = "denied"
    BY <2>1, <2>2, <1>13 DEF Answers
  <2>4. k - d \in 1 .. Len(all) - d /\ k - d > i /\ d + (k - d) = k
    BY <2>3, <1>1, <1>7
  <2>5. events'[k - d] = all[k] /\ all[k] = events[k]
    BY <2>4, <1>9, <1>7
  <2> QED
    BY <2>3, <2>4, <2>5
<1>14. ASSUME rule = "denied", run \in Runs PROVE Answers(run)'
  <2> SUFFICES ASSUME NEW i \in 1 .. Len(all) - d, events'[i].run = run,
                      events'[i].rule = "admitted"
               PROVE  \E k \in 1 .. Len(all) - d :
                        k > i /\ events'[k].run = run /\ events'[k].rule = "denied"
    BY <1>9 DEF Answers
  <2>1. events'[i] = all[d + i] /\ all[d + i] # e
    BY <1>9, <1>4, <1>14
  <2>2. d + i \in 1 .. Len(events)
    BY <2>1, <1>1, <1>7
  <2> DEFINE k == Len(events) + 1 - d
  <2>3. k \in 1 .. Len(all) - d /\ k > i /\ d + k = Len(events) + 1
    BY <2>2, <1>1, <1>7
  <2>4. events'[k] = e
    BY <2>3, <1>7, <1>9
  <2> QED
    BY <2>3, <2>4, <1>4, <1>14
<1> QED
  BY <1>4, <1>5, <1>11, <1>12, <1>13, <1>14 DEF Adds

LEMMA ToldAreRecords ==
  ASSUME LogTypeOK, NEW r \in Runs PROVE Told(r) \in SUBSET Record
<1>1. events \in Seq(Record) /\ queue \in Seq(Record) /\ file \in Seq(Record)
  BY DEF LogTypeOK
<1> QED
  BY <1>1, Elements DEF Told, Records

\* The run stays where it is and nothing is told of it that was not.
Rests(r) ==
  /\ at'[r] = at[r] /\ violation'[r] = violation[r] /\ flying'[r] = flying[r]
  /\ Told(r)' \subseteq Told(r) /\ seqByRun'[r] = seqByRun[r] /\ server' = server
  /\ Answers(r) => Answers(r)'

LEMMA RestsStep ==
  ASSUME NEW r \in Runs, RunStory(r), Rests(r) PROVE RunStory(r)'
<1>1. Story(Told(r))'
  <2>1. Story(Told(r)')
    BY StoryShrinks DEF RunStory, Rests
  <2> QED
    BY <2>1 DEF Story
<1> QED
  BY <1>1 DEF RunStory, Rests, Holds, Going

\* One more record is nothing to the other runs.
LEMMA OthersRest ==
  ASSUME LogTypeOK, NEW run \in RunIds, NEW rule \in Rules, Adds(run, rule), NEW r \in Runs, r # run,
         at'[r] = at[r], violation'[r] = violation[r], flying'[r] = flying[r]
  PROVE  Rests(r)
<1>1. PICK e \in Record :
        /\ e.run = run
        /\ seqByRun' = [seqByRun EXCEPT ![run] = e.seq]
        /\ \A q \in Runs : Told(q)' \subseteq Told(q) \cup {x \in {e} : x.run = q}
  BY DEF Adds
<1>2. Told(r)' \subseteq Told(r)
  BY <1>1
<1>3. seqByRun'[r] = seqByRun[r]
  BY <1>1 DEF LogTypeOK, RunIds
<1> QED
  BY <1>2, <1>3 DEF Adds, Rests

\* The first record of a run.
LEMMA FirstRecord ==
  ASSUME LogTypeOK, NEW r \in Runs, RunStory(r), at[r] = "out",
         NEW rule \in {"admitted", "refused"}, Adds(r, rule)
  PROVE  /\ Story(Told(r))' /\ seqByRun'[r] = 0
         /\ \A x \in Told(r)' : x.rule = rule
<1>1. PICK e \in Record :
        /\ e.run = r /\ e.rule = rule /\ e.seq = seqByRun[r] + 1
        /\ seqByRun' = [seqByRun EXCEPT ![r] = e.seq]
        /\ \A q \in Runs : Told(q)' \subseteq Told(q) \cup {x \in {e} : x.run = q}
  BY DEF Adds
<1>2. Told(r) = {} /\ seqByRun[r] = -1
  BY DEF RunStory, Adds
<1>3. e.seq = 0 /\ Told(r)' \subseteq {e}
  BY <1>1, <1>2
<1>4. Story(Told(r)')
  BY <1>1, <1>3 DEF Story
<1>5. seqByRun'[r] = 0
  BY <1>1, <1>3 DEF LogTypeOK, RunIds
<1> QED
  BY <1>1, <1>3, <1>4, <1>5 DEF Story

\* A further one.
LEMMA FurtherRecord ==
  ASSUME LogTypeOK, NEW r \in Runs, RunStory(r), Going(r),
         NEW rule \in Rules \ {"admitted", "refused"}, Adds(r, rule),
         rule = "crossing" \/ \A x \in Told(r) : x.rule # "settled"
  PROVE  /\ Story(Told(r))' /\ Going(r)'
         /\ \A x \in Told(r)' : x \in Told(r) \/ x.rule = rule
<1>1. PICK e \in Record :
        /\ e.run = r /\ e.rule = rule /\ e.seq = seqByRun[r] + 1
        /\ \A x \in Told(r) : x.seq < e.seq
        /\ seqByRun' = [seqByRun EXCEPT ![r] = e.seq]
        /\ \A q \in Runs : Told(q)' \subseteq Told(q) \cup {x \in {e} : x.run = q}
  BY DEF Adds
<1>2. Told(r)' \subseteq Told(r) \cup {e}
  BY <1>1
<1>3. seqByRun[r] \in Nat \cup {-1} /\ seqByRun[r] >= 0
  BY DEF LogTypeOK, RunIds, Going
<1>4. e.seq # 0 /\ e.seq >= 0
  BY <1>1, <1>3
<1>5. Told(r) \in SUBSET Record /\ Story(Told(r)) /\ \A x \in Told(r) : x.rule # "refused"
  BY ToldAreRecords DEF RunStory, Going
<1>6. Story(Told(r)')
  <2>1. \A x \in Told(r) : x.seq < e.seq /\ x.rule # "refused"
    BY <1>1, <1>5
  <2>2. e.seq = 0 <=> e.rule \in {"admitted", "refused"}
    BY <1>1, <1>4
  <2>3. e.rule # "refused"
    BY <1>1
  <2>4. e.rule = "crossing" \/ \A x \in Told(r) : x.rule # "settled"
    BY <1>1
  <2> QED
    BY <2>1, <2>2, <2>3, <2>4, <1>2, <1>5, StoryGrows
<1>7. seqByRun'[r] >= 0
  BY <1>1, <1>4 DEF LogTypeOK, RunIds
<1>8. \A x \in Told(r)' : x.rule # "refused"
  BY <1>1, <1>2, <1>5
<1> QED
  BY <1>1, <1>2, <1>6, <1>7, <1>8 DEF Going, Story

LEMMA BeginStep ==
  ASSUME LogTypeOK, ChainInv, NumbersInv, RunsOK, StoryInv, NEW r \in Runs, Refuse(r) \/ Admit(r)
  PROVE  StoryInv'
<1>1. PICK rule \in {"admitted", "refused"} :
        /\ at[r] = "out" /\ at' = [at EXCEPT ![r] = IF rule = "admitted" THEN "live" ELSE "over"]
        /\ append(r, rule) /\ UNCHANGED << violation, flying >>
  BY DEF Refuse, Admit, Moves
<1>2. Adds(r, rule)
  BY <1>1, AppendAdds DEF RunIds, Rules
<1>3. ASSUME NEW q \in Runs, q # r PROVE RunStory(q)'
  BY <1>1, <1>2, <1>3, OthersRest, RestsStep DEF StoryInv, RunIds, Rules
<1>4. RunStory(r)'
  <2>1. RunStory(r) /\ flying[r] = 0 /\ violation[r] = {}
    BY <1>1 DEF StoryInv, RunStory
  <2>2. Story(Told(r))' /\ seqByRun'[r] = 0 /\ \A x \in Told(r)' : x.rule = rule
    BY <1>1, <1>2, <2>1, FirstRecord
  <2>3. at'[r] = IF rule = "admitted" THEN "live" ELSE "over"
    BY <1>1 DEF RunsOK
  <2>4. flying'[r] = 0 /\ violation'[r] = {} /\ server' = "up"
    BY <1>1, <1>2, <2>1 DEF Adds
  <2> QED
    BY <2>2, <2>3, <2>4 DEF RunStory, Holds, Going
<1> QED
  BY <1>3, <1>4 DEF StoryInv

LEMMA GoOnStep ==
  ASSUME LogTypeOK, ChainInv, NumbersInv, RunsOK, StoryInv, NEW r \in Runs,
         Confine(r) \/ Contain(r) \/ Settle(r)
  PROVE  StoryInv'
<1>1. PICK rule \in {"confined", "denied", "settled"}, to \in {"confined", "contained", "over"} :
        /\ Holds(r) /\ at' = [at EXCEPT ![r] = to]
        /\ rule = "settled" <=> to = "over"
        /\ rule = "denied" <=> to = "contained"
        /\ rule # "denied" => at[r] # "stopped"
        /\ at[r] = "contained" => to = "over"
        /\ append(r, rule) /\ UNCHANGED << violation, flying >>
  BY DEF Confine, Contain, Settle, Moves, Holds
<1>2. Adds(r, rule)
  BY <1>1, AppendAdds DEF RunIds, Rules
<1>3. ASSUME NEW q \in Runs, q # r PROVE RunStory(q)'
  BY <1>1, <1>2, <1>3, OthersRest, RestsStep DEF StoryInv, RunIds, Rules
<1>4. RunStory(r)'
  <2>1. RunStory(r) /\ Going(r) /\ \A x \in Told(r) : x.rule # "settled"
    BY <1>1 DEF StoryInv, RunStory
  <2>2. Story(Told(r))' /\ Going(r)' /\ \A x \in Told(r)' : x \in Told(r) \/ x.rule = rule
    BY <1>1, <1>2, <2>1, FurtherRecord DEF Rules
  <2>3. at'[r] = to /\ flying'[r] = flying[r] /\ violation'[r] = violation[r] /\ server' = "up"
    BY <1>1, <1>2 DEF RunsOK, Adds
  <2>4. violation[r] # {} => Answers(r)'
    <3>1. CASE rule = "denied"
      BY <3>1, <1>2 DEF Adds
    <3>2. CASE rule # "denied"
      BY <3>2, <1>1, <1>2, <2>1 DEF Adds, RunStory
    <3> QED
      BY <3>1, <3>2
  <2>5. violation[r] # {} => to # "confined"
    BY <1>1, <2>1 DEF RunStory, Holds
  <2>6. to # "over" => \A x \in Told(r)' : x.rule # "settled"
    BY <1>1, <2>1, <2>2
  <2> QED
    BY <2>2, <2>3, <2>4, <2>5, <2>6 DEF RunStory, Holds
<1> QED
  BY <1>3, <1>4 DEF StoryInv

LEMMA AnsweredStep ==
  ASSUME LogTypeOK, ChainInv, NumbersInv, RunsOK, StoryInv, NEW r \in Runs, Answered(r)
  PROVE  StoryInv'
<1>1. /\ flying[r] > 0 /\ flying' = [flying EXCEPT ![r] = flying[r] - 1]
      /\ append(r, "crossing") /\ UNCHANGED << at, violation >>
  BY DEF Answered
<1>2. Adds(r, "crossing")
  BY <1>1, AppendAdds DEF RunIds, Rules
<1>3. ASSUME NEW q \in Runs, q # r PROVE RunStory(q)'
  <2>1. flying'[q] = flying[q]
    BY <1>1, <1>3 DEF RunsOK
  <2> QED
    BY <2>1, <1>1, <1>2, <1>3, OthersRest, RestsStep DEF StoryInv, RunIds, Rules
<1>4. RunStory(r)'
  <2>1. RunStory(r) /\ Going(r) /\ at[r] # "out"
    BY <1>1 DEF StoryInv, RunStory
  <2>2. Story(Told(r))' /\ Going(r)' /\ \A x \in Told(r)' : x \in Told(r) \/ x.rule = "crossing"
    BY <1>2, <2>1, FurtherRecord DEF Rules
  <2>3. server' = "up" /\ (Answers(r) => Answers(r)')
    BY <1>2 DEF Adds
  <2>4. (\A x \in Told(r) : x.rule # "settled") => \A x \in Told(r)' : x.rule # "settled"
    BY <2>2
  <2> QED
    BY <1>1, <2>1, <2>2, <2>3, <2>4 DEF RunStory, Holds
<1> QED
  BY <1>3, <1>4 DEF StoryInv

ViolationsOK == DOMAIN violation = Runs

LEMMA ViolationsStep == ViolationsOK /\ [Next]_vars => ViolationsOK'
<1> SUFFICES ASSUME ViolationsOK, [Next]_vars PROVE ViolationsOK'
  OBVIOUS
<1> USE DEF ViolationsOK
<1>1. ASSUME NEW r \in Runs, RunStep(r) PROVE ViolationsOK'
  BY <1>1 DEF RunStep, Refuse, Admit, Confine, EndUnrecorded, Inspect, Contain, Settle, Forward,
              NotLive, Answered, CutOff, runVars
<1>2. CASE Decide \/ Write \/ WriteFails \/ initialize
  BY <1>2 DEF Decide, Write, WriteFails, initialize, runVars
<1>3. CASE Crash
  BY <1>3 DEF Crash
<1>4. CASE UNCHANGED vars
  BY <1>4 DEF vars, runVars
<1> QED
  BY <1>1, <1>2, <1>3, <1>4 DEF Next

\* Records of no run are nothing to any.
LEMMA NobodysStep ==
  ASSUME LogTypeOK, ChainInv, NumbersInv, StoryInv, NEW rule \in Rules, append(NoRun, rule),
         UNCHANGED runVars
  PROVE  StoryInv'
<1>1. Adds(NoRun, rule)
  BY AppendAdds DEF RunIds
<1>2. \A q \in Runs : q # NoRun
  OBVIOUS
<1>3. ASSUME NEW q \in Runs PROVE RunStory(q)'
  BY <1>1, <1>2, OthersRest, RestsStep DEF StoryInv, RunIds, runVars
<1> QED
  BY <1>3 DEF StoryInv

\* Steps that write no record.
LEMMA SilentStep ==
  ASSUME LogTypeOK, RunsOK, ViolationsOK, StoryInv, NEW r \in Runs,
         EndUnrecorded(r) \/ Inspect(r) \/ Forward(r) \/ CutOff(r)
  PROVE  StoryInv'
<1>1. UNCHANGED << logVars, disk, server >>
  BY DEF EndUnrecorded, Inspect, Forward, CutOff
<1>2. \A q \in Runs : /\ Told(q)' = Told(q) /\ (Answers(q) => Answers(q)')
                      /\ seqByRun'[q] = seqByRun[q]
  BY <1>1 DEF logVars, disk, Told, Records, Answers
<1>3. ASSUME NEW q \in Runs, q # r PROVE RunStory(q)'
  <2>1. at'[q] = at[q] /\ violation'[q] = violation[q] /\ flying'[q] = flying[q]
    BY <1>3 DEF EndUnrecorded, Inspect, Forward, CutOff, Moves, RunsOK, ViolationsOK
  <2> QED
    BY <2>1, <1>1, <1>2, RestsStep DEF StoryInv, Rests
<1>4. RunStory(r)'
  <2>1. RunStory(r) /\ Told(r)' = Told(r) /\ (Answers(r) => Answers(r)')
        /\ seqByRun'[r] = seqByRun[r] /\ server' = server
    BY <1>1, <1>2 DEF StoryInv
  <2>2. Story(Told(r))' /\ (Going(r) => Going(r)')
    BY <2>1 DEF RunStory, Story, Going
  <2>3. CASE EndUnrecorded(r)
    <3>1. /\ at[r] \in {"live", "confined", "contained"} /\ at'[r] = "over"
          /\ violation' = violation /\ flying' = flying
      BY <2>3 DEF EndUnrecorded, Moves, RunsOK
    <3> QED
      BY <2>1, <2>2, <3>1 DEF RunStory, Holds
  <2>4. CASE Inspect(r)
    <3>1. /\ at[r] \in {"live", "confined"} /\ at'[r] = "stopped" /\ flying' = flying
      BY <2>4 DEF Inspect, Moves, RunsOK
    <3> QED
      BY <2>1, <2>2, <3>1 DEF RunStory, Holds
  <2>5. CASE Forward(r)
    <3>1. Holds(r) /\ at' = at /\ violation' = violation
      BY <2>5 DEF Forward
    <3> QED
      BY <2>1, <2>2, <3>1 DEF RunStory, Holds
  <2>6. CASE CutOff(r)
    <3>1. flying[r] > 0 /\ at' = at /\ violation' = violation
      BY <2>6 DEF CutOff
    <3> QED
      BY <2>1, <2>2, <3>1 DEF RunStory, Holds
  <2> QED
    BY <2>3, <2>4, <2>5, <2>6
<1> QED
  BY <1>3, <1>4 DEF StoryInv

\* An append of the queue, whether it succeeds or not.
LEMMA WriteTells ==
  ASSUME LogTypeOK, StoryInv, Write \/ WriteFails PROVE StoryInv'
<1>1. /\ queue # <<>> /\ queue' = Tail(queue)
      /\ file' = Append(file, Head(queue)) \/ file' = file
      /\ UNCHANGED << events, seqByRun, server, runVars >>
  BY DEF Write, WriteFails
<1>2. queue \in Seq(Record) /\ file \in Seq(Record) /\ Len(file) \in Nat
  BY LenProperties DEF LogTypeOK
<1>3. /\ Head(queue) = queue[1] /\ Head(queue) \in Record /\ Len(queue) \in Nat \ {0}
      /\ Len(Tail(queue)) = Len(queue) - 1
      /\ \A i \in 1 .. Len(queue) - 1 : Tail(queue)[i] = queue[i + 1]
  BY <1>1, <1>2, HeadAndTail
<1>4. Records(queue)' \subseteq Records(queue)
  <2> SUFFICES ASSUME NEW i \in 1 .. Len(queue) - 1 PROVE queue[i + 1] \in Records(queue)
    BY <1>1, <1>3 DEF Records
  <2> QED
    BY <1>3 DEF Records
<1>5. Records(file)' \subseteq Records(file) \cup Records(queue)
  <2>1. CASE file' = file
    BY <2>1 DEF Records
  <2>2. CASE file' = Append(file, Head(queue))
    <3>1. Len(file') = Len(file) + 1 /\ file'[Len(file) + 1] = queue[1]
          /\ \A i \in 1 .. Len(file) : file'[i] = file[i]
      BY <2>2, <1>2, <1>3, AppendProperties
    <3> SUFFICES ASSUME NEW i \in 1 .. Len(file) + 1
                 PROVE  file'[i] \in Records(file) \cup Records(queue)
      BY <3>1 DEF Records
    <3>2. i = Len(file) + 1 \/ i \in 1 .. Len(file)
      BY <1>2
    <3> QED
      BY <3>1, <3>2, <1>3 DEF Records
  <2> QED
    BY <1>1, <2>1, <2>2
<1>6. Records(events)' = Records(events)
  BY <1>1 DEF Records
<1>7. ASSUME NEW q \in Runs PROVE RunStory(q)'
  <2>1. Told(q)' \subseteq Told(q)
    BY <1>4, <1>5, <1>6 DEF Told
  <2>2. Answers(q) => Answers(q)'
    BY <1>1 DEF Answers
  <2> QED
    BY <1>1, <2>1, <2>2, RestsStep DEF StoryInv, Rests, runVars
<1> QED
  BY <1>7 DEF StoryInv

LEMMA CrashTells ==
  ASSUME LogTypeOK, RunsOK, StoryInv, Crash PROVE StoryInv'
<1>1. /\ server' = "down" /\ events' = <<>> /\ queue' = <<>> /\ file' = file
      /\ at' = [r \in Runs |-> IF at[r] = "out" THEN "out" ELSE "over"]
      /\ violation' = [r \in Runs |-> {}] /\ flying' = [r \in Runs |-> 0]
  BY DEF Crash
<1>2. Records(events)' = {} /\ Records(queue)' = {} /\ Records(file)' = Records(file)
  BY <1>1 DEF Records
<1>3. ASSUME NEW q \in Runs PROVE RunStory(q)'
  <2>1. RunStory(q) /\ Told(q)' \subseteq Told(q)
    BY <1>2 DEF StoryInv, Told
  <2>2. Story(Told(q)')
    BY <2>1, StoryShrinks DEF RunStory
  <2>3. Story(Told(q))'
    BY <2>2 DEF Story
  <2>4. at'[q] \in {"out", "over"} /\ (at'[q] = "out" => at[q] = "out")
        /\ flying'[q] = 0 /\ violation'[q] = {}
    BY <1>1
  <2> QED
    BY <1>1, <2>1, <2>3, <2>4 DEF RunStory, Holds
<1> QED
  BY <1>3 DEF StoryInv

LEMMA InitializeTells ==
  ASSUME LogTypeOK, ChainInv, NumbersInv, StoryInv, initialize PROVE StoryInv'
<1>1. server = "down" /\ queue = <<>> /\ events = <<>> /\ UNCHANGED << queue, file, runVars >>
  BY DEF initialize, ChainInv
<1>2. Records(queue)' = Records(queue) /\ Records(file)' = Records(file)
  BY <1>1 DEF Records
<1>3. events' = events \/ events' = file
  BY DEF initialize, Restore
<1>4. Records(events)' \subseteq Records(events) \cup Records(file)
  BY <1>3 DEF Records
<1>5. \A q \in Runs : Told(q)' \subseteq Told(q)
  BY <1>2, <1>4 DEF Told
<1>6. ASSUME NEW q \in Runs PROVE RunStory(q)'
  <2>1. RunStory(q)
    BY DEF StoryInv
  <2>2. Story(Told(q)')
    BY <2>1, <1>5, StoryShrinks DEF RunStory
  <2>3. Story(Told(q))'
    BY <2>2 DEF Story
  <2>4. ~Holds(q) /\ flying[q] = 0 /\ violation[q] = {}
    BY <2>1, <1>1 DEF RunStory
  <2>5. ASSUME at[q] = "out", server' = "up" PROVE seqByRun'[q] = -1
    <3>1. DOMAIN file = 1 .. Len(file)
      BY LenProperties DEF LogTypeOK
    <3>2. {k \in DOMAIN file : file[k].run = q} = {}
      BY <3>1, <2>1, <2>5 DEF RunStory, Told, Records
    <3>3. LastSeq(q) = Max({-1})
      BY <3>2 DEF LastSeq
    <3>4. Max({-1}) = -1
      BY DEF Max
    <3>5. seqByRun' = [r \in RunIds |-> LastSeq(r)]
      BY <2>5 DEF initialize, Restore
    <3> QED
      BY <3>3, <3>4, <3>5 DEF RunIds
  <2>6. Told(q) = {} => Told(q)' = {}
    BY <1>5
  <2> QED
    BY <2>1, <2>3, <2>4, <2>5, <2>6, <1>1 DEF RunStory, Holds, runVars
<1> QED
  BY <1>6 DEF StoryInv

LEMMA StoryMoves ==
  ASSUME IInv, ViolationsOK, StoryInv, [Next]_vars PROVE StoryInv'
<1>1. LogTypeOK /\ RunsOK /\ ChainInv /\ NumbersInv
  BY DEF IInv, TypeOK, RunsOK
<1>2. ASSUME NEW r \in Runs, RunStep(r) PROVE StoryInv'
  <2>1. CASE Refuse(r) \/ Admit(r)
    BY <2>1, <1>1, BeginStep
  <2>2. CASE Confine(r) \/ Contain(r) \/ Settle(r)
    BY <2>2, <1>1, GoOnStep
  <2>3. CASE EndUnrecorded(r) \/ Inspect(r) \/ Forward(r) \/ CutOff(r)
    BY <2>3, <1>1, SilentStep
  <2>4. CASE NotLive(r)
    BY <2>4, <1>1, NobodysStep DEF NotLive, Rules
  <2>5. CASE Answered(r)
    BY <2>5, <1>1, AnsweredStep
  <2> QED
    BY <1>2, <2>1, <2>2, <2>3, <2>4, <2>5 DEF RunStep
<1>3. CASE Decide
  BY <1>3, <1>1, NobodysStep DEF Decide, Rules
<1>4. CASE Write \/ WriteFails
  BY <1>4, <1>1, WriteTells
<1>5. CASE Crash
  BY <1>5, <1>1, CrashTells
<1>6. CASE initialize
  BY <1>6, <1>1, InitializeTells
<1>7. CASE UNCHANGED vars
  <2>1. \A q \in Runs : Rests(q)
    BY <1>7 DEF vars, logVars, disk, runVars, Rests, Told, Records, Answers
  <2> QED
    BY <2>1, RestsStep DEF StoryInv
<1> QED
  BY <1>2, <1>3, <1>4, <1>5, <1>6, <1>7 DEF Next

LEMMA StoryInitially == Init => ViolationsOK /\ StoryInv
<1> SUFFICES ASSUME Init PROVE ViolationsOK /\ StoryInv
  OBVIOUS
<1>1. ASSUME NEW r \in Runs PROVE RunStory(r)
  <2>1. Told(r) = {}
    BY DEF Init, Told, Records
  <2>2. r \in RunIds
    BY DEF RunIds
  <2> QED
    BY <2>1, <2>2 DEF Init, RunStory, Story, Holds
<1> QED
  BY <1>1 DEF StoryInv, ViolationsOK, Init

\* What is retained of a run tells its story: however many records the
\* retention drops, appends fail or crashes lose, a record has number 0 exactly
\* when it admits or refuses its run; a refusal is a run's only record; after a
\* settlement come crossings only; and a run that was stopped is not shown
\* admitted and settled without its denial (guarded-runner.ts, broker.ts).
THEOREM RecordsTellWhatHappened == Spec => []RecordsTellTheRun
<1>1. IInv /\ StoryInv => RecordsTellTheRun
  <2> SUFFICES ASSUME IInv, StoryInv, NEW r \in Runs
               PROVE  LET mine  == {i \in DOMAIN events : events[i].run = r}
                          At(rules) == {i \in mine : events[i].rule \in rules}
                      IN  /\ \A i \in mine :
                               events[i].seq = 0 <=> events[i].rule \in {"admitted", "refused"}
                          /\ \A i \in At({"refused"}) : mine = {i}
                          /\ \A i \in At({"settled"}), k \in mine :
                               k > i => events[k].rule = "crossing"
                          /\ violation[r] # {} /\ At({"settled"}) # {} /\ At({"admitted"}) # {}
                               => At({"denied"}) # {}
    BY DEF RecordsTellTheRun
  <2> DEFINE mine == {i \in DOMAIN events : events[i].run = r}
  <2>1. events \in Seq(Record) /\ DOMAIN events = 1 .. Len(events) /\ Len(events) \in Nat
    BY LenProperties DEF IInv, TypeOK, LogTypeOK
  <2>2. RunStory(r) /\ Increasing(events)
    <3>1. CASE server = "up"
      BY <3>1 DEF IInv, NumbersInv, StoryInv
    <3>2. CASE server # "up"
      BY <3>2 DEF IInv, ChainInv, StoryInv, Increasing
    <3> QED
      BY <3>1, <3>2
  <2>3. \A i \in mine : i \in 1 .. Len(events) /\ events[i] \in Told(r) /\ events[i].seq \in Nat
    BY <2>1, Elements DEF Told, Records
  <2>4. Story(Told(r))
    BY <2>2 DEF RunStory
  <2>5. \A i, k \in mine : i < k => events[i].seq < events[k].seq
    BY <2>2, <2>3 DEF Increasing
  <2>6. \A i \in mine : events[i].seq = 0 <=> events[i].rule \in {"admitted", "refused"}
    BY <2>3, <2>4 DEF Story
  <2>7. ASSUME NEW i \in mine, events[i].rule = "refused" PROVE mine = {i}
    <3>1. \A k \in mine : events[k].seq = 0
      BY <2>3, <2>4, <2>7 DEF Story
    <3>2. \A k \in mine : ~(i < k) /\ ~(k < i)
      BY <3>1, <2>5
    <3>3. \A k \in mine : k = i
      BY <3>2, <2>3
    <3> QED
      BY <3>3
  <2>8. ASSUME NEW i \in mine, NEW k \in mine, events[i].rule = "settled", k > i
        PROVE  events[k].rule = "crossing"
    <3>1. events[k].seq > events[i].seq
      BY <2>3, <2>5, <2>8
    <3> QED
      BY <3>1, <2>3, <2>4, <2>8 DEF Story
  <2>9. ASSUME violation[r] # {}, NEW i \in mine, events[i].rule = "settled",
               NEW k \in mine, events[k].rule = "admitted"
        PROVE  \E m \in mine : events[m].rule = "denied"
    <3>1. at[r] # "stopped"
      BY <2>2, <2>3, <2>9 DEF RunStory, Holds
    <3>2. Answers(r)
      BY <3>1, <2>2, <2>9 DEF RunStory
    <3> QED
      BY <3>2, <2>1, <2>9 DEF Answers
  <2> QED
    BY <2>6, <2>7, <2>8, <2>9
<1>2. Spec => []StoryInv
  <2>1. ViolationsOK /\ StoryInv /\ IInv /\ [Next]_vars => (ViolationsOK /\ StoryInv)'
    BY ViolationsStep, StoryMoves
  <2> QED
    BY <2>1, StoryInitially, Always, PTL DEF Spec
<1> QED
  BY <1>1, <1>2, Always, PTL

-----------------------------------------------------------------------------
(***************************************************************************)
(* The decisions of the policy. evaluate folds the rules from left to      *)
(* right; what the fold keeps after the rules at any set of places says    *)
(* which of them stop it, and whether one of them allows (Tells).           *)
(***************************************************************************)
\* What holds of 0 and passes from each number to the next holds of all.
LEMMA Induction ==
  ASSUME NEW N, 0 \in N, \A n \in Nat : n \in N => n + 1 \in N
  PROVE  Nat \subseteq N
<1> DEFINE T == Nat \ N
<1> SUFFICES ASSUME T # {} PROVE FALSE
  OBVIOUS
<1>1. IsWellFoundedOn({q \in Nat \X Nat : q[1] < q[2]}, Nat)
  BY NatLessThanWellFounded DEF OpToRel
<1>2. \E t \in T : \A u \in T : ~(<< u, t >> \in {q \in Nat \X Nat : q[1] < q[2]})
  <2>1. T \subseteq Nat /\ T # {}
    OBVIOUS
  <2> HIDE DEF T
  <2> QED BY ONLY <2>1, <1>1, WFMin
<1>3. PICK t \in T : \A u \in T : ~(u < t)
  BY <1>2
<1>4. t # 0 /\ t \in Nat
  BY <1>3
<1>5. t - 1 \in Nat /\ t - 1 \notin T
  BY <1>3, <1>4
<1>6. t - 1 \in N /\ (t - 1) + 1 = t
  BY <1>4, <1>5
<1>7. t \in N
  BY <1>5, <1>6
<1> QED BY <1>3, <1>7

LEMMA WithoutLargest ==
  ASSUME NEW n \in Nat, NEW s \in SUBSET (1 .. n + 1), s # {}
  PROVE  Max(s) \in s /\ s \ {Max(s)} \in SUBSET (1 .. n)
<1>0. \E m \in s : \A k \in s : k <= m
  <2> DEFINE last == n + 1
  <2>1. last \in Nat /\ s \in SUBSET (1 .. last)
    OBVIOUS
  <2> HIDE DEF last
  <2> QED BY <2>1, LargestExists
<1>1. \E m \in s : \A k \in s : m >= k
  <2>1. \A m, k \in s : k <= m => m >= k
    OBVIOUS
  <2> QED BY <1>0, <2>1
<1>2. Max(s) \in s /\ \A k \in s : Max(s) >= k
  BY <1>1 DEF Max
<1>3. ASSUME NEW k \in s, k # Max(s) PROVE k \in 1 .. n
  <2>1. k \in 1 .. n + 1 /\ Max(s) \in 1 .. n + 1 /\ Max(s) >= k
    BY <1>2
  <2> DEFINE m == Max(s)
  <2> HIDE DEF m
  <2>2. m \in 1 .. n + 1 /\ m >= k /\ k # m
    BY <1>3, <2>1 DEF m
  <2> QED BY <2>1, <2>2
<1> QED BY <1>2, <1>3

\* One turn of evaluate's loop, of a rule of any gate.
Turn(rules, gate, done, i) == IF rules[i].gate = gate THEN Consider(done, rules[i]) ELSE done

AtFirstOf == [over |-> FALSE, allow |-> {}]

\* f has what evaluate keeps after the rules at each set of places.
Keeps(rules, gate, f) ==
  f = [s \in SUBSET DOMAIN rules |->
         IF s = {} THEN AtFirstOf ELSE Turn(rules, gate, f[s \ {Max(s)}], Max(s))]

LEMMA EvaluateIs ==
  ASSUME NEW rules, NEW gate
  PROVE  evaluate(rules, gate) =
           LET done == (CHOOSE f : Keeps(rules, gate, f))[DOMAIN rules]
           IN  IF done.allow = {} THEN DefaultDeny ELSE CHOOSE v \in done.allow : TRUE
BY DEF evaluate, FoldLeft, MapThenFoldSet, Keeps, Turn, AtFirstOf

LEMMA KeepsExists ==
  ASSUME NEW n \in Nat, NEW rules, DOMAIN rules = 1 .. n, NEW gate
  PROVE  \E f : Keeps(rules, gate, f)
<1> DEFINE Val(s, f) == IF s = {} THEN AtFirstOf
                        ELSE Turn(rules, gate, f[s \ {Max(s)}], Max(s))
           N == {m \in Nat : \E f : f = [s \in SUBSET (1 .. m) |-> Val(s, f)]}
<1>1. 0 \in N
  <2> DEFINE f == [s \in SUBSET (1 .. 0) |-> AtFirstOf]
  <2>1. \A s \in SUBSET (1 .. 0) : s = {}
    OBVIOUS
  <2>2. \A s \in SUBSET (1 .. 0) : Val(s, f) = AtFirstOf
    BY <2>1
  <2>3. f = [s \in SUBSET (1 .. 0) |-> Val(s, f)]
    <3> HIDE DEF Val
    <3> QED BY <2>2
  <2> HIDE DEF f, Val
  <2> QED BY <2>3
<1>2. ASSUME NEW m \in Nat, m \in N PROVE m + 1 \in N
  <2>1. PICK f : f = [s \in SUBSET (1 .. m) |-> Val(s, f)]
    BY <1>2
  <2> DEFINE g == [s \in SUBSET (1 .. m + 1) |-> Val(s, f)]
  <2>2. ASSUME NEW s \in SUBSET (1 .. m) PROVE g[s] = f[s]
    <3>1. s \in SUBSET (1 .. m + 1)
      OBVIOUS
    <3> HIDE DEF Val
    <3> QED BY <2>1, <3>1
  <2>3. ASSUME NEW s \in SUBSET (1 .. m + 1) PROVE Val(s, f) = Val(s, g)
    <3>1. s # {} => s \ {Max(s)} \in SUBSET (1 .. m)
      BY WithoutLargest
    <3> HIDE DEF g
    <3> QED BY <2>2, <3>1
  <2>4. g = [s \in SUBSET (1 .. m + 1) |-> Val(s, g)]
    <3>1. [s \in SUBSET (1 .. m + 1) |-> Val(s, f)] = [s \in SUBSET (1 .. m + 1) |-> Val(s, g)]
      <4> HIDE DEF g, Val
      <4> QED BY <2>3
    <3>2. g = [s \in SUBSET (1 .. m + 1) |-> Val(s, f)]
      OBVIOUS
    <3> HIDE DEF g, Val
    <3> QED BY <3>1, <3>2
  <2> HIDE DEF g, Val
  <2> QED BY <2>4
<1>3. Nat \subseteq N
  <2> HIDE DEF N
  <2> QED BY <1>1, <1>2, Induction
<1>4. PICK f : f = [s \in SUBSET (1 .. n) |-> Val(s, f)]
  <2> HIDE DEF Val
  <2> QED BY <1>3
<1>5. Keeps(rules, gate, f)
  BY <1>4 DEF Keeps
<1> QED BY <1>5

\* A rule that ends the loop with a denial.
Stops(rule) == rule.matches = "throws" \/ (rule.effect = "Deny" /\ rule.matches = "yes")

Allows(rule) == rule.effect = "Allow" /\ rule.matches = "yes"

\* What d says of the rules of the gate at the places s.
Tells(rules, gate, s, d) ==
  LET R == {i \in s : rules[i].gate = gate}
  IN  /\ DOMAIN d = {"over", "allow"}
      /\ (\E i \in R : Stops(rules[i])) =>
           d.over = TRUE /\ \E v : d.allow = {v} /\ v.decision = "Deny"
      /\ ~(\E i \in R : Stops(rules[i])) =>
           /\ d.over = FALSE
           /\ \A v \in d.allow : v.decision = "Allow"
           /\ d.allow = {} <=> ~\E i \in R : Allows(rules[i])

RuleOK(rule) == rule.effect \in {"Allow", "Deny"} /\ rule.matches \in {"yes", "no", "throws"}

LEMMA TurnTells ==
  ASSUME NEW rules, NEW gate, NEW s, NEW i \in s, RuleOK(rules[i]), NEW d,
         Tells(rules, gate, s \ {i}, d)
  PROVE  Tells(rules, gate, s, Turn(rules, gate, d, i))
<1> DEFINE R(u) == {j \in u : rules[j].gate = gate}
           e == Turn(rules, gate, d, i)
           t == s \ {i}
           rule == rules[i]
<1>1. CASE rule.gate # gate
  <2>1. R(s) = R(t) /\ e = d
    BY <1>1 DEF Turn
  <2> HIDE DEF R, e, t
  <2> QED
  BY <2>1 DEF Tells, e, R, t
<1>2. CASE rule.gate = gate
  <2>1. R(s) = R(t) \cup {i} /\ e = Consider(d, rule)
    BY <1>2 DEF Turn
  <2>2. Tells(rules, gate, t, d) /\ RuleOK(rule) /\ DOMAIN d = {"over", "allow"}
    BY DEF Tells
  <2> DEFINE Stopped(u) == \E j \in R(u) : Stops(rules[j])
             Allowed(u) == \E j \in R(u) : Allows(rules[j])
  <2>3. /\ Stopped(s) <=> Stopped(t) \/ Stops(rule)
        /\ Allowed(s) <=> Allowed(t) \/ Allows(rule)
    BY <2>1
  <2>4. /\ Stopped(t) => d.over = TRUE /\ \E v : d.allow = {v} /\ v.decision = "Deny"
        /\ ~Stopped(t) => /\ d.over = FALSE
                          /\ \A v \in d.allow : v.decision = "Allow"
                          /\ d.allow = {} <=> ~Allowed(t)
    BY <2>2 DEF Tells
  <2> SUFFICES /\ DOMAIN e = {"over", "allow"}
               /\ Stopped(s) => e.over = TRUE /\ \E v : e.allow = {v} /\ v.decision = "Deny"
               /\ ~Stopped(s) => /\ e.over = FALSE
                                 /\ \A v \in e.allow : v.decision = "Allow"
                                 /\ e.allow = {} <=> ~Allowed(s)
    BY DEF Tells
  <2> HIDE DEF R, e, t, rule, Stopped, Allowed
  <2>5. CASE d.over = TRUE
    BY <2>1, <2>2, <2>3, <2>4, <2>5 DEF Consider
  <2>6. CASE d.over # TRUE /\ rule.matches = "no"
    BY <2>1, <2>2, <2>3, <2>4, <2>6 DEF Consider, Stops, Allows
  <2>7. CASE d.over # TRUE /\ Stops(rule)
    <3> DEFINE fault  == Verdict("Deny", "AEGIS.predicate-fault")
               denial == Verdict("Deny", rule.id)
    <3>0. d.over = FALSE /\ rule.matches # "no"
      BY <2>4, <2>7 DEF Stops
    <3>2. fault.decision = "Deny" /\ denial.decision = "Deny"
      BY DEF Verdict
    <3>3. e = [over |-> TRUE, allow |-> {fault}] \/ e = [over |-> TRUE, allow |-> {denial}]
      BY <2>1, <2>7, <3>0 DEF Consider, Stops
    <3> HIDE DEF fault, denial
    <3>1. PICK v : v.decision = "Deny" /\ e = [over |-> TRUE, allow |-> {v}]
      BY <3>2, <3>3
    <3> QED BY <2>3, <2>7, <3>1
  <2>8. CASE d.over # TRUE /\ rule.matches = "yes" /\ rule.effect = "Allow"
    <3> DEFINE v == Verdict("Allow", rule.id)
    <3>0. d.over = FALSE
      BY <2>4, <2>8
    <3>1. /\ v.decision = "Allow"
          /\ e = [d EXCEPT !.allow = IF d.allow = {} THEN {v} ELSE d.allow]
      BY <2>1, <2>8, <3>0 DEF Consider, Verdict
    <3> HIDE DEF v
    <3>2. e.over = d.over /\ e.allow = (IF d.allow = {} THEN {v} ELSE d.allow)
          /\ DOMAIN e = DOMAIN d
      BY <2>2, <3>1
    <3> QED BY <2>2, <2>3, <2>4, <2>8, <3>1, <3>2 DEF Stops, Allows
  <2> QED BY <2>2, <2>5, <2>6, <2>7, <2>8 DEF RuleOK, Stops
<1> QED BY <1>1, <1>2

\* What evaluate keeps at the end tells of all the rules.
LEMMA LoopTells ==
  ASSUME NEW n \in Nat, NEW rules, DOMAIN rules = 1 .. n, NEW gate,
         \A i \in 1 .. n : RuleOK(rules[i]), NEW f, Keeps(rules, gate, f)
  PROVE  Tells(rules, gate, 1 .. n, f[1 .. n])
<1> DEFINE N == {m \in Nat : \A s \in SUBSET (1 .. m) : m <= n => Tells(rules, gate, s, f[s])}
<1>0. Tells(rules, gate, {}, AtFirstOf)
  BY DEF Tells, AtFirstOf
<1>1. f[{}] = AtFirstOf
  BY DEF Keeps
<1>2. 0 \in N
  <2>1. \A s \in SUBSET (1 .. 0) : s = {}
    OBVIOUS
  <2>2. \A s \in SUBSET (1 .. 0) : Tells(rules, gate, s, f[s])
    BY <2>1, <1>0, <1>1
  <2> QED BY <2>2
<1>3. ASSUME NEW m \in Nat, m \in N PROVE m + 1 \in N
  <2> SUFFICES ASSUME NEW s \in SUBSET (1 .. m + 1), m + 1 <= n PROVE Tells(rules, gate, s, f[s])
    OBVIOUS
  <2>1. CASE s = {}
    BY <2>1, <1>0, <1>1
  <2>2. CASE s # {}
    <3> DEFINE i == Max(s)
               t == s \ {i}
    <3>1. i \in s /\ t \in SUBSET (1 .. m) /\ i \in 1 .. n
      <4>1. i \in s /\ t \in SUBSET (1 .. m)
        BY <2>2, WithoutLargest
      <4> HIDE DEF i, t
      <4> QED BY <4>1
    <3>2. Tells(rules, gate, t, f[t])
      <4>1. m <= n
        OBVIOUS
      <4> HIDE DEF t
      <4> QED BY <1>3, <3>1, <4>1
    <3>3. f[s] = Turn(rules, gate, f[t], i)
      <4>1. s \in SUBSET DOMAIN rules
        OBVIOUS
      <4> QED BY <2>2, <4>1 DEF Keeps
    <3> HIDE DEF i
    <3> QED BY <3>1, <3>2, <3>3, TurnTells
  <2> QED BY <2>1, <2>2
<1>4. n \in N
  <2> HIDE DEF N
  <2> QED BY <1>2, <1>3, Induction
<1> QED BY <1>4

\* How evaluate decides.
LEMMA EvaluateDecides ==
  ASSUME NEW n \in Nat, NEW rules, DOMAIN rules = 1 .. n, NEW gate,
         \A i \in 1 .. n : RuleOK(rules[i])
  PROVE  LET R == {i \in 1 .. n : rules[i].gate = gate}
         IN  /\ evaluate(rules, gate).decision = "Allow" <=>
                  (\E i \in R : Allows(rules[i])) /\ ~\E i \in R : Stops(rules[i])
             /\ evaluate(rules, gate).decision \in {"Allow", "Deny"}
<1> DEFINE f == CHOOSE h : Keeps(rules, gate, h)
           d == f[1 .. n]
           R == {i \in 1 .. n : rules[i].gate = gate}
<1>1. Keeps(rules, gate, f)
  BY KeepsExists
<1>2. evaluate(rules, gate) = IF d.allow = {} THEN DefaultDeny ELSE CHOOSE v \in d.allow : TRUE
  <2>1. evaluate(rules, gate) = LET done == f[DOMAIN rules]
                                IN  IF done.allow = {} THEN DefaultDeny
                                    ELSE CHOOSE v \in done.allow : TRUE
    BY EvaluateIs
  <2> HIDE DEF f
  <2> QED BY <2>1, Zenon
<1> HIDE DEF f
<1>3. Tells(rules, gate, 1 .. n, d)
  BY <1>1, LoopTells
<1>4. DefaultDeny.decision = "Deny"
  BY DEF DefaultDeny, Verdict
<1> DEFINE e == evaluate(rules, gate)
<1>5. e = DefaultDeny \/ e \in d.allow
  BY <1>2
<1>6. d.allow = {} => e = DefaultDeny
  BY <1>2
<1>6a. d.allow # {} => e \in d.allow
  BY <1>2
<1> HIDE DEF d, e
<1>7. CASE \E i \in R : Stops(rules[i])
  <2>1. \E v : d.allow = {v} /\ v.decision = "Deny"
    BY <1>3, <1>7 DEF Tells
  <2>2. e.decision = "Deny"
    BY <1>6a, <2>1
  <2> QED BY <1>7, <2>2 DEF e
<1>8. CASE ~\E i \in R : Stops(rules[i])
  <2>1. /\ \A v \in d.allow : v.decision = "Allow"
        /\ d.allow = {} <=> ~\E i \in R : Allows(rules[i])
    BY <1>3, <1>8 DEF Tells
  <2>2. /\ e.decision = "Allow" <=> d.allow # {}
        /\ e.decision \in {"Allow", "Deny"}
    BY <1>4, <1>6, <1>6a, <2>1
  <2> QED BY <1>8, <2>1, <2>2 DEF e
<1> QED BY <1>7, <1>8

\* The lists the policy is asked about are the engine's.
LEMMA CasesAreEngines == MCSpec => [](case.kind = "rules" => case.rules \in RuleLists)
<1> DEFINE Inv == case.kind = "rules" => case.rules \in RuleLists
<1>1. MCInit => Inv
  <2>1. \A c, K, S : c \in [kind : {K}, parts : S] \cup [kind : {K}, changes : S]
                       \cup [kind : {K}, type : S] \cup [kind : {K}, cost : S]
                       \cup [kind : {K}, query : S] => c.kind = K
    OBVIOUS
  <2>2. \A c, S : c \in [kind : {"rules"}, rules : S] => c.rules \in S
    OBVIOUS
  <2>3. [kind |-> "log"].kind = "log"
    OBVIOUS
  <2>4. \A c \in Cases : c.kind = "rules" => c.rules \in RuleLists
    BY <2>1, <2>2 DEF Cases
  <2> QED BY <2>3, <2>4 DEF MCInit
<1>2. Inv /\ [MCNext]_<< vars, case >> => Inv'
  BY DEF MCNext
<1> QED BY <1>1, <1>2, PTL DEF MCSpec

LEMMA RulesDecide ==
  ASSUME NEW X, NEW rules \in Seq(X), \A rule \in ToSet(rules) : RuleOK(rule), NEW gate
  PROVE  LET R == {rule \in ToSet(rules) : rule.gate = gate}
         IN  /\ evaluate(rules, gate).decision = "Allow" <=>
                  (\E rule \in R : Allows(rule)) /\ ~\E rule \in R : Stops(rule)
             /\ evaluate(rules, gate).decision \in {"Allow", "Deny"}
<1> DEFINE n == Len(rules)
           P == {i \in 1 .. n : rules[i].gate = gate}
           R == {rule \in ToSet(rules) : rule.gate = gate}
<1>2. n \in Nat /\ DOMAIN rules = 1 .. n
  BY LenProperties
<1>3. ToSet(rules) = {rules[i] : i \in 1 .. n}
  BY <1>2 DEF ToSet
<1> HIDE DEF n
<1>4. \A i \in 1 .. n : RuleOK(rules[i])
  BY <1>3
<1>5. /\ evaluate(rules, gate).decision = "Allow" <=>
           (\E i \in P : Allows(rules[i])) /\ ~\E i \in P : Stops(rules[i])
      /\ evaluate(rules, gate).decision \in {"Allow", "Deny"}
  BY <1>2, <1>4, EvaluateDecides
<1>6. R = {rules[i] : i \in P}
  BY <1>3
<1> HIDE DEF P, R
<1>7. /\ (\E i \in P : Allows(rules[i])) <=> \E rule \in R : Allows(rule)
      /\ (\E i \in P : Stops(rules[i])) <=> \E rule \in R : Stops(rule)
  BY <1>6
<1> QED BY <1>5, <1>7 DEF R

LEMMA EngineDecides ==
  ASSUME NEW rules \in RuleLists, NEW gate
  PROVE  LET R == {rule \in ToSet(rules) : rule.gate = gate}
         IN  evaluate(rules, gate).decision = "Allow" <=>
               (\E rule \in R : Allows(rule)) /\ ~\E rule \in R : Stops(rule)
<1>1. rules \in Seq(ToSet(rules)) /\ \A rule \in ToSet(rules) : RuleOK(rule)
  BY PolicyAssumption DEF RuleOK
<1> QED BY <1>1, RulesDecide

(***************************************************************************)
(* Deny overrides on a default deny (engine.ts:8-17): for every engine and *)
(* every list of rules, of any length and in any order.                    *)
(***************************************************************************)
THEOREM DenialsOverride == MCSpec => []DenyOverrides
<1>1. (case.kind = "rules" => case.rules \in RuleLists) => DenyOverrides
  BY EngineDecides DEF DenyOverrides, Allows, Stops
<1> QED BY <1>1, CasesAreEngines, PTL

\* Monotone in denials (engine.ts:16): rules that deny, added anywhere to an
\* engine's, allow nothing that was not allowed.
THEOREM DenialsNeverWeaken ==
  ASSUME NEW rules \in RuleLists, NEW more \in RuleLists, NEW gate,
         ToSet(rules) \subseteq ToSet(more),
         \A rule \in ToSet(more) \ ToSet(rules) : rule.effect = "Deny",
         evaluate(more, gate).decision = "Allow"
  PROVE  evaluate(rules, gate).decision = "Allow"
<1> DEFINE R(s) == {rule \in ToSet(s) : rule.gate = gate}
<1>1. (\E rule \in R(more) : Allows(rule)) /\ ~\E rule \in R(more) : Stops(rule)
  BY EngineDecides
<1>2. R(rules) \subseteq R(more)
  OBVIOUS
<1>3. \A rule \in R(more) : Allows(rule) => rule \in R(rules)
  BY DEF Allows
<1>4. (\E rule \in R(rules) : Allows(rule)) /\ ~\E rule \in R(rules) : Stops(rule)
  BY <1>1, <1>2, <1>3
<1> QED BY <1>4, EngineDecides

-----------------------------------------------------------------------------
(***************************************************************************)
(* What an event asks for (extract.ts, resource.ts). These are loops that  *)
(* go through a sequence from left to right, as evaluate does. What such a *)
(* loop keeps after the elements at a set of places is given by what it    *)
(* makes of the last of them (Folds); of interest is what it keeps after   *)
(* the first k of them (Traces).                                           *)
(***************************************************************************)
Folds(h, n, D, base, F) ==
  /\ h \in [SUBSET (1 .. n) -> D] /\ h[{}] = base
  /\ \A s \in SUBSET (1 .. n) : s # {} => h[s] = F[<< h[s \ {Max(s)}], Max(s) >>]

Traces(v, n, D, base, F) ==
  /\ v \in [0 .. n -> D] /\ v[0] = base
  /\ \A k \in 1 .. n : v[k] = F[<< v[k - 1], k >>]

LEMMA FoldsExist ==
  ASSUME NEW n \in Nat, NEW D, NEW base \in D, NEW F \in [D \X (1 .. n) -> D]
  PROVE  \E h : Folds(h, n, D, base, F)
<1> DEFINE N == {m \in Nat : m <= n => \E h : Folds(h, m, D, base, F)}
<1>1. 0 \in N
  <2> DEFINE h == [s \in SUBSET (1 .. 0) |-> base]
  <2>1. Folds(h, 0, D, base, F)
    <3>1. \A s \in SUBSET (1 .. 0) : s = {}
      OBVIOUS
    <3> QED BY <3>1 DEF Folds
  <2> HIDE DEF h
  <2> QED BY <2>1
<1>2. ASSUME NEW m \in Nat, m \in N PROVE m + 1 \in N
  <2> SUFFICES ASSUME m + 1 <= n PROVE \E h : Folds(h, m + 1, D, base, F)
    OBVIOUS
  <2>1. PICK h : Folds(h, m, D, base, F)
    BY <1>2
  <2> DEFINE g == [s \in SUBSET (1 .. m + 1) |->
                     IF s = {} THEN base ELSE F[<< h[s \ {Max(s)}], Max(s) >>]]
  <2>2. ASSUME NEW s \in SUBSET (1 .. m) PROVE g[s] = h[s]
    <3>1. s \in SUBSET (1 .. m + 1)
      OBVIOUS
    <3> QED BY <2>1, <3>1 DEF Folds
  <2>3. ASSUME NEW s \in SUBSET (1 .. m + 1), s # {}
        PROVE  g[s] \in D /\ g[s] = F[<< g[s \ {Max(s)}], Max(s) >>]
    <3> DEFINE i == Max(s)
               t == s \ {i}
    <3>1. i \in s /\ t \in SUBSET (1 .. m)
      BY <2>3, WithoutLargest
    <3>2. g[s] = F[<< h[t], i >>]
      BY <2>3
    <3> HIDE DEF i, g
    <3>3. i \in 1 .. n
      <4>1. i \in 1 .. m + 1
        BY <3>1
      <4> QED BY <4>1
    <3>4. h[t] \in D
      BY <2>1, <3>1 DEF Folds
    <3>5. g[t] = h[t]
      BY <2>2, <3>1
    <3>6. F[<< h[t], i >>] \in D
      <4> HIDE DEF t
      <4> QED BY <3>3, <3>4
    <3> QED BY <3>2, <3>5, <3>6 DEF i
  <2>4. {} \in SUBSET (1 .. m + 1) /\ g[{}] = base
    OBVIOUS
  <2>5. g = [s \in SUBSET (1 .. m + 1) |-> g[s]]
    OBVIOUS
  <2> HIDE DEF g
  <2>6. g \in [SUBSET (1 .. m + 1) -> D]
    <3>1. \A s \in SUBSET (1 .. m + 1) : g[s] \in D
      BY <2>3, <2>4
    <3> QED BY <2>5, <3>1
  <2>7. Folds(g, m + 1, D, base, F)
    BY <2>3, <2>4, <2>6 DEF Folds
  <2> QED BY <2>7
<1>3. n \in N
  <2> HIDE DEF N
  <2> QED BY <1>1, <1>2, Induction
<1> QED BY <1>3

LEMMA FirstPlaces ==
  ASSUME NEW k \in Nat \ {0}
  PROVE  Max(1 .. k) = k /\ (1 .. k) \ {k} = 1 .. k - 1 /\ 1 .. k # {}
<1> DEFINE S == 1 .. k
<1>1. k \in S /\ \A j \in S : k >= j
  OBVIOUS
<1>2. \A x, y \in S : x >= y /\ y >= x => x = y
  OBVIOUS
<1>3. Max(S) \in S /\ \A j \in S : Max(S) >= j
  <2> HIDE DEF S
  <2> QED BY <1>1 DEF Max
<1>4. Max(S) = k
  BY <1>1, <1>2, <1>3
<1>5. S \ {k} = 1 .. k - 1
  OBVIOUS
<1> QED BY <1>1, <1>4, <1>5

LEMMA FoldsTrace ==
  ASSUME NEW n \in Nat, NEW D, NEW base, NEW F, NEW h, Folds(h, n, D, base, F)
  PROVE  Traces([k \in 0 .. n |-> h[1 .. k]], n, D, base, F)
<1> DEFINE v == [k \in 0 .. n |-> h[1 .. k]]
<1>1. ASSUME NEW k \in 0 .. n PROVE v[k] = h[1 .. k] /\ v[k] \in D
  <2>1. 1 .. k \in SUBSET (1 .. n)
    OBVIOUS
  <2> QED BY <2>1 DEF Folds
<1>2. v[0] = base
  <2>1. 1 .. 0 = {} /\ 0 \in 0 .. n
    OBVIOUS
  <2> QED BY <2>1 DEF Folds
<1>3. v \in [0 .. n -> D]
  BY <1>1
<1> HIDE DEF v
<1>4. ASSUME NEW k \in 1 .. n PROVE v[k] = F[<< v[k - 1], k >>]
  <2> DEFINE s == 1 .. k
  <2>1. s \in SUBSET (1 .. n) /\ k \in 0 .. n /\ k - 1 \in 0 .. n /\ k \in Nat \ {0}
    OBVIOUS
  <2>2. Max(s) = k /\ s \ {k} = 1 .. k - 1 /\ s # {}
    BY <2>1, FirstPlaces
  <2>3. v[k] = h[s] /\ v[k - 1] = h[1 .. k - 1]
    BY <1>1, <2>1
  <2> HIDE DEF s
  <2>4. h[s] = F[<< h[s \ {Max(s)}], Max(s) >>]
    BY <2>1, <2>2 DEF Folds
  <2> QED BY <2>2, <2>3, <2>4
<1> QED BY <1>2, <1>3, <1>4 DEF Traces, v

LEMMA SameFolds ==
  ASSUME NEW n \in Nat, NEW f, NEW h, f[{}] = h[{}],
         \A s \in SUBSET (1 .. n) :
           s # {} /\ f[s \ {Max(s)}] = h[s \ {Max(s)}] => f[s] = h[s]
  PROVE  f[1 .. n] = h[1 .. n]
<1> DEFINE N == {m \in Nat : m <= n => \A s \in SUBSET (1 .. m) : f[s] = h[s]}
<1>1. 0 \in N
  <2>1. \A s \in SUBSET (1 .. 0) : s = {}
    OBVIOUS
  <2> QED BY <2>1
<1>2. ASSUME NEW m \in Nat, m \in N PROVE m + 1 \in N
  <2> SUFFICES ASSUME m + 1 <= n, NEW s \in SUBSET (1 .. m + 1) PROVE f[s] = h[s]
    OBVIOUS
  <2>1. CASE s # {}
    <3> DEFINE t == s \ {Max(s)}
    <3>1. t \in SUBSET (1 .. m)
      BY <2>1, WithoutLargest
    <3>2. s \in SUBSET (1 .. n) /\ m <= n
      OBVIOUS
    <3>3. f[t] = h[t]
      <4> HIDE DEF t
      <4> QED BY <1>2, <3>1, <3>2
    <3> QED BY <2>1, <3>2, <3>3
  <2> QED BY <2>1
<1>3. n \in N
  <2> HIDE DEF N
  <2> QED BY <1>1, <1>2, Induction
<1> QED BY <1>3

LEMMA LastOfPlaces ==
  ASSUME NEW n \in Nat, NEW s \in SUBSET (1 .. n), s # {}
  PROVE  Max(s) \in s /\ Max(s) \in 1 .. n
<1>1. s \in SUBSET (1 .. n + 1)
  OBVIOUS
<1>2. Max(s) \in s
  BY <1>1, WithoutLargest
<1> HIDE <1>1
<1> QED BY <1>2

\* f keeps what such a loop keeps, as long as that is in D.
KeepsWithin(f, n, D, base, F) ==
  /\ f[{}] = base
  /\ \A s \in SUBSET (1 .. n) :
       s # {} /\ f[s \ {Max(s)}] \in D => f[s] = F[<< f[s \ {Max(s)}], Max(s) >>]

EndsAs(f, n, D, base, F) == \E v : Traces(v, n, D, base, F) /\ f[1 .. n] = v[n]

\* Such an f has at all places what a trace of the loop ends with.
LEMMA FoldEnds ==
  ASSUME NEW n \in Nat, NEW D, NEW base \in D, NEW F \in [D \X (1 .. n) -> D],
         NEW f, KeepsWithin(f, n, D, base, F)
  PROVE  EndsAs(f, n, D, base, F)
<1>1. PICK h : Folds(h, n, D, base, F)
  BY FoldsExist
<1>2. f[1 .. n] = h[1 .. n]
  <2>1. ASSUME NEW s \in SUBSET (1 .. n), s # {}, f[s \ {Max(s)}] = h[s \ {Max(s)}]
        PROVE  f[s] = h[s]
    <3> DEFINE t == s \ {Max(s)}
    <3>1. t \in SUBSET (1 .. n)
      OBVIOUS
    <3>2. h[t] \in D /\ f[t] = h[t]
      <4> QED BY <1>1, <2>1, <3>1 DEF Folds
    <3>3. h[s] = F[<< h[t], Max(s) >>]
      BY <1>1, <2>1 DEF Folds
    <3>4. f[s] = F[<< f[t], Max(s) >>]
      BY <2>1, <3>2 DEF KeepsWithin
    <3> QED BY <3>2, <3>3, <3>4
  <2>2. f[{}] = h[{}]
    BY <1>1 DEF Folds, KeepsWithin
  <2> QED BY <2>1, <2>2, SameFolds
<1> DEFINE v == [k \in 0 .. n |-> h[1 .. k]]
<1>3. Traces(v, n, D, base, F)
  BY <1>1, FoldsTrace
<1>4. v[n] = h[1 .. n]
  OBVIOUS
<1> HIDE DEF v
<1> QED BY <1>2, <1>3, <1>4 DEF EndsAs

-----------------------------------------------------------------------------
(* canonical: what "." and ".." leave of a path. *)

\* One turn of the loop, at a segment s.
Ascend(done, s) ==
  IF s = "." THEN done
  ELSE IF s # ".." THEN Append(done, s)
  ELSE IF done = <<>> THEN done ELSE Front(done)

CanonicalKeeps(p, f) ==
  f = [s \in SUBSET DOMAIN p |->
         IF s = {} THEN <<>> ELSE Ascend(f[s \ {Max(s)}], p[Max(s)])]

LEMMA CanonicalIs ==
  ASSUME NEW p
  PROVE  canonical(p) = (CHOOSE f : CanonicalKeeps(p, f))[DOMAIN p]
BY DEF canonical, FoldLeft, MapThenFoldSet, CanonicalKeeps, Ascend

\* v[k] is what is left of the first k segments of p.
Climbs(v, p, S) ==
  /\ v \in [0 .. Len(p) -> Seq(S)] /\ v[0] = <<>>
  /\ \A k \in 1 .. Len(p) : v[k] = Ascend(v[k - 1], p[k])

LEMMA AscendStays ==
  ASSUME NEW S, NEW done \in Seq(S), NEW s \in S
  PROVE  Ascend(done, s) \in Seq(S)
<1>1. done # <<>> => Front(done) \in Seq(S)
  BY DEF Front
<1> QED BY <1>1 DEF Ascend

LEMMA CanonicalClimbs ==
  ASSUME NEW S, NEW p \in Seq(S)
  PROVE  \E v : Climbs(v, p, S) /\ canonical(p) = v[Len(p)]
<1> DEFINE n == Len(p)
           D == Seq(S)
           F == [x \in D \X (1 .. n) |-> Ascend(x[1], p[x[2]])]
<1>1. n \in Nat /\ DOMAIN p = 1 .. n /\ <<>> \in D /\ \A i \in 1 .. n : p[i] \in S
  BY LenProperties, EmptySeq, ElementOfSeq
<1> HIDE DEF n
<1>2. ASSUME NEW d \in D, NEW i \in 1 .. n
      PROVE  F[<< d, i >>] = Ascend(d, p[i]) /\ F[<< d, i >>] \in D
  <2>1. F[<< d, i >>] = Ascend(d, p[i])
    OBVIOUS
  <2> HIDE DEF F
  <2> QED BY <1>1, <2>1, AscendStays
<1>3. F \in [D \X (1 .. n) -> D]
  <2>1. \A x \in D \X (1 .. n) : Ascend(x[1], p[x[2]]) \in D
    BY <1>1, AscendStays
  <2> QED BY <2>1
<1> HIDE DEF D, F
<1>4. PICK h : Folds(h, n, D, <<>>, F)
  BY <1>1, <1>3, FoldsExist
<1>5. CanonicalKeeps(p, h)
  <2>1. ASSUME NEW s \in SUBSET (1 .. n), s # {}
        PROVE  h[s] = Ascend(h[s \ {Max(s)}], p[Max(s)])
    <3> DEFINE i == Max(s)
               t == s \ {i}
    <3>1. i \in s
      BY <1>1, <2>1, LastOfPlaces
    <3>2. h[s] = F[<< h[t], i >>]
      BY <1>4, <2>1 DEF Folds
    <3> HIDE DEF i
    <3>3. h[t] \in D /\ i \in 1 .. n
      BY <1>4, <3>1 DEF Folds
    <3> QED BY <1>2, <3>2, <3>3 DEF i
  <2>2. h = [s \in SUBSET (1 .. n) |-> h[s]] /\ h[{}] = <<>>
    BY <1>4 DEF Folds
  <2>3. h = [s \in SUBSET (1 .. n) |->
               IF s = {} THEN <<>> ELSE Ascend(h[s \ {Max(s)}], p[Max(s)])]
    BY <2>1, <2>2
  <2> QED BY <1>1, <2>3 DEF CanonicalKeeps
<1> DEFINE f == CHOOSE g : CanonicalKeeps(p, g)
<1>6. CanonicalKeeps(p, f) /\ canonical(p) = f[1 .. n]
  BY <1>1, <1>5, CanonicalIs
<1> HIDE DEF f
<1>7. f[{}] = <<>>
  BY <1>6 DEF CanonicalKeeps
<1>8. ASSUME NEW s \in SUBSET (1 .. n), s # {}, f[s \ {Max(s)}] \in D
      PROVE  f[s] = F[<< f[s \ {Max(s)}], Max(s) >>]
  <2> DEFINE i == Max(s)
             d == f[s \ {i}]
  <2>1. i \in 1 .. n
    BY <1>1, <1>8, LastOfPlaces
  <2>2. f[s] = Ascend(d, p[i])
    BY <1>1, <1>6, <1>8 DEF CanonicalKeeps
  <2>3. d \in D
    BY <1>8
  <2> HIDE DEF i, d
  <2>4. F[<< d, i >>] = Ascend(d, p[i])
    BY <1>2, <2>1, <2>3
  <2> QED BY <2>2, <2>4 DEF i, d
<1>9. PICK v : Traces(v, n, D, <<>>, F) /\ f[1 .. n] = v[n]
  <2> DEFINE base == <<>>
  <2>1. base \in D
    BY <1>1
  <2>2. KeepsWithin(f, n, D, base, F)
    BY <1>7, <1>8 DEF KeepsWithin
  <2> HIDE DEF base
  <2>3. n \in Nat
    BY <1>1
  <2>4. EndsAs(f, n, D, base, F)
    BY ONLY <2>3, <1>3, <2>1, <2>2, FoldEnds
  <2> QED BY <2>4 DEF base, EndsAs
<1>10. ASSUME NEW k \in 1 .. n PROVE v[k] = Ascend(v[k - 1], p[k])
  <2>1. v[k - 1] \in D /\ v[k] = F[<< v[k - 1], k >>]
    <3>1. k - 1 \in 0 .. n
      BY <1>1
    <3> QED BY <1>9, <3>1 DEF Traces
  <2> QED BY <1>2, <2>1
<1>11. v \in [0 .. n -> D] /\ v[0] = <<>>
  BY <1>9 DEF Traces
<1>12. Climbs(v, p, S)
  BY <1>10, <1>11 DEF Climbs, n, D
<1> QED BY <1>6, <1>9, <1>12 DEF n

-----------------------------------------------------------------------------
(* canonical and Resolve. *)

IsName(s) == s \notin {".", ".."}

NamesIn(p, i, k) == {j \in i .. k : IsName(p[j])}

UpsIn(p, i, k) == {j \in i .. k : p[j] = ".."}

\* How many more names than ".." the segments from i to k have.
Height(p, i, k) == Cardinality(NamesIn(p, i, k)) - Cardinality(UpsIn(p, i, k))

\* What a segment adds to that.
Lifts(s) == IF s = "." THEN 0 ELSE IF s = ".." THEN -1 ELSE 1

LEMMA HeightGrows ==
  ASSUME NEW p, NEW i \in Nat, NEW k \in Nat, i <= k + 1
  PROVE  /\ Height(p, i, k) \in Int
         /\ Height(p, i, k + 1) = Height(p, i, k) + Lifts(p[k + 1])
         /\ Height(p, i, k) > 0 <=> Cardinality(NamesIn(p, i, k)) > Cardinality(UpsIn(p, i, k))
<1> DEFINE A == NamesIn(p, i, k)
           B == UpsIn(p, i, k)
           A1 == NamesIn(p, i, k + 1)
           B1 == UpsIn(p, i, k + 1)
           l == k + 1
<1>1. IsFiniteSet(A) /\ IsFiniteSet(B)
  <2>1. IsFiniteSet(i .. k)
    BY FS_Interval
  <2>2. A \in SUBSET (i .. k) /\ B \in SUBSET (i .. k)
    BY DEF NamesIn, UpsIn
  <2> QED BY <2>1, <2>2, FS_Subset
<1>2. Cardinality(A) \in Nat /\ Cardinality(B) \in Nat
  BY <1>1, FS_CardinalityType
<1>3. l \notin A /\ l \notin B
  BY DEF NamesIn, UpsIn
<1>4. i .. k + 1 = (i .. k) \cup {l}
  OBVIOUS
<1>5. A1 = (IF IsName(p[l]) THEN A \cup {l} ELSE A) /\ B1 = (IF p[l] = ".." THEN B \cup {l} ELSE B)
  <2> HIDE DEF l
  <2>1. A1 = {j \in i .. k + 1 : IsName(p[j])} /\ B1 = {j \in i .. k + 1 : p[j] = ".."}
    BY DEF NamesIn, UpsIn
  <2> QED BY <1>4, <2>1 DEF NamesIn, UpsIn
<1> HIDE DEF A, B, A1, B1, l
<1>6. Cardinality(A \cup {l}) = Cardinality(A) + 1 /\ Cardinality(B \cup {l}) = Cardinality(B) + 1
  BY <1>1, <1>3, FS_AddElement
<1>7. /\ Cardinality(A1) = IF IsName(p[l]) THEN Cardinality(A) + 1 ELSE Cardinality(A)
      /\ Cardinality(B1) = IF p[l] = ".." THEN Cardinality(B) + 1 ELSE Cardinality(B)
  BY <1>5, <1>6
<1>8. Cardinality(A1) - Cardinality(B1) = Cardinality(A) - Cardinality(B) + Lifts(p[l])
  <2>1. CASE p[l] = "."
    BY <2>1, <1>2, <1>7 DEF Lifts, IsName
  <2>2. CASE p[l] = ".."
    BY <2>2, <1>2, <1>7 DEF Lifts, IsName
  <2>3. CASE IsName(p[l])
    BY <2>3, <1>2, <1>7 DEF Lifts, IsName
  <2> QED BY <2>1, <2>2, <2>3 DEF IsName
<1> QED BY <1>2, <1>8 DEF Height, A, B, A1, B1, l

LEMMA HeightStarts ==
  ASSUME NEW p, NEW i \in Nat
  PROVE  Height(p, i + 1, i) = 0
<1>1. NamesIn(p, i + 1, i) = {} /\ UpsIn(p, i + 1, i) = {}
  BY DEF NamesIn, UpsIn
<1> QED BY <1>1, FS_EmptySet DEF Height

LEMMA HeightsMove ==
  ASSUME NEW p, NEW m \in Nat
  PROVE  \A i \in 1 .. m : /\ Height(p, i, m + 1) = Height(p, i, m) + Lifts(p[m + 1])
                           /\ Height(p, i, m) \in Int
<1> SUFFICES ASSUME NEW i \in 1 .. m
             PROVE  /\ Height(p, i, m + 1) = Height(p, i, m) + Lifts(p[m + 1])
                    /\ Height(p, i, m) \in Int
  OBVIOUS
<1>1. i \in Nat /\ i <= m + 1
  OBVIOUS
<1> QED BY <1>1, HeightGrows

\* Of the first m segments, those that no later ".." of them takes back.
Remaining(p, m) == {i \in 1 .. m : IsName(p[i]) /\ \A k \in i .. m : Height(p, i, k) > 0}

LEMMA RemainingGrows ==
  ASSUME NEW p, NEW m \in Nat
  PROVE  \A i \in 1 .. m + 1 :
           i \in Remaining(p, m + 1)
             <=> IF i = m + 1 THEN IsName(p[i])
                 ELSE i \in Remaining(p, m) /\ Height(p, i, m + 1) > 0
<1> SUFFICES ASSUME NEW i \in 1 .. m + 1
             PROVE  i \in Remaining(p, m + 1)
                      <=> IF i = m + 1 THEN IsName(p[i])
                          ELSE i \in Remaining(p, m) /\ Height(p, i, m + 1) > 0
  OBVIOUS
<1>1. CASE i = m + 1
  <2>1. IsName(p[i]) => Height(p, m + 1, m + 1) > 0
    <3>1. Height(p, m + 1, m + 1) = Height(p, m + 1, m) + Lifts(p[m + 1])
      BY HeightGrows
    <3>2. Height(p, m + 1, m) = 0
      BY HeightStarts
    <3> QED BY <1>1, <3>1, <3>2 DEF Lifts, IsName
  <2>2. i .. m + 1 = {m + 1}
    BY <1>1
  <2> QED BY <1>1, <2>1, <2>2 DEF Remaining
<1>2. CASE i # m + 1
  <2>1. i \in 1 .. m /\ i .. m + 1 = (i .. m) \cup {m + 1}
    BY <1>2
  <2> QED BY <1>2, <2>1 DEF Remaining
<1> QED BY <1>1, <1>2

\* q is the segments of p at g[1], g[2], ..., those of the first m that remain.
Follows(p, m, q, g) ==
  /\ g \in [1 .. Len(q) -> 1 .. m]
  /\ \A a, b \in 1 .. Len(q) : a < b => g[a] < g[b]
  /\ \A n \in 1 .. Len(q) : q[n] = p[g[n]] /\ Height(p, g[n], m) = Len(q) - n + 1
  /\ Remaining(p, m) = {g[n] : n \in 1 .. Len(q)}

LEMMA FollowsAtDot ==
  ASSUME NEW S, NEW p, NEW m \in Nat, NEW q \in Seq(S), NEW g, Follows(p, m, q, g),
         p[m + 1] = "."
  PROVE  Follows(p, m + 1, q, g)
<1> DEFINE L == Len(q)
           K == Remaining(p, m)
           K1 == Remaining(p, m + 1)
<1>1. L \in Nat
  OBVIOUS
<1>2. \A i \in 1 .. m : Height(p, i, m + 1) = Height(p, i, m) /\ Height(p, i, m) \in Int
  <2>1. Lifts(p[m + 1]) = 0
    BY DEF Lifts
  <2>2. \A i \in 1 .. m : /\ Height(p, i, m + 1) = Height(p, i, m) + Lifts(p[m + 1])
                          /\ Height(p, i, m) \in Int
    BY HeightsMove
  <2> QED BY <2>1, <2>2
<1>3. \A i \in K : i \in 1 .. m /\ Height(p, i, m) > 0
  BY DEF Remaining
<1>4. K1 \subseteq 1 .. m + 1 /\ K \subseteq 1 .. m
  BY DEF Remaining
<1>5. \A i \in 1 .. m + 1 : i \in K1 <=> IF i = m + 1 THEN FALSE ELSE i \in K /\ Height(p, i, m + 1) > 0
  BY RemainingGrows DEF IsName
<1> HIDE DEF K, K1, L
<1>6. K1 = K
  <2>1. ASSUME NEW i \in K1 PROVE i \in K
    BY <1>4, <1>5, <2>1
  <2>2. ASSUME NEW i \in K PROVE i \in K1
    <3>1. i \in 1 .. m /\ i # m + 1 /\ i \in 1 .. m + 1
      BY <1>4, <2>2
    <3> QED BY <1>2, <1>3, <1>5, <2>2, <3>1
  <2> QED BY <2>1, <2>2
<1>7. /\ g \in [1 .. L -> 1 .. m] /\ K = {g[n] : n \in 1 .. L}
      /\ \A a, b \in 1 .. L : a < b => g[a] < g[b]
      /\ \A n \in 1 .. L : q[n] = p[g[n]] /\ Height(p, g[n], m) = L - n + 1
  BY DEF Follows, L, K
<1>8. g \in [1 .. L -> 1 .. m + 1]
  BY <1>7
<1>9. \A n \in 1 .. L : Height(p, g[n], m + 1) = L - n + 1
  BY <1>2, <1>7
<1> QED BY <1>6, <1>7, <1>8, <1>9 DEF Follows, L, K, K1

LEMMA FollowsAtName ==
  ASSUME NEW S, NEW p, NEW m \in Nat, NEW q \in Seq(S), NEW g, Follows(p, m, q, g),
         IsName(p[m + 1]), p[m + 1] \in S
  PROVE  \E h : Follows(p, m + 1, Append(q, p[m + 1]), h)
<1> DEFINE L == Len(q)
           r == Append(q, p[m + 1])
           l == m + 1
           K == Remaining(p, m)
           K1 == Remaining(p, l)
           h == [n \in 1 .. L + 1 |-> IF n = L + 1 THEN l ELSE g[n]]
<1>1. L \in Nat /\ Len(r) = L + 1 /\ r[L + 1] = p[l] /\ \A n \in 1 .. L : r[n] = q[n]
  BY AppendProperties
<1>2. \A i \in 1 .. m : Height(p, i, l) = Height(p, i, m) + 1 /\ Height(p, i, m) \in Int
  <2>1. Lifts(p[m + 1]) = 1
    BY DEF Lifts, IsName
  <2>2. \A i \in 1 .. m : /\ Height(p, i, m + 1) = Height(p, i, m) + Lifts(p[m + 1])
                          /\ Height(p, i, m) \in Int
    BY HeightsMove
  <2> QED BY <2>1, <2>2
<1>3. Height(p, l, l) = 1
  <2>1. Height(p, m + 1, m + 1) = Height(p, m + 1, m) + Lifts(p[m + 1]) /\ Height(p, m + 1, m) = 0
    BY HeightGrows, HeightStarts
  <2> QED BY <2>1 DEF Lifts, IsName
<1>4. \A i \in K : i \in 1 .. m /\ Height(p, i, m) > 0
  BY DEF Remaining
<1>5. K1 \subseteq 1 .. l /\ K \subseteq 1 .. m
  BY DEF Remaining
<1>6. \A i \in 1 .. l : i \in K1 <=> IF i = l THEN TRUE ELSE i \in K /\ Height(p, i, l) > 0
  BY RemainingGrows
<1>7. /\ g \in [1 .. L -> 1 .. m] /\ K = {g[n] : n \in 1 .. L}
      /\ \A a, b \in 1 .. L : a < b => g[a] < g[b]
      /\ \A n \in 1 .. L : q[n] = p[g[n]] /\ Height(p, g[n], m) = L - n + 1
  BY DEF Follows
<1>8. l = m + 1 /\ l \in Nat
  OBVIOUS
<1> HIDE DEF K, K1, L, l, r
<1>9. K1 = K \cup {l}
  <2>1. ASSUME NEW i \in K1 PROVE i \in K \cup {l}
    BY <1>5, <1>6, <2>1
  <2>2. ASSUME NEW i \in K PROVE i \in K1
    <3>1. i \in 1 .. m /\ i \in 1 .. l
      BY <1>5, <1>8, <2>2
    <3>2. Height(p, i, l) > 0
      BY <1>2, <1>4, <2>2
    <3> QED BY <1>6, <2>2, <3>1, <3>2
  <2>3. l \in 1 .. l
    BY <1>8
  <2> QED BY <1>6, <2>1, <2>2, <2>3
<1>10. \A n \in 1 .. L : h[n] = g[n] /\ h[n] \in 1 .. m
  <2>1. \A n \in 1 .. L : n # L + 1 /\ n \in 1 .. L + 1
    BY <1>1
  <2> QED BY <1>7, <2>1
<1>11. h[L + 1] = l
  BY <1>1
<1>12. h = [n \in 1 .. L + 1 |-> h[n]]
  OBVIOUS
<1> HIDE DEF h
<1>13. \A n \in 1 .. L + 1 : n \in 1 .. L \/ n = L + 1
  BY <1>1
<1>14. h \in [1 .. L + 1 -> 1 .. l]
  <2>1. \A n \in 1 .. L + 1 : h[n] \in 1 .. l
    BY <1>8, <1>10, <1>11, <1>13
  <2> QED BY <1>12, <2>1
<1>15. ASSUME NEW a \in 1 .. L + 1, NEW b \in 1 .. L + 1, a < b PROVE h[a] < h[b]
  <2>1. a \in 1 .. L
    BY <1>1, <1>15
  <2>2. CASE b \in 1 .. L
    BY <1>7, <1>10, <1>15, <2>1, <2>2
  <2>3. CASE b = L + 1
    <3>1. h[a] \in 1 .. m /\ h[b] = l
      BY <1>10, <1>11, <2>1, <2>3
    <3> QED BY <1>8, <3>1
  <2> QED BY <1>13, <2>2, <2>3
<1>16. ASSUME NEW n \in 1 .. L + 1 PROVE r[n] = p[h[n]] /\ Height(p, h[n], l) = (L + 1) - n + 1
  <2>1. CASE n \in 1 .. L
    <3>1. g[n] \in 1 .. m /\ r[n] = p[g[n]] /\ h[n] = g[n] /\ Height(p, g[n], m) = L - n + 1
      BY <1>1, <1>7, <1>10, <2>1
    <3>2. Height(p, g[n], l) = Height(p, g[n], m) + 1
      BY <1>2, <3>1
    <3> QED BY <1>1, <3>1, <3>2
  <2>2. CASE n = L + 1
    BY <1>1, <1>3, <1>11, <2>2
  <2> QED BY <1>13, <2>1, <2>2
<1>17. K1 = {h[n] : n \in 1 .. L + 1}
  <2>1. {h[n] : n \in 1 .. L + 1} = {h[n] : n \in 1 .. L} \cup {h[L + 1]}
    <3>1. 1 .. L + 1 = (1 .. L) \cup {L + 1}
      BY <1>1
    <3> QED BY <3>1
  <2>2. {h[n] : n \in 1 .. L} = {g[n] : n \in 1 .. L}
    BY <1>10
  <2> QED BY <1>7, <1>9, <1>11, <2>1, <2>2
<1>18. Follows(p, l, r, h)
  BY <1>1, <1>14, <1>15, <1>16, <1>17 DEF Follows, K1
<1> QED BY <1>18 DEF l, r

LEMMA FollowsAtUp ==
  ASSUME NEW S, NEW p, NEW m \in Nat, NEW q \in Seq(S), NEW g, Follows(p, m, q, g),
         p[m + 1] = ".."
  PROVE  \E h : Follows(p, m + 1, IF q = <<>> THEN q ELSE Front(q), h)
<1> DEFINE L == Len(q)
           r == IF q = <<>> THEN q ELSE Front(q)
           M == IF L = 0 THEN 0 ELSE L - 1
           l == m + 1
           K == Remaining(p, m)
           K1 == Remaining(p, l)
           h == [n \in 1 .. M |-> g[n]]
<1>1. L \in Nat /\ M \in Nat /\ (L = 0 <=> q = <<>>) /\ 1 .. M \subseteq 1 .. L
  BY EmptySeq, LenProperties
<1>2. Len(r) = M /\ \A n \in 1 .. M : r[n] = q[n]
  BY EmptySeq, LenProperties DEF Front
<1>3. \A i \in 1 .. m : Height(p, i, l) = Height(p, i, m) - 1 /\ Height(p, i, m) \in Int
  <2>1. Lifts(p[m + 1]) = -1
    BY DEF Lifts
  <2>2. \A i \in 1 .. m : /\ Height(p, i, m + 1) = Height(p, i, m) + Lifts(p[m + 1])
                          /\ Height(p, i, m) \in Int
    BY HeightsMove
  <2> QED BY <2>1, <2>2
<1>4. \A i \in K : i \in 1 .. m /\ Height(p, i, m) > 0
  BY DEF Remaining
<1>5. K1 \subseteq 1 .. l /\ K \subseteq 1 .. m
  BY DEF Remaining
<1>6. \A i \in 1 .. l : i \in K1 <=> IF i = l THEN FALSE ELSE i \in K /\ Height(p, i, l) > 0
  BY RemainingGrows DEF IsName
<1>7. /\ g \in [1 .. L -> 1 .. m] /\ K = {g[n] : n \in 1 .. L}
      /\ \A a, b \in 1 .. L : a < b => g[a] < g[b]
      /\ \A n \in 1 .. L : q[n] = p[g[n]] /\ Height(p, g[n], m) = L - n + 1
  BY DEF Follows
<1>8. l = m + 1 /\ l \in Nat /\ M = IF L = 0 THEN 0 ELSE L - 1
  OBVIOUS
<1> HIDE DEF K, K1, L, l, r, M
<1>9. \A n \in 1 .. L : Height(p, g[n], l) = L - n
  BY <1>1, <1>3, <1>7
<1>10. K1 = {g[n] : n \in 1 .. M}
  <2>1. ASSUME NEW i \in K1 PROVE \E n \in 1 .. M : i = g[n]
    <3>1. i \in K /\ Height(p, i, l) > 0
      BY <1>5, <1>6, <2>1
    <3>2. PICK n \in 1 .. L : i = g[n]
      BY <1>7, <3>1
    <3>3. L - n > 0
      BY <1>9, <3>1, <3>2
    <3>4. n \in 1 .. M
      BY <1>1, <1>8, <3>3
    <3> QED BY <3>2, <3>4
  <2>2. ASSUME NEW n \in 1 .. M PROVE g[n] \in K1
    <3>1. n \in 1 .. L /\ L - n > 0
      BY <1>1, <1>8
    <3>2. g[n] \in K /\ Height(p, g[n], l) > 0 /\ g[n] \in 1 .. m
      BY <1>7, <1>9, <3>1
    <3> QED BY <1>6, <1>8, <3>2
  <2> QED BY <2>1, <2>2
<1>11. \A n \in 1 .. M : h[n] = g[n] /\ h[n] \in 1 .. l
  BY <1>1, <1>7, <1>8
<1>12. h \in [1 .. M -> 1 .. l]
  BY <1>11
<1> HIDE DEF h
<1>13. K1 = {h[n] : n \in 1 .. M}
  BY <1>10, <1>11
<1>14. \A a, b \in 1 .. M : a < b => h[a] < h[b]
  BY <1>1, <1>7, <1>11
<1>15. ASSUME NEW n \in 1 .. M PROVE r[n] = p[h[n]] /\ Height(p, h[n], l) = M - n + 1
  <2>1. n \in 1 .. L /\ L # 0
    BY <1>1, <1>8
  <2>2. r[n] = p[g[n]] /\ h[n] = g[n] /\ Height(p, g[n], l) = L - n
    BY <1>2, <1>7, <1>9, <1>11, <2>1
  <2> QED BY <1>1, <1>8, <2>1, <2>2
<1>16. Follows(p, l, r, h)
  BY <1>2, <1>12, <1>13, <1>14, <1>15 DEF Follows, K1
<1> QED BY <1>16 DEF l, r

LEMMA FollowsStep ==
  ASSUME NEW S, NEW p, NEW m \in Nat, NEW q \in Seq(S), NEW g, Follows(p, m, q, g),
         p[m + 1] \in S
  PROVE  \E h : Follows(p, m + 1, Ascend(q, p[m + 1]), h)
<1>1. CASE p[m + 1] = "."
  BY <1>1, FollowsAtDot DEF Ascend
<1>2. CASE p[m + 1] = ".."
  BY <1>2, FollowsAtUp DEF Ascend
<1>3. CASE IsName(p[m + 1])
  BY <1>3, FollowsAtName DEF Ascend, IsName
<1> QED BY <1>1, <1>2, <1>3 DEF IsName

LEMMA CanonicalFollows ==
  ASSUME NEW S, NEW p \in Seq(S)
  PROVE  /\ canonical(p) \in Seq(S)
         /\ \E g : Follows(p, Len(p), canonical(p), g)
<1>1. PICK v : Climbs(v, p, S) /\ canonical(p) = v[Len(p)]
  BY CanonicalClimbs
<1> DEFINE n == Len(p)
           N == {m \in Nat : m <= n => \E g : Follows(p, m, v[m], g)}
<1>2. n \in Nat /\ \A i \in 1 .. n : p[i] \in S
  BY LenProperties, ElementOfSeq
<1>3. /\ v[0] = <<>> /\ \A k \in 0 .. n : v[k] \in Seq(S)
      /\ \A k \in 1 .. n : v[k] = Ascend(v[k - 1], p[k])
  BY <1>1 DEF Climbs
<1> HIDE DEF n
<1>4. 0 \in N
  <2> DEFINE g == [i \in 1 .. 0 |-> 0]
             q == <<>>
  <2>1. Len(q) = 0
    OBVIOUS
  <2>2. Remaining(p, 0) = {}
    BY DEF Remaining
  <2>3. 1 .. 0 = {} /\ g \in [1 .. 0 -> 1 .. 0]
    OBVIOUS
  <2> HIDE DEF g, q
  <2>4. Follows(p, 0, q, g)
    BY <2>1, <2>2, <2>3 DEF Follows
  <2> QED BY <1>3, <2>4 DEF q
<1>5. ASSUME NEW m \in Nat, m \in N PROVE m + 1 \in N
  <2> SUFFICES ASSUME m + 1 <= n PROVE \E h : Follows(p, m + 1, v[m + 1], h)
    OBVIOUS
  <2>1. m \in 0 .. n /\ m + 1 \in 1 .. n /\ (m + 1) - 1 = m
    BY <1>2
  <2>2. PICK g : Follows(p, m, v[m], g)
    BY <1>5, <2>1
  <2>3. v[m] \in Seq(S) /\ p[m + 1] \in S /\ v[m + 1] = Ascend(v[m], p[m + 1])
    BY <1>2, <1>3, <2>1
  <2> QED BY <2>2, <2>3, FollowsStep
<1>6. n \in N
  <2> HIDE DEF N
  <2> QED BY <1>2, <1>4, <1>5, Induction
<1> QED BY <1>1, <1>2, <1>3, <1>6 DEF n

FirstOf(g, n) == {g[a] : a \in 1 .. n}

NoneTwice(g, L) == \A a, b \in 1 .. L : a # b => g[a] # g[b]

\* Of elements of which none is there twice, the first n are n.
LEMMA FirstAreMany ==
  ASSUME NEW L \in Nat, NEW g, NoneTwice(g, L), NEW n \in 0 .. L
  PROVE  Cardinality(FirstOf(g, n)) = n
<1> DEFINE I(k) == FirstOf(g, k)
           N == {k \in Nat : k <= L => IsFiniteSet(I(k)) /\ Cardinality(I(k)) = k}
<1>1. 0 \in N
  <2>1. I(0) = {}
    BY DEF FirstOf
  <2> QED BY <2>1, FS_EmptySet
<1>2. ASSUME NEW k \in Nat, k \in N PROVE k + 1 \in N
  <2> SUFFICES ASSUME k + 1 <= L PROVE IsFiniteSet(I(k + 1)) /\ Cardinality(I(k + 1)) = k + 1
    OBVIOUS
  <2>1. IsFiniteSet(I(k)) /\ Cardinality(I(k)) = k
    BY <1>2
  <2>2. I(k + 1) = I(k) \cup {g[k + 1]}
    <3>1. 1 .. k + 1 = (1 .. k) \cup {k + 1}
      OBVIOUS
    <3> QED BY <3>1 DEF FirstOf
  <2>3. g[k + 1] \notin I(k)
    <3>1. \A a \in 1 .. k : a \in 1 .. L /\ k + 1 \in 1 .. L /\ a # k + 1
      OBVIOUS
    <3> QED BY <3>1 DEF FirstOf, NoneTwice
  <2> DEFINE J == I(k)
             x == g[k + 1]
  <2> HIDE DEF J, x
  <2>4. IsFiniteSet(J \cup {x}) /\ Cardinality(J \cup {x}) = k + 1
    <3>1. IsFiniteSet(J) /\ x \notin J /\ Cardinality(J) = k
      BY <2>1, <2>3 DEF J, x
    <3> QED BY <3>1, FS_AddElement
  <2>5. I(k + 1) = J \cup {x}
    BY <2>2 DEF J, x
  <2> QED BY <2>4, <2>5
<1>3. n \in N
  <2> HIDE DEF N
  <2> QED BY <1>1, <1>2, Induction
<1> QED BY <1>3

Nth(S, n) == CHOOSE i \in S : Cardinality({j \in S : j < i}) = n - 1

\* The n-th of the elements of a sequence of numbers that increases.
LEMMA NthIs ==
  ASSUME NEW L \in Nat, NEW m \in Nat, NEW g \in [1 .. L -> 1 .. m],
         \A a, b \in 1 .. L : a < b => g[a] < g[b], NEW n \in 1 .. L
  PROVE  Nth(FirstOf(g, L), n) = g[n]
<1> DEFINE S == {g[a] : a \in 1 .. L}
           below(i) == {j \in S : j < i}
<1>1. NoneTwice(g, L)
  BY DEF NoneTwice
<1>2. ASSUME NEW a \in 1 .. L PROVE Cardinality(below(g[a])) = a - 1
  <2>1. below(g[a]) = FirstOf(g, a - 1)
    <3>1. ASSUME NEW b \in 1 .. L, g[b] < g[a] PROVE b \in 1 .. a - 1
      <4>1. ~(a < b) /\ a # b
        <5>1. g[a] \in 1 .. m /\ g[b] \in 1 .. m
          OBVIOUS
        <5> QED BY <3>1, <5>1
      <4> QED BY <4>1
    <3>2. ASSUME NEW b \in 1 .. a - 1 PROVE g[b] < g[a] /\ b \in 1 .. L
      OBVIOUS
    <3> QED BY <3>1, <3>2 DEF FirstOf
  <2>2. a - 1 \in 0 .. L
    OBVIOUS
  <2>3. Cardinality(FirstOf(g, a - 1)) = a - 1
    BY ONLY <1>1, <2>2, L \in Nat, FirstAreMany
  <2> QED BY <2>1, <2>3
<1>3. g[n] \in S /\ Cardinality(below(g[n])) = n - 1
  BY <1>2
<1>4. ASSUME NEW i \in S, Cardinality(below(i)) = n - 1 PROVE i = g[n]
  <2>1. PICK a \in 1 .. L : i = g[a]
    OBVIOUS
  <2>2. a - 1 = n - 1
    BY <1>2, <1>4, <2>1
  <2> QED BY <2>1, <2>2
<1>5. FirstOf(g, L) = S
  BY DEF FirstOf
<1> HIDE DEF S
<1> QED BY <1>3, <1>4, <1>5 DEF Nth

(***************************************************************************)
(* What canonical makes of a path is the segments that no later ".." takes *)
(* back, in their order: path.posix.normalize of an absolute path          *)
(* (resource.ts), for every path.                                          *)
(***************************************************************************)
THEOREM CanonicalIsResolved ==
  ASSUME NEW S, NEW p \in Seq(S)
  PROVE  canonical(p) = Resolve(p)
<1> DEFINE m == Len(p)
           q == canonical(p)
           L == Len(q)
           K == Remaining(p, m)
<1>1. PICK g : Follows(p, m, q, g)
  BY CanonicalFollows
<1>2. q \in Seq(S) /\ m \in Nat /\ DOMAIN p = 1 .. m
  BY CanonicalFollows, LenProperties
<1>3. L \in Nat /\ q = [n \in 1 .. L |-> q[n]]
  BY <1>2, LenProperties
<1>4. K = {i \in DOMAIN p : p[i] \notin {".", ".."} /\ \A k \in i .. m :
             Cardinality({j \in i .. k : p[j] \notin {".", ".."}})
               > Cardinality({j \in i .. k : p[j] = ".."})}
  <2>1. ASSUME NEW i \in 1 .. m, NEW k \in i .. m
        PROVE  Height(p, i, k) > 0
                 <=> Cardinality(NamesIn(p, i, k)) > Cardinality(UpsIn(p, i, k))
    <3>1. i \in Nat /\ k \in Nat /\ i <= k + 1
      BY <1>2
    <3> QED BY <3>1, HeightGrows
  <2>2. \A i \in 1 .. m : \A k \in i .. m :
          Height(p, i, k) > 0
            <=> Cardinality({j \in i .. k : p[j] \notin {".", ".."}})
                  > Cardinality({j \in i .. k : p[j] = ".."})
    BY <2>1 DEF NamesIn, UpsIn, IsName
  <2> QED BY <1>2, <2>2 DEF Remaining, IsName
<1>5. Resolve(p) = [n \in 1 .. Cardinality(K) |-> p[Nth(K, n)]]
  BY <1>4 DEF Resolve, Nth
<1>6. /\ g \in [1 .. L -> 1 .. m] /\ K = FirstOf(g, L)
      /\ \A a, b \in 1 .. L : a < b => g[a] < g[b]
      /\ \A n \in 1 .. L : q[n] = p[g[n]]
  BY <1>1 DEF Follows, FirstOf
<1> HIDE DEF m, q, L, K
<1>7. \A n \in 1 .. L : Nth(K, n) = g[n]
  <2>1. L \in Nat /\ m \in Nat /\ g \in [1 .. L -> 1 .. m]
    BY <1>2, <1>3, <1>6
  <2>2. \A a, b \in 1 .. L : a < b => g[a] < g[b]
    BY <1>6
  <2>3. \A n \in 1 .. L : Nth(FirstOf(g, L), n) = g[n]
    BY ONLY <2>1, <2>2, NthIs
  <2> QED BY <1>6, <2>3
<1>8. Cardinality(K) = L
  <2>1. NoneTwice(g, L)
    <3>1. \A a, b \in 1 .. L : a # b => a < b \/ b < a
      BY <1>3
    <3>2. \A a \in 1 .. L : g[a] \in Nat
      BY <1>2, <1>6
    <3> QED BY <1>6, <3>1, <3>2 DEF NoneTwice
  <2>2. L \in 0 .. L
    BY <1>3
  <2> QED BY <1>3, <1>6, <2>1, <2>2, FirstAreMany
<1> QED BY <1>3, <1>5, <1>6, <1>7, <1>8 DEF q

-----------------------------------------------------------------------------
(* What createBundle permits. *)

LEMMA PlacesOf ==
  ASSUME NEW X, NEW s \in Seq(X)
  PROVE  ToSet(s) = {s[i] : i \in 1 .. Len(s)} /\ Len(s) \in Nat /\ ToSet(s) \subseteq X
BY LenProperties, ElementOfSeq DEF ToSet

LEMMA SetOfConcat ==
  ASSUME NEW X, NEW s \in Seq(X), NEW t \in Seq(X)
  PROVE  s \o t \in Seq(X) /\ ToSet(s \o t) = ToSet(s) \cup ToSet(t)
<1> DEFINE m == Len(s)
           n == Len(t)
           u == s \o t
<1>1. /\ u \in Seq(X) /\ Len(u) = m + n /\ m \in Nat /\ n \in Nat
      /\ \A i \in 1 .. m + n : u[i] = IF i <= m THEN s[i] ELSE t[i - m]
  BY ConcatProperties, LenProperties
<1>2. ToSet(u) = {u[i] : i \in 1 .. m + n} /\ ToSet(s) = {s[i] : i \in 1 .. m}
      /\ ToSet(t) = {t[i] : i \in 1 .. n}
  BY <1>1, PlacesOf
<1> HIDE DEF m, n, u
<1>3. ASSUME NEW x \in ToSet(u) PROVE x \in ToSet(s) \cup ToSet(t)
  <2>1. PICK i \in 1 .. m + n : x = u[i]
    BY <1>2
  <2>2. CASE i <= m
    <3>1. i \in 1 .. m
      BY <1>1, <2>2
    <3> QED BY <1>1, <1>2, <2>1, <2>2, <3>1
  <2>3. CASE ~(i <= m)
    <3>1. i - m \in 1 .. n
      BY <1>1, <2>3
    <3> QED BY <1>1, <1>2, <2>1, <2>3, <3>1
  <2> QED BY <2>2, <2>3
<1>4. ASSUME NEW x \in ToSet(s) PROVE x \in ToSet(u)
  <2>1. PICK i \in 1 .. m : x = s[i]
    BY <1>2
  <2>2. i \in 1 .. m + n /\ i <= m
    BY <1>1
  <2> QED BY <1>1, <1>2, <2>1, <2>2
<1>5. ASSUME NEW x \in ToSet(t) PROVE x \in ToSet(u)
  <2>1. PICK i \in 1 .. n : x = t[i]
    BY <1>2
  <2>2. m + i \in 1 .. m + n /\ ~(m + i <= m) /\ (m + i) - m = i
    BY <1>1
  <2> QED BY <1>1, <1>2, <2>1, <2>2
<1>6. ToSet(u) = ToSet(s) \cup ToSet(t)
  BY <1>3, <1>4, <1>5
<1> QED BY <1>1, <1>6 DEF u

\* The rules of G3 in a list that allow, and those that deny.
SomeAllow(rules) == \E rule \in ToSet(rules) : rule.gate = "G3" /\ Allows(rule)

SomeStop(rules) == \E rule \in ToSet(rules) : rule.gate = "G3" /\ Stops(rule)

SomeRule(a) == /\ a.effect \in {"Allow", "Deny"} /\ a.gate \in {"G1", "G3"}
               /\ a.matches \in {"yes", "no"}

Bundle(rules) == rules \in Seq(ToSet(rules)) /\ \A a \in ToSet(rules) : SomeRule(a)

LEMMA SetOfBundles ==
  ASSUME NEW s, NEW t, Bundle(s), Bundle(t)
  PROVE  LET X == ToSet(s) \cup ToSet(t) IN s \o t \in Seq(X) /\ ToSet(s \o t) = X
<1> DEFINE X == ToSet(s) \cup ToSet(t)
<1>1. s \in Seq(ToSet(s)) /\ ToSet(s) \subseteq X
  BY DEF Bundle
<1>2. t \in Seq(ToSet(t)) /\ ToSet(t) \subseteq X
  BY DEF Bundle
<1> HIDE DEF X
<1>3. s \in Seq(X)
  BY <1>1, SeqMonotonic
<1>4. t \in Seq(X)
  BY <1>2, SeqMonotonic
<1>5. s \o t \in Seq(X) /\ ToSet(s \o t) = ToSet(s) \cup ToSet(t)
  BY <1>3, <1>4, SetOfConcat
<1> QED BY <1>5 DEF X

LEMMA BundlesConcat ==
  ASSUME NEW s, NEW t, Bundle(s), Bundle(t)
  PROVE  /\ Bundle(s \o t)
         /\ SomeAllow(s \o t) <=> SomeAllow(s) \/ SomeAllow(t)
         /\ SomeStop(s \o t) <=> SomeStop(s) \/ SomeStop(t)
<1> DEFINE X == ToSet(s) \cup ToSet(t)
<1>1. s \o t \in Seq(X) /\ ToSet(s \o t) = X
  BY SetOfBundles
<1>2. Bundle(s \o t)
  BY <1>1 DEF Bundle
<1> QED BY <1>1, <1>2 DEF SomeAllow, SomeStop

Permits3(a) == a.gate = "G3" /\ a.effect = "Allow" /\ a.matches = "yes"

Denies3(a) == a.gate = "G3" /\ a.effect = "Deny" /\ a.matches = "yes"

LEMMA BundleOf1 ==
  ASSUME NEW a, SomeRule(a)
  PROVE  /\ Bundle(<< a >>)
         /\ SomeAllow(<< a >>) <=> Permits3(a)
         /\ SomeStop(<< a >>) <=> Denies3(a)
<1> DEFINE s == << a >>
<1>1. s \in Seq({a}) /\ ToSet(s) = {a}
  BY DEF ToSet
<1> HIDE DEF s
<1>2. SomeAllow(s) <=> Permits3(a)
  BY <1>1 DEF SomeAllow, Permits3, Allows
<1>3. SomeStop(s) <=> Denies3(a)
  BY <1>1 DEF SomeStop, Denies3, Stops, SomeRule
<1>4. Bundle(s)
  BY <1>1 DEF Bundle
<1> QED BY <1>2, <1>3, <1>4 DEF s

LEMMA BundleOf2 ==
  ASSUME NEW a, NEW b, SomeRule(a), SomeRule(b)
  PROVE  /\ Bundle(<< a, b >>)
         /\ SomeAllow(<< a, b >>) <=> Permits3(a) \/ Permits3(b)
         /\ SomeStop(<< a, b >>) <=> Denies3(a) \/ Denies3(b)
<1> DEFINE s == << a, b >>
<1>1. s \in Seq({a, b}) /\ ToSet(s) = {a, b}
  BY DEF ToSet
<1> HIDE DEF s
<1>2. SomeAllow(s) <=> Permits3(a) \/ Permits3(b)
  BY <1>1 DEF SomeAllow, Permits3, Allows
<1>3. SomeStop(s) <=> Denies3(a) \/ Denies3(b)
  BY <1>1 DEF SomeStop, Denies3, Stops, SomeRule
<1>4. Bundle(s)
  BY <1>1 DEF Bundle
<1> QED BY <1>2, <1>3, <1>4 DEF s

\* What the rules of G3 ask of a request.
LEMMA G1RulesSay ==
  ASSUME NEW r
  PROVE  Bundle(G1Rules(r)) /\ ~SomeAllow(G1Rules(r)) /\ ~SomeStop(G1Rules(r))
<1> DEFINE a == Rule("KS-0.default-workspace-task", "Allow", "G1", When(r.action = "run.start"))
           b == Rule("KS-6.budget.exhausted", "Deny", "G1",
                     When(r.action = "run.start" /\ r.resource = "over budget"))
<1>1. /\ SomeRule(a) /\ ~Permits3(a) /\ ~Denies3(a)
      /\ SomeRule(b) /\ ~Permits3(b) /\ ~Denies3(b)
  BY DEF Rule, When, SomeRule, Permits3, Denies3
<1>2. G1Rules(r) = << a, b >>
  BY DEF G1Rules
<1> HIDE DEF a, b
<1> QED BY <1>1, <1>2, BundleOf2

LEMMA NetRulesSay ==
  ASSUME NEW r
  PROVE  /\ Bundle(NetRules(r)) /\ ~SomeAllow(NetRules(r))
         /\ SomeStop(NetRules(r)) <=> r.action = "net.connect" /\ ~Reachable(r.resource)
<1> DEFINE a == Rule("KS-1.egress.deny-non-allowlisted", "Deny", "G3",
                     When(r.action = "net.connect" /\ r.resource \notin Allowlisted))
           b == Rule("KS-1.egress.deny-private-ranges", "Deny", "G3",
                     When(r.action = "net.connect" /\ r.resource \in Private))
<1>1. /\ SomeRule(a) /\ ~Permits3(a)
      /\ Denies3(a) <=> r.action = "net.connect" /\ r.resource \notin Allowlisted
  BY DEF Rule, When, SomeRule, Permits3, Denies3
<1>2. /\ SomeRule(b) /\ ~Permits3(b)
      /\ Denies3(b) <=> r.action = "net.connect" /\ r.resource \in Private
  BY DEF Rule, When, SomeRule, Permits3, Denies3
<1>3. NetRules(r) = << a, b >>
  BY DEF NetRules
<1> HIDE DEF a, b
<1> QED BY <1>1, <1>2, <1>3, BundleOf2 DEF Reachable

LEMMA FileDenialsSay ==
  ASSUME NEW r
  PROVE  /\ Bundle(FileDenials(r)) /\ ~SomeAllow(FileDenials(r))
         /\ SomeStop(FileDenials(r)) <=>
              /\ IsFile(r)
              /\ \/ namesVault(r.resource)
                 \/ /\ ~isInside(Workspace, r.resource)
                    /\ r.action = "fs.write" \/ ~isSystemRead(r.resource)
<1> DEFINE a == Rule("KS-2.vault.deny-any-access", "Deny", "G3",
                     When(IsFile(r) /\ namesVault(r.resource)))
           b == Rule("KS-3.fs.deny-outside-workspace", "Deny", "G3",
                     When(/\ IsFile(r) /\ ~isInside(Workspace, r.resource)
                          /\ r.action = "fs.write" \/ ~isSystemRead(r.resource)))
<1>1. /\ SomeRule(a) /\ ~Permits3(a)
      /\ Denies3(a) <=> IsFile(r) /\ namesVault(r.resource)
  BY DEF Rule, When, SomeRule, Permits3, Denies3
<1>2. /\ SomeRule(b) /\ ~Permits3(b)
      /\ Denies3(b) <=> /\ IsFile(r) /\ ~isInside(Workspace, r.resource)
                        /\ r.action = "fs.write" \/ ~isSystemRead(r.resource)
  BY DEF Rule, When, SomeRule, Permits3, Denies3
<1>3. FileDenials(r) = << a, b >>
  BY DEF FileDenials
<1> HIDE DEF a, b
<1> QED BY <1>1, <1>2, <1>3, BundleOf2

LEMMA PermitsSay ==
  ASSUME NEW r
  PROVE  /\ Bundle(Permits(r)) /\ ~SomeStop(Permits(r))
         /\ SomeAllow(Permits(r)) <=>
              \/ IsFile(r) /\ isInside(Workspace, r.resource) /\ ~namesVault(r.resource)
              \/ r.action = "fs.read" /\ isSystemRead(r.resource) /\ ~namesVault(r.resource)
              \/ r.action = "net.connect" /\ Reachable(r.resource)
              \/ r.action = "proc.exec"
<1> DEFINE a == Rule("KS-0.fs.workspace-io", "Allow", "G3",
                     When(IsFile(r) /\ isInside(Workspace, r.resource) /\ ~namesVault(r.resource)))
           b == Rule("KS-0.fs.system-read", "Allow", "G3",
                     When(r.action = "fs.read" /\ isSystemRead(r.resource) /\ ~namesVault(r.resource)))
           c == Rule("KS-0.net.allowlisted", "Allow", "G3",
                     When(r.action = "net.connect" /\ Reachable(r.resource)))
           d == Rule("KS-0.proc.exec", "Allow", "G3", When(r.action = "proc.exec"))
<1>1. /\ SomeRule(a) /\ ~Denies3(a)
      /\ Permits3(a) <=> IsFile(r) /\ isInside(Workspace, r.resource) /\ ~namesVault(r.resource)
  BY DEF Rule, When, SomeRule, Permits3, Denies3
<1>2. /\ SomeRule(b) /\ ~Denies3(b)
      /\ Permits3(b) <=> r.action = "fs.read" /\ isSystemRead(r.resource) /\ ~namesVault(r.resource)
  BY DEF Rule, When, SomeRule, Permits3, Denies3
<1>3. /\ SomeRule(c) /\ ~Denies3(c)
      /\ Permits3(c) <=> r.action = "net.connect" /\ Reachable(r.resource)
  BY DEF Rule, When, SomeRule, Permits3, Denies3
<1>4. SomeRule(d) /\ ~Denies3(d) /\ (Permits3(d) <=> r.action = "proc.exec")
  BY DEF Rule, When, SomeRule, Permits3, Denies3
<1>5. Permits(r) = << a, b, c, d >>
  BY DEF Permits
<1> HIDE DEF a, b, c, d
<1>6. Permits(r) = << a, b >> \o << c, d >>
  BY <1>5
<1> QED BY <1>1, <1>2, <1>3, <1>4, <1>6, BundleOf2, BundlesConcat

LEMMA ExecDenialSays ==
  ASSUME NEW r
  PROVE  /\ Bundle(<< ExecDenial(r) >>) /\ ~SomeAllow(<< ExecDenial(r) >>)
         /\ SomeStop(<< ExecDenial(r) >>) <=>
              /\ r.action = "proc.exec"
              /\ \E h \in ToSet(destinationsIn(r.resource)) : ~Reachable(h)
<1> DEFINE a == ExecDenial(r)
<1>1. /\ SomeRule(a) /\ ~Permits3(a)
      /\ Denies3(a) <=> /\ r.action = "proc.exec"
                        /\ \E h \in ToSet(destinationsIn(r.resource)) : ~Reachable(h)
  BY DEF ExecDenial, Rule, When, SomeRule, Permits3, Denies3
<1> HIDE DEF a
<1>2. Bundle(<< a >>) /\ ~SomeAllow(<< a >>) /\ (SomeStop(<< a >>) <=> Denies3(a))
  BY <1>1, BundleOf1
<1> QED BY <1>1, <1>2 DEF a

Permitted(r) == evaluate(createBundle(r), "G3").decision = "Allow"

LEMMA BundleDecides ==
  ASSUME NEW r
  PROVE  /\ Permitted(r) <=> /\ SomeAllow(Permits(r)) /\ ~SomeStop(NetRules(r))
                             /\ ~SomeStop(FileDenials(r)) /\ ~SomeStop(<< ExecDenial(r) >>)
         /\ evaluate(createBundle(r), "G3").decision \in {"Allow", "Deny"}
<1> DEFINE b == createBundle(r)
           n == G1Rules(r) \o NetRules(r)
           f == n \o FileDenials(r)
           p == f \o Permits(r)
<1>1. Bundle(n) /\ ~SomeAllow(n) /\ (SomeStop(n) <=> SomeStop(NetRules(r)))
  BY G1RulesSay, NetRulesSay, BundlesConcat
<1>2. b = p \o << ExecDenial(r) >>
  BY DEF createBundle
<1> HIDE DEF n
<1>3. /\ Bundle(f) /\ ~SomeAllow(f)
      /\ SomeStop(f) <=> SomeStop(NetRules(r)) \/ SomeStop(FileDenials(r))
  BY <1>1, FileDenialsSay, BundlesConcat
<1> HIDE DEF f
<1>4. /\ Bundle(p) /\ (SomeAllow(p) <=> SomeAllow(Permits(r)))
      /\ SomeStop(p) <=> SomeStop(NetRules(r)) \/ SomeStop(FileDenials(r))
  BY <1>3, PermitsSay, BundlesConcat
<1> HIDE DEF p, b
<1>5. /\ Bundle(b) /\ (SomeAllow(b) <=> SomeAllow(Permits(r)))
      /\ SomeStop(b) <=> \/ SomeStop(NetRules(r)) \/ SomeStop(FileDenials(r))
                         \/ SomeStop(<< ExecDenial(r) >>)
  BY <1>2, <1>4, ExecDenialSays, BundlesConcat
<1>6. /\ evaluate(b, "G3").decision = "Allow" <=> SomeAllow(b) /\ ~SomeStop(b)
      /\ evaluate(b, "G3").decision \in {"Allow", "Deny"}
  <2>1. b \in Seq(ToSet(b)) /\ \A rule \in ToSet(b) : RuleOK(rule)
    BY <1>5 DEF Bundle, SomeRule, RuleOK
  <2> DEFINE R == {rule \in ToSet(b) : rule.gate = "G3"}
  <2>2. /\ evaluate(b, "G3").decision = "Allow" <=>
             (\E rule \in R : Allows(rule)) /\ ~\E rule \in R : Stops(rule)
        /\ evaluate(b, "G3").decision \in {"Allow", "Deny"}
    BY <2>1, RulesDecide
  <2> QED BY <2>2 DEF SomeAllow, SomeStop
<1> QED BY <1>5, <1>6 DEF Permitted, b

Asks(r, action, resource) == r.action = action /\ r.resource = resource

LEMMA Asked ==
  ASSUME NEW action, NEW resource
  PROVE  Asks(Request(action, resource), action, resource)
BY DEF Asks, Request

LEMMA PermittedExec ==
  ASSUME NEW c
  PROVE  Permitted(Request("proc.exec", c)) <=> \A h \in ToSet(destinationsIn(c)) : Reachable(h)
<1> DEFINE r == Request("proc.exec", c)
<1>1. r.action = "proc.exec" /\ r.resource = c
  BY Asked DEF Asks
<1> HIDE DEF r
<1>2. ~IsFile(r) /\ r.action # "net.connect"
  BY <1>1 DEF IsFile
<1>3. SomeAllow(Permits(r)) /\ ~SomeStop(NetRules(r)) /\ ~SomeStop(FileDenials(r))
  BY <1>1, <1>2, PermitsSay, NetRulesSay, FileDenialsSay
<1>4. SomeStop(<< ExecDenial(r) >>) <=> \E h \in ToSet(destinationsIn(c)) : ~Reachable(h)
  BY <1>1, ExecDenialSays
<1>5. Permitted(r) <=> /\ SomeAllow(Permits(r)) /\ ~SomeStop(NetRules(r))
                       /\ ~SomeStop(FileDenials(r)) /\ ~SomeStop(<< ExecDenial(r) >>)
  BY BundleDecides
<1> QED BY <1>3, <1>4, <1>5 DEF r

LEMMA PermittedNet ==
  ASSUME NEW h
  PROVE  Permitted(Request("net.connect", h)) <=> Reachable(h)
<1> DEFINE r == Request("net.connect", h)
<1>1. r.action = "net.connect" /\ r.resource = h
  BY Asked DEF Asks
<1> HIDE DEF r
<1>2. ~IsFile(r) /\ r.action # "fs.read" /\ r.action # "proc.exec"
  BY <1>1 DEF IsFile
<1>3. SomeAllow(Permits(r)) <=> Reachable(h)
  BY <1>1, <1>2, PermitsSay
<1>4. SomeStop(NetRules(r)) <=> ~Reachable(h)
  BY <1>1, NetRulesSay
<1>5. ~SomeStop(FileDenials(r)) /\ ~SomeStop(<< ExecDenial(r) >>)
  BY <1>2, FileDenialsSay, ExecDenialSays
<1>6. Permitted(r) <=> /\ SomeAllow(Permits(r)) /\ ~SomeStop(NetRules(r))
                       /\ ~SomeStop(FileDenials(r)) /\ ~SomeStop(<< ExecDenial(r) >>)
  BY BundleDecides
<1> QED BY <1>3, <1>4, <1>5, <1>6 DEF r

LEMMA PermittedFile ==
  ASSUME NEW action \in {"fs.read", "fs.write"}, NEW q
  PROVE  Permitted(Request(action, q)) <=>
           /\ ~namesVault(q)
           /\ isInside(Workspace, q) \/ (action = "fs.read" /\ isSystemRead(q))
<1> DEFINE r == Request(action, q)
<1>1. r.action = action /\ r.resource = q
  BY Asked DEF Asks
<1> HIDE DEF r
<1>2. IsFile(r) /\ r.action # "net.connect" /\ r.action # "proc.exec"
  BY <1>1 DEF IsFile
<1>3. SomeAllow(Permits(r)) <=>
        \/ isInside(Workspace, q) /\ ~namesVault(q)
        \/ action = "fs.read" /\ isSystemRead(q) /\ ~namesVault(q)
  BY <1>1, <1>2, PermitsSay
<1>4. ~SomeStop(NetRules(r)) /\ ~SomeStop(<< ExecDenial(r) >>)
  BY <1>2, NetRulesSay, ExecDenialSays
<1>5. SomeStop(FileDenials(r)) <=>
        \/ namesVault(q)
        \/ ~isInside(Workspace, q) /\ (action = "fs.write" \/ ~isSystemRead(q))
  BY <1>1, <1>2, FileDenialsSay
<1>6. Permitted(r) <=> /\ SomeAllow(Permits(r)) /\ ~SomeStop(NetRules(r))
                       /\ ~SomeStop(FileDenials(r)) /\ ~SomeStop(<< ExecDenial(r) >>)
  BY BundleDecides
<1> QED BY <1>3, <1>4, <1>5, <1>6 DEF r

LEMMA SmallestExists ==
  ASSUME NEW T, T \subseteq Nat, T # {}
  PROVE  Min(T) \in T
<1>1. IsWellFoundedOn({q \in Nat \X Nat : q[1] < q[2]}, Nat)
  BY NatLessThanWellFounded DEF OpToRel
<1>2. \E t \in T : \A u \in T : ~(<< u, t >> \in {q \in Nat \X Nat : q[1] < q[2]})
  BY <1>1, WFMin
<1>3. PICK t \in T : \A u \in T : ~(u < t)
  BY <1>2
<1>4. \A u \in T : t =< u
  BY <1>3
<1> QED BY <1>4 DEF Min

\* A list of requests has no denial when each of them is permitted.
LEMMA NoDenial ==
  ASSUME NEW X, NEW requests \in Seq(X)
  PROVE  firstDenial(requests) = {} <=> \A r \in ToSet(requests) : Permitted(r)
<1> DEFINE n == Len(requests)
           I == {i \in 1 .. n : evaluate(createBundle(requests[i]), "G3").decision = "Deny"}
<1>1. n \in Nat /\ ToSet(requests) = {requests[i] : i \in 1 .. n}
  BY PlacesOf
<1>2. firstDenial(requests) = LET i == IF I # {} THEN Min(I) ELSE 0
                              IN  IF i = 0 THEN {}
                                  ELSE {evaluate(createBundle(requests[i]), "G3")}
  BY DEF firstDenial, SelectInSeq
<1>3. I # {} => Min(I) # 0
  <2>1. I \subseteq Nat /\ \A i \in I : i # 0
    BY <1>1
  <2> HIDE DEF I
  <2> QED BY <2>1, SmallestExists
<1>4. \A i \in 1 .. n : i \in I <=> ~Permitted(requests[i])
  <2>1. \A i \in 1 .. n :
          /\ evaluate(createBundle(requests[i]), "G3").decision \in {"Allow", "Deny"}
          /\ Permitted(requests[i])
               <=> evaluate(createBundle(requests[i]), "G3").decision = "Allow"
    BY BundleDecides DEF Permitted
  <2> QED BY <2>1
<1>5. firstDenial(requests) = {} <=> I = {}
  <2> DEFINE v(i) == {evaluate(createBundle(requests[i]), "G3")}
  <2>1. \A i : v(i) # {}
    OBVIOUS
  <2>2. firstDenial(requests) = LET i == IF I # {} THEN Min(I) ELSE 0
                                IN  IF i = 0 THEN {} ELSE v(i)
    BY <1>2
  <2> HIDE DEF v, I
  <2> QED BY <1>3, <2>1, <2>2
<1>6. I \subseteq 1 .. n
  OBVIOUS
<1> HIDE DEF I, n
<1>7. I = {} <=> \A i \in 1 .. n : Permitted(requests[i])
  BY <1>4, <1>6
<1> QED BY <1>1, <1>5, <1>7

LEMMA RequestsAre ==
  ASSUME NEW action, NEW X, NEW resources \in Seq(X)
  PROVE  /\ Requests(action, resources) \in Seq({Request(action, x) : x \in X})
         /\ ToSet(Requests(action, resources)) = {Request(action, x) : x \in ToSet(resources)}
<1> DEFINE n == Len(resources)
           s == Requests(action, resources)
<1>1. n \in Nat /\ DOMAIN resources = 1 .. n /\ \A i \in 1 .. n : resources[i] \in X
  BY LenProperties, ElementOfSeq
<1>2. s = [i \in 1 .. n |-> Request(action, resources[i])]
  BY <1>1 DEF Requests
<1> HIDE DEF n, s
<1>3. s \in Seq({Request(action, x) : x \in X})
  BY <1>1, <1>2
<1>4. DOMAIN s = 1 .. n /\ \A i \in 1 .. n : s[i] = Request(action, resources[i])
  BY <1>2
<1>5. ToSet(s) = {s[i] : i \in 1 .. n} /\ ToSet(resources) = {resources[i] : i \in 1 .. n}
  BY <1>1, <1>4 DEF ToSet
<1> QED BY <1>3, <1>4, <1>5 DEF s

-----------------------------------------------------------------------------
(* Files: what is asked of a path is asked of where it leads. *)

LEMMA CanonicalHasNames ==
  ASSUME NEW S, NEW p \in Seq(S)
  PROVE  canonical(p) \in Seq(S) /\ \A i \in 1 .. Len(canonical(p)) : IsName(canonical(p)[i])
<1> DEFINE q == canonical(p)
<1>1. q \in Seq(S)
  BY CanonicalFollows
<1>2. PICK g : Follows(p, Len(p), q, g)
  BY CanonicalFollows
<1>3. \A i \in 1 .. Len(q) : q[i] = p[g[i]] /\ g[i] \in Remaining(p, Len(p))
  BY <1>2 DEF Follows
<1> HIDE DEF q
<1>4. \A i \in 1 .. Len(q) : IsName(q[i])
  BY <1>3 DEF Remaining
<1> QED BY <1>1, <1>4 DEF q

\* A path of names leads where it says.
LEMMA CanonicalOfNames ==
  ASSUME NEW S, NEW q \in Seq(S), \A i \in 1 .. Len(q) : IsName(q[i])
  PROVE  canonical(q) = q
<1> DEFINE n == Len(q)
<1>1. PICK v : Climbs(v, q, S) /\ canonical(q) = v[n]
  BY CanonicalClimbs
<1> DEFINE As(k) == Len(v[k]) = k /\ \A i \in 1 .. k : v[k][i] = q[i]
           N == {k \in Nat : k <= n => As(k)}
<1>2. n \in Nat /\ \A k \in 1 .. n : q[k] \in S
  BY LenProperties, ElementOfSeq
<1>3. /\ v[0] = <<>> /\ \A k \in 0 .. n : v[k] \in Seq(S)
      /\ \A k \in 1 .. n : v[k] = Ascend(v[k - 1], q[k])
  BY <1>1 DEF Climbs
<1> HIDE DEF n
<1>4. 0 \in N
  BY <1>3
<1>5. ASSUME NEW k \in Nat, k \in N PROVE k + 1 \in N
  <2> SUFFICES ASSUME k + 1 <= n PROVE As(k + 1)
    OBVIOUS
  <2>1. k \in 0 .. n /\ k + 1 \in 1 .. n /\ (k + 1) - 1 = k
    BY <1>2
  <2>2. As(k) /\ v[k] \in Seq(S) /\ q[k + 1] \in S
    BY <1>2, <1>3, <1>5, <2>1
  <2>3. v[k + 1] = Append(v[k], q[k + 1])
    <3>1. v[k + 1] = Ascend(v[k], q[k + 1])
      BY <1>3, <2>1
    <3>2. IsName(q[k + 1])
      BY <2>1 DEF n
    <3> QED BY <3>1, <3>2 DEF Ascend, IsName
  <2>4. Len(v[k + 1]) = k + 1 /\ v[k + 1][k + 1] = q[k + 1] /\ \A i \in 1 .. k : v[k + 1][i] = v[k][i]
    BY <2>2, <2>3, AppendProperties
  <2>5. \A i \in 1 .. k + 1 : i \in 1 .. k \/ i = k + 1
    OBVIOUS
  <2> QED BY <2>2, <2>4, <2>5
<1>6. n \in N
  <2> HIDE DEF N
  <2> QED BY <1>2, <1>4, <1>5, Induction
<1>7. As(n) /\ v[n] \in Seq(S)
  BY <1>2, <1>3, <1>6
<1>8. v[n] = q
  BY <1>7, SeqEqual DEF n
<1> QED BY <1>1, <1>8

LEMMA InsideIsWithin ==
  ASSUME NEW directory, directory \in Seq(ToSet(directory)), NEW S, NEW p \in Seq(S)
  PROVE  isInside(directory, canonical(p)) <=> Within(directory, p)
<1>1. canonical(canonical(p)) = canonical(p)
  <2> DEFINE q == canonical(p)
  <2>1. q \in Seq(S) /\ \A i \in 1 .. Len(q) : IsName(q[i])
    BY CanonicalHasNames
  <2> HIDE DEF q
  <2>2. canonical(q) = q
    BY <2>1, CanonicalOfNames
  <2> QED BY <2>2 DEF q
<1>2. canonical(p) = Resolve(p) /\ canonical(directory) = Resolve(directory)
  BY CanonicalIsResolved
<1> QED BY <1>1, <1>2 DEF isInside, Within

LEMMA VaultIsMarked ==
  ASSUME NEW S, NEW p \in Seq(S)
  PROVE  namesVault(canonical(p)) <=> ToSet(Resolve(p)) \cap Marked # {}
<1>1. canonical(p) = Resolve(p)
  BY CanonicalIsResolved
<1> QED BY <1>1 DEF namesVault, ToSet

LEMMA ReadsPermitted ==
  ASSUME NEW S, NEW p \in Seq(S)
  PROVE  /\ Permitted(Request("fs.read", canonical(p))) <=> MayRead(p)
         /\ Permitted(Request("fs.write", canonical(p))) <=> MayWrite(p)
<1> DEFINE q == canonical(p)
<1>1. namesVault(q) <=> ToSet(Resolve(p)) \cap Marked # {}
  BY VaultIsMarked
<1>2. isInside(Workspace, q) <=> Within(Workspace, p)
  BY PolicyAssumption, InsideIsWithin
<1>3. isSystemRead(q) <=> \E s \in SystemReads : Within(s, p)
  <2>1. \A s \in SystemReads : isInside(s, q) <=> Within(s, p)
    BY PolicyAssumption, InsideIsWithin
  <2> QED BY <2>1 DEF isSystemRead
<1> HIDE DEF q
<1>4. Permitted(Request("fs.read", q)) <=>
        ~namesVault(q) /\ (isInside(Workspace, q) \/ isSystemRead(q))
  BY PermittedFile
<1>5. Permitted(Request("fs.write", q)) <=> ~namesVault(q) /\ isInside(Workspace, q)
  BY PermittedFile
<1> QED BY <1>1, <1>2, <1>3, <1>4, <1>5 DEF MayRead, MayWrite, q

-----------------------------------------------------------------------------
(* The loops that gather what a text names. *)

\* After each set of places f has what V has at those of them that are in P.
Gathers(f, n, Y, P, V) ==
  /\ f[{}] = <<>>
  /\ \A s \in SUBSET (1 .. n) :
       s # {} /\ f[s \ {Max(s)}] \in Seq(Y) =>
         /\ f[s] \in Seq(Y)
         /\ ToSet(f[s]) = ToSet(f[s \ {Max(s)}]) \cup (IF Max(s) \in P THEN {V[Max(s)]} ELSE {})

Gives(q, Y, P, V) == q \in Seq(Y) /\ ToSet(q) = {V[i] : i \in P}

LEMMA Gathered ==
  ASSUME NEW n \in Nat, NEW Y, NEW P \in SUBSET (1 .. n), NEW V, NEW f, Gathers(f, n, Y, P, V)
  PROVE  Gives(f[1 .. n], Y, P, V)
<1> DEFINE Has(s) == f[s] \in Seq(Y) /\ ToSet(f[s]) = {V[i] : i \in P \cap s}
           N == {m \in Nat : m <= n => \A s \in SUBSET (1 .. m) : Has(s)}
<1>1. Has({})
  <2>1. ToSet(<<>>) = {}
    BY DEF ToSet
  <2>2. f[{}] = <<>>
    BY DEF Gathers
  <2>3. {V[i] : i \in P \cap {}} = {}
    OBVIOUS
  <2> QED BY <2>1, <2>2, <2>3, EmptySeq
<1>2. 0 \in N
  <2>1. \A s \in SUBSET (1 .. 0) : s = {}
    OBVIOUS
  <2> HIDE DEF Has
  <2> QED BY <1>1, <2>1
<1>3. ASSUME NEW m \in Nat, m \in N PROVE m + 1 \in N
  <2> SUFFICES ASSUME m + 1 <= n, NEW s \in SUBSET (1 .. m + 1) PROVE Has(s)
    <3> HIDE DEF Has
    <3> QED OBVIOUS
  <2>1. CASE s # {}
    <3> DEFINE k == Max(s)
               t == s \ {k}
    <3>1. k \in s /\ t \in SUBSET (1 .. m) /\ s \in SUBSET (1 .. n) /\ m <= n
      BY <2>1, WithoutLargest
    <3>2. Has(t)
      <4> HIDE DEF Has, t
      <4> QED BY <1>3, <3>1
    <3>3. /\ f[s] \in Seq(Y)
          /\ ToSet(f[s]) = ToSet(f[t]) \cup (IF k \in P THEN {V[k]} ELSE {})
      BY <2>1, <3>1, <3>2 DEF Gathers
    <3> HIDE DEF k
    <3>4. {V[i] : i \in P \cap s} = {V[i] : i \in P \cap t} \cup (IF k \in P THEN {V[k]} ELSE {})
      BY <3>1
    <3> QED BY <3>2, <3>3, <3>4
  <2>2. CASE s = {}
    <3> HIDE DEF Has
    <3> QED BY <1>1, <2>2
  <2> QED BY <2>1, <2>2
<1>4. n \in N
  <2> HIDE DEF N
  <2> QED BY <1>2, <1>3, Induction
<1>5. Has(1 .. n)
  <2> HIDE DEF Has
  <2> QED BY <1>4
<1>6. P \cap (1 .. n) = P
  OBVIOUS
<1> QED BY <1>5, <1>6 DEF Gives

LEMMA SetOfAppend ==
  ASSUME NEW Y, NEW s \in Seq(Y), NEW x \in Y
  PROVE  Append(s, x) \in Seq(Y) /\ ToSet(Append(s, x)) = ToSet(s) \cup {x}
<1> DEFINE n == Len(s)
           t == Append(s, x)
<1>1. /\ n \in Nat /\ t \in Seq(Y) /\ Len(t) = n + 1 /\ t[n + 1] = x
      /\ \A i \in 1 .. n : t[i] = s[i]
  BY LenProperties, AppendProperties
<1>2. ToSet(s) = {s[i] : i \in 1 .. n} /\ ToSet(t) = {t[i] : i \in 1 .. n + 1}
  BY <1>1, PlacesOf
<1> HIDE DEF n, t
<1>3. 1 .. n + 1 = (1 .. n) \cup {n + 1}
  BY <1>1
<1>4. {t[i] : i \in 1 .. n} = {s[i] : i \in 1 .. n}
  BY <1>1
<1>5. ToSet(t) = ToSet(s) \cup {x}
  BY <1>1, <1>2, <1>3, <1>4
<1> QED BY <1>1, <1>5 DEF t

LEMMA SetOfOnce ==
  ASSUME NEW Y, NEW s \in Seq(Y), NEW x \in Y
  PROVE  Once(s, x) \in Seq(Y) /\ ToSet(Once(s, x)) = ToSet(s) \cup {x}
BY SetOfAppend DEF Once

\* One turn of the loop of destinationsIn.
Meet(found, w) == IF w.kind = "host" THEN Once(found, w.host) ELSE found

DestinationsKept(seq, f) ==
  f = [s \in SUBSET DOMAIN seq |->
         IF s = {} THEN <<>> ELSE Meet(f[s \ {Max(s)}], seq[Max(s)])]

LEMMA DestinationsInIs ==
  ASSUME NEW seq
  PROVE  destinationsIn(seq) = (CHOOSE f : DestinationsKept(seq, f))[DOMAIN seq]
BY DEF destinationsIn, FoldLeft, MapThenFoldSet, DestinationsKept, Meet

LEMMA DestinationsAre ==
  ASSUME NEW X, NEW seq \in Seq(X)
  PROVE  LET Y == {w.host : w \in X}
         IN  /\ destinationsIn(seq) \in Seq(Y)
             /\ ToSet(destinationsIn(seq)) = {w.host : w \in {u \in ToSet(seq) : u.kind = "host"}}
<1> DEFINE Y == {w.host : w \in X}
           n == Len(seq)
           D == Seq(Y)
           P == {i \in 1 .. n : seq[i].kind = "host"}
           V == [i \in 1 .. n |-> seq[i].host]
           F == [x \in D \X (1 .. n) |-> Meet(x[1], seq[x[2]])]
           empty == <<>>
<1>1. /\ n \in Nat /\ DOMAIN seq = 1 .. n /\ \A i \in 1 .. n : seq[i] \in X
      /\ ToSet(seq) = {seq[i] : i \in 1 .. n}
  BY LenProperties, ElementOfSeq, PlacesOf
<1>2. empty \in D /\ empty = <<>>
  BY EmptySeq
<1> HIDE DEF n, Y, empty
<1>3. ASSUME NEW d \in D, NEW i \in 1 .. n
      PROVE  /\ Meet(d, seq[i]) \in D
             /\ ToSet(Meet(d, seq[i])) = ToSet(d) \cup (IF i \in P THEN {V[i]} ELSE {})
  <2>1. CASE i \in P
    <3>1. seq[i] \in X /\ V[i] = seq[i].host /\ seq[i].kind = "host"
      BY <1>1, <2>1
    <3>2. V[i] \in Y
      BY <3>1 DEF Y
    <3>3. Meet(d, seq[i]) = Once(d, V[i])
      BY <3>1 DEF Meet
    <3> HIDE DEF V, P
    <3> QED BY <2>1, <3>2, <3>3, SetOfOnce
  <2>2. CASE i \notin P
    <3>1. Meet(d, seq[i]) = d
      BY <2>2 DEF Meet
    <3> QED BY <2>2, <3>1
  <2> QED BY <2>1, <2>2
<1>4. ASSUME NEW d \in D, NEW i \in 1 .. n
      PROVE  F[<< d, i >>] = Meet(d, seq[i])
  OBVIOUS
<1>5. F \in [D \X (1 .. n) -> D]
  <2>1. \A x \in D \X (1 .. n) : Meet(x[1], seq[x[2]]) \in D
    BY <1>3
  <2> QED BY <2>1
<1> HIDE DEF D, F, P, V
<1>6. PICK h : Folds(h, n, D, empty, F)
  BY <1>1, <1>2, <1>5, FoldsExist
<1>7. DestinationsKept(seq, h)
  <2>1. ASSUME NEW s \in SUBSET (1 .. n), s # {}
        PROVE  h[s] = Meet(h[s \ {Max(s)}], seq[Max(s)])
    <3> DEFINE i == Max(s)
               t == s \ {i}
    <3>1. i \in s
      BY <1>1, <2>1, LastOfPlaces
    <3>2. h[s] = F[<< h[t], i >>]
      BY <1>6, <2>1 DEF Folds
    <3> HIDE DEF i
    <3>3. h[t] \in D /\ i \in 1 .. n
      BY <1>6, <3>1 DEF Folds
    <3> QED BY <1>4, <3>2, <3>3 DEF i
  <2>2. h = [s \in SUBSET (1 .. n) |-> h[s]] /\ h[{}] = <<>>
    BY <1>2, <1>6 DEF Folds
  <2>3. h = [s \in SUBSET (1 .. n) |->
               IF s = {} THEN <<>> ELSE Meet(h[s \ {Max(s)}], seq[Max(s)])]
    BY <2>1, <2>2
  <2> QED BY <1>1, <2>3 DEF DestinationsKept
<1> DEFINE f == CHOOSE g : DestinationsKept(seq, g)
<1>8. DestinationsKept(seq, f) /\ destinationsIn(seq) = f[1 .. n]
  BY <1>1, <1>7, DestinationsInIs
<1> HIDE DEF f
<1>9. Gathers(f, n, Y, P, V)
  <2>1. f[{}] = <<>>
    BY <1>8 DEF DestinationsKept
  <2>2. ASSUME NEW s \in SUBSET (1 .. n), s # {}, f[s \ {Max(s)}] \in Seq(Y)
        PROVE  /\ f[s] \in Seq(Y)
               /\ ToSet(f[s]) = ToSet(f[s \ {Max(s)}])
                                  \cup (IF Max(s) \in P THEN {V[Max(s)]} ELSE {})
    <3> DEFINE i == Max(s)
               d == f[s \ {i}]
    <3>1. i \in 1 .. n
      BY <1>1, <2>2, LastOfPlaces
    <3>2. f[s] = Meet(d, seq[i])
      BY <1>1, <1>8, <2>2 DEF DestinationsKept
    <3>3. d \in D
      BY <2>2 DEF D
    <3> HIDE DEF i, d
    <3>4. /\ f[s] \in D
          /\ ToSet(f[s]) = ToSet(d) \cup (IF i \in P THEN {V[i]} ELSE {})
      BY <1>3, <3>1, <3>2, <3>3
    <3> QED BY <3>4 DEF i, d, D
  <2> QED BY <2>1, <2>2 DEF Gathers
<1>10. f[1 .. n] \in Seq(Y) /\ ToSet(f[1 .. n]) = {V[i] : i \in P}
  <2>1. P \in SUBSET (1 .. n)
    BY DEF P
  <2>2. Gives(f[1 .. n], Y, P, V)
    BY <1>1, <1>9, <2>1, Gathered
  <2> QED BY <2>2 DEF Gives
<1>11. {V[i] : i \in P} = {w.host : w \in {u \in ToSet(seq) : u.kind = "host"}}
  <2>1. {V[i] : i \in P} = {seq[i].host : i \in P}
    BY DEF V, P
  <2>2. {u \in ToSet(seq) : u.kind = "host"} = {seq[i] : i \in P}
    BY <1>1 DEF P
  <2> DEFINE H == {u \in ToSet(seq) : u.kind = "host"}
  <2>3. \A x : x \in {w.host : w \in H} <=> x \in {seq[i].host : i \in P}
    <3> HIDE DEF H
    <3> QED BY <2>2 DEF H
  <2> QED BY <2>1, <2>3
<1> QED BY <1>8, <1>10, <1>11 DEF Y

\* One turn of the loop of pathsIn.
Trace(found, w) ==
  IF w.kind = "path" /\ w.path # <<>> THEN Once(found, canonical(w.path)) ELSE found

PathsKept(seq, f) ==
  f = [s \in SUBSET DOMAIN seq |->
         IF s = {} THEN <<>> ELSE Trace(f[s \ {Max(s)}], seq[Max(s)])]

LEMMA PathsInIs ==
  ASSUME NEW seq
  PROVE  pathsIn(seq) = (CHOOSE f : PathsKept(seq, f))[DOMAIN seq]
BY DEF pathsIn, FoldLeft, MapThenFoldSet, PathsKept, Trace

LEMMA PathsAre ==
  ASSUME NEW X, NEW seq \in Seq(X)
  PROVE  LET Y == {canonical(w.path) : w \in X}
         IN  /\ pathsIn(seq) \in Seq(Y)
             /\ ToSet(pathsIn(seq)) = {canonical(w.path) : w \in {u \in ToSet(seq) : u.kind = "path" /\ u.path # <<>>}}
<1> DEFINE Y == {canonical(w.path) : w \in X}
           n == Len(seq)
           D == Seq(Y)
           P == {i \in 1 .. n : seq[i].kind = "path" /\ seq[i].path # <<>>}
           V == [i \in 1 .. n |-> canonical(seq[i].path)]
           F == [x \in D \X (1 .. n) |-> Trace(x[1], seq[x[2]])]
           empty == <<>>
<1>1. /\ n \in Nat /\ DOMAIN seq = 1 .. n /\ \A i \in 1 .. n : seq[i] \in X
      /\ ToSet(seq) = {seq[i] : i \in 1 .. n}
  BY LenProperties, ElementOfSeq, PlacesOf
<1>2. empty \in D /\ empty = <<>>
  BY EmptySeq
<1> HIDE DEF n, Y, empty
<1>3. ASSUME NEW d \in D, NEW i \in 1 .. n
      PROVE  /\ Trace(d, seq[i]) \in D
             /\ ToSet(Trace(d, seq[i])) = ToSet(d) \cup (IF i \in P THEN {V[i]} ELSE {})
  <2>1. CASE i \in P
    <3>1. seq[i] \in X /\ V[i] = canonical(seq[i].path) /\ seq[i].kind = "path" /\ seq[i].path # <<>>
      BY <1>1, <2>1
    <3>2. V[i] \in Y
      BY <3>1 DEF Y
    <3>3. Trace(d, seq[i]) = Once(d, V[i])
      BY <3>1 DEF Trace
    <3> HIDE DEF V, P
    <3> QED BY <2>1, <3>2, <3>3, SetOfOnce
  <2>2. CASE i \notin P
    <3>1. Trace(d, seq[i]) = d
      BY <2>2 DEF Trace
    <3> QED BY <2>2, <3>1
  <2> QED BY <2>1, <2>2
<1>4. ASSUME NEW d \in D, NEW i \in 1 .. n
      PROVE  F[<< d, i >>] = Trace(d, seq[i])
  OBVIOUS
<1>5. F \in [D \X (1 .. n) -> D]
  <2>1. \A x \in D \X (1 .. n) : Trace(x[1], seq[x[2]]) \in D
    BY <1>3
  <2> QED BY <2>1
<1> HIDE DEF D, F, P, V
<1>6. PICK h : Folds(h, n, D, empty, F)
  BY <1>1, <1>2, <1>5, FoldsExist
<1>7. PathsKept(seq, h)
  <2>1. ASSUME NEW s \in SUBSET (1 .. n), s # {}
        PROVE  h[s] = Trace(h[s \ {Max(s)}], seq[Max(s)])
    <3> DEFINE i == Max(s)
               t == s \ {i}
    <3>1. i \in s
      BY <1>1, <2>1, LastOfPlaces
    <3>2. h[s] = F[<< h[t], i >>]
      BY <1>6, <2>1 DEF Folds
    <3> HIDE DEF i
    <3>3. h[t] \in D /\ i \in 1 .. n
      BY <1>6, <3>1 DEF Folds
    <3> QED BY <1>4, <3>2, <3>3 DEF i
  <2>2. h = [s \in SUBSET (1 .. n) |-> h[s]] /\ h[{}] = <<>>
    BY <1>2, <1>6 DEF Folds
  <2>3. h = [s \in SUBSET (1 .. n) |->
               IF s = {} THEN <<>> ELSE Trace(h[s \ {Max(s)}], seq[Max(s)])]
    BY <2>1, <2>2
  <2> QED BY <1>1, <2>3 DEF PathsKept
<1> DEFINE f == CHOOSE g : PathsKept(seq, g)
<1>8. PathsKept(seq, f) /\ pathsIn(seq) = f[1 .. n]
  BY <1>1, <1>7, PathsInIs
<1> HIDE DEF f
<1>9. Gathers(f, n, Y, P, V)
  <2>1. f[{}] = <<>>
    BY <1>8 DEF PathsKept
  <2>2. ASSUME NEW s \in SUBSET (1 .. n), s # {}, f[s \ {Max(s)}] \in Seq(Y)
        PROVE  /\ f[s] \in Seq(Y)
               /\ ToSet(f[s]) = ToSet(f[s \ {Max(s)}])
                                  \cup (IF Max(s) \in P THEN {V[Max(s)]} ELSE {})
    <3> DEFINE i == Max(s)
               d == f[s \ {i}]
    <3>1. i \in 1 .. n
      BY <1>1, <2>2, LastOfPlaces
    <3>2. f[s] = Trace(d, seq[i])
      BY <1>1, <1>8, <2>2 DEF PathsKept
    <3>3. d \in D
      BY <2>2 DEF D
    <3> HIDE DEF i, d
    <3>4. /\ f[s] \in D
          /\ ToSet(f[s]) = ToSet(d) \cup (IF i \in P THEN {V[i]} ELSE {})
      BY <1>3, <3>1, <3>2, <3>3
    <3> QED BY <3>4 DEF i, d, D
  <2> QED BY <2>1, <2>2 DEF Gathers
<1>10. f[1 .. n] \in Seq(Y) /\ ToSet(f[1 .. n]) = {V[i] : i \in P}
  <2>1. P \in SUBSET (1 .. n)
    BY DEF P
  <2>2. Gives(f[1 .. n], Y, P, V)
    BY <1>1, <1>9, <2>1, Gathered
  <2> QED BY <2>2 DEF Gives
<1>11. {V[i] : i \in P} = {canonical(w.path) : w \in {u \in ToSet(seq) : u.kind = "path" /\ u.path # <<>>}}
  <2>1. {V[i] : i \in P} = {canonical(seq[i].path) : i \in P}
    BY DEF V, P
  <2>2. {u \in ToSet(seq) : u.kind = "path" /\ u.path # <<>>} = {seq[i] : i \in P}
    BY <1>1 DEF P
  <2> DEFINE W == {u \in ToSet(seq) : u.kind = "path" /\ u.path # <<>>}
             To(w) == canonical(w.path)
  <2>3. W = {seq[i] : i \in P} /\ {V[i] : i \in P} = {To(seq[i]) : i \in P}
    BY <2>1, <2>2
  <2> HIDE DEF P, W, To
  <2>4. {V[i] : i \in P} = {To(w) : w \in W}
    BY <2>3
  <2> QED BY <2>4 DEF W, To
<1> QED BY <1>8, <1>10, <1>11 DEF Y

\* One turn of the loop of ChangeRequests.
AskedBy(c) == Request(IF c.change = "read" THEN "fs.read" ELSE "fs.write", canonical(c.path))

Note(found, c) == IF c.absolute THEN Append(found, AskedBy(c)) ELSE found

ChangesKept(seq, f) ==
  f = [s \in SUBSET DOMAIN seq |->
         IF s = {} THEN <<>> ELSE Note(f[s \ {Max(s)}], seq[Max(s)])]

LEMMA ChangeRequestsIs ==
  ASSUME NEW seq
  PROVE  ChangeRequests(seq) = (CHOOSE f : ChangesKept(seq, f))[DOMAIN seq]
BY DEF ChangeRequests, FoldLeft, MapThenFoldSet, ChangesKept, Note, AskedBy

LEMMA ChangesAre ==
  ASSUME NEW X, NEW seq \in Seq(X)
  PROVE  LET Y == {AskedBy(w) : w \in X}
         IN  /\ ChangeRequests(seq) \in Seq(Y)
             /\ ToSet(ChangeRequests(seq)) = {AskedBy(w) : w \in {u \in ToSet(seq) : u.absolute}}
<1> DEFINE Y == {AskedBy(w) : w \in X}
           n == Len(seq)
           D == Seq(Y)
           P == {i \in 1 .. n : seq[i].absolute}
           V == [i \in 1 .. n |-> AskedBy(seq[i])]
           F == [x \in D \X (1 .. n) |-> Note(x[1], seq[x[2]])]
           empty == <<>>
<1>1. /\ n \in Nat /\ DOMAIN seq = 1 .. n /\ \A i \in 1 .. n : seq[i] \in X
      /\ ToSet(seq) = {seq[i] : i \in 1 .. n}
  BY LenProperties, ElementOfSeq, PlacesOf
<1>2. empty \in D /\ empty = <<>>
  BY EmptySeq
<1> HIDE DEF n, Y, empty
<1>3. ASSUME NEW d \in D, NEW i \in 1 .. n
      PROVE  /\ Note(d, seq[i]) \in D
             /\ ToSet(Note(d, seq[i])) = ToSet(d) \cup (IF i \in P THEN {V[i]} ELSE {})
  <2>1. CASE i \in P
    <3>1. seq[i] \in X /\ V[i] = AskedBy(seq[i]) /\ seq[i].absolute
      BY <1>1, <2>1
    <3>2. V[i] \in Y
      BY <3>1 DEF Y
    <3>3. Note(d, seq[i]) = Append(d, V[i])
      BY <3>1 DEF Note
    <3> HIDE DEF V, P
    <3> QED BY <2>1, <3>2, <3>3, SetOfAppend
  <2>2. CASE i \notin P
    <3>1. Note(d, seq[i]) = d
      BY <2>2 DEF Note
    <3> QED BY <2>2, <3>1
  <2> QED BY <2>1, <2>2
<1>4. ASSUME NEW d \in D, NEW i \in 1 .. n
      PROVE  F[<< d, i >>] = Note(d, seq[i])
  OBVIOUS
<1>5. F \in [D \X (1 .. n) -> D]
  <2>1. \A x \in D \X (1 .. n) : Note(x[1], seq[x[2]]) \in D
    BY <1>3
  <2> QED BY <2>1
<1> HIDE DEF D, F, P, V
<1>6. PICK h : Folds(h, n, D, empty, F)
  BY <1>1, <1>2, <1>5, FoldsExist
<1>7. ChangesKept(seq, h)
  <2>1. ASSUME NEW s \in SUBSET (1 .. n), s # {}
        PROVE  h[s] = Note(h[s \ {Max(s)}], seq[Max(s)])
    <3> DEFINE i == Max(s)
               t == s \ {i}
    <3>1. i \in s
      BY <1>1, <2>1, LastOfPlaces
    <3>2. h[s] = F[<< h[t], i >>]
      BY <1>6, <2>1 DEF Folds
    <3> HIDE DEF i
    <3>3. h[t] \in D /\ i \in 1 .. n
      BY <1>6, <3>1 DEF Folds
    <3> QED BY <1>4, <3>2, <3>3 DEF i
  <2>2. h = [s \in SUBSET (1 .. n) |-> h[s]] /\ h[{}] = <<>>
    BY <1>2, <1>6 DEF Folds
  <2>3. h = [s \in SUBSET (1 .. n) |->
               IF s = {} THEN <<>> ELSE Note(h[s \ {Max(s)}], seq[Max(s)])]
    BY <2>1, <2>2
  <2> QED BY <1>1, <2>3 DEF ChangesKept
<1> DEFINE f == CHOOSE g : ChangesKept(seq, g)
<1>8. ChangesKept(seq, f) /\ ChangeRequests(seq) = f[1 .. n]
  BY <1>1, <1>7, ChangeRequestsIs
<1> HIDE DEF f
<1>9. Gathers(f, n, Y, P, V)
  <2>1. f[{}] = <<>>
    BY <1>8 DEF ChangesKept
  <2>2. ASSUME NEW s \in SUBSET (1 .. n), s # {}, f[s \ {Max(s)}] \in Seq(Y)
        PROVE  /\ f[s] \in Seq(Y)
               /\ ToSet(f[s]) = ToSet(f[s \ {Max(s)}])
                                  \cup (IF Max(s) \in P THEN {V[Max(s)]} ELSE {})
    <3> DEFINE i == Max(s)
               d == f[s \ {i}]
    <3>1. i \in 1 .. n
      BY <1>1, <2>2, LastOfPlaces
    <3>2. f[s] = Note(d, seq[i])
      BY <1>1, <1>8, <2>2 DEF ChangesKept
    <3>3. d \in D
      BY <2>2 DEF D
    <3> HIDE DEF i, d
    <3>4. /\ f[s] \in D
          /\ ToSet(f[s]) = ToSet(d) \cup (IF i \in P THEN {V[i]} ELSE {})
      BY <1>3, <3>1, <3>2, <3>3
    <3> QED BY <3>4 DEF i, d, D
  <2> QED BY <2>1, <2>2 DEF Gathers
<1>10. f[1 .. n] \in Seq(Y) /\ ToSet(f[1 .. n]) = {V[i] : i \in P}
  <2>1. P \in SUBSET (1 .. n)
    BY DEF P
  <2>2. Gives(f[1 .. n], Y, P, V)
    BY <1>1, <1>9, <2>1, Gathered
  <2> QED BY <2>2 DEF Gives
<1>11. {V[i] : i \in P} = {AskedBy(w) : w \in {u \in ToSet(seq) : u.absolute}}
  <2>1. {V[i] : i \in P} = {AskedBy(seq[i]) : i \in P}
    BY DEF V, P
  <2>2. {u \in ToSet(seq) : u.absolute} = {seq[i] : i \in P}
    BY <1>1 DEF P
  <2> QED BY <2>1, <2>2
<1> QED BY <1>8, <1>10, <1>11 DEF Y

-----------------------------------------------------------------------------
(* The text of a command, of its parts one after the other. *)

\* v[i] is what the first i sequences of s are, one after the other.
Joins(v, s) == v[0] = <<>> /\ \A i \in 1 .. Len(s) : v[i] = v[i - 1] \o s[i]

LEMMA FlattenIs ==
  ASSUME NEW X, NEW s \in Seq(Seq(X))
  PROVE  \E v : /\ Joins(v, s)
                /\ FlattenSeq(s) = v[Len(s)]
                /\ \A i \in 0 .. Len(s) : v[i] \in Seq(X)
<1> DEFINE n == Len(s)
           Val(f, i) == IF i = 1 THEN s[i] ELSE f[i - 1] \o s[i]
           N == {k \in Nat : k <= n => \E f : f = [i \in 1 .. k |-> Val(f, i)]}
<1>1. n \in Nat /\ \A i \in 1 .. n : s[i] \in Seq(X)
  BY LenProperties, ElementOfSeq
<1>2. 0 \in N
  <2> DEFINE f == [i \in 1 .. 0 |-> <<>>]
  <2>1. f = [i \in 1 .. 0 |-> Val(f, i)]
    OBVIOUS
  <2> HIDE DEF f, Val
  <2> QED BY <2>1
<1>3. ASSUME NEW k \in Nat, k \in N PROVE k + 1 \in N
  <2> SUFFICES ASSUME k + 1 <= n PROVE \E f : f = [i \in 1 .. k + 1 |-> Val(f, i)]
    <3> HIDE DEF Val
    <3> QED BY DEF N
  <2>1. PICK f : f = [i \in 1 .. k |-> Val(f, i)]
    <3> HIDE DEF Val
    <3> QED BY <1>1, <1>3
  <2> DEFINE g == [i \in 1 .. k + 1 |-> Val(f, i)]
  <2>2. \A i \in 1 .. k : g[i] = f[i]
    <3> DEFINE e == [i \in 1 .. k |-> Val(f, i)]
    <3>1. \A i \in 1 .. k : e[i] = Val(f, i)
      <4> HIDE DEF Val
      <4> QED OBVIOUS
    <3>2. f = e
      BY <2>1
    <3> HIDE DEF e
    <3>3. \A i \in 1 .. k : f[i] = Val(f, i)
      <4> HIDE DEF Val
      <4> QED BY <3>1, <3>2
    <3>4. \A i \in 1 .. k : i \in 1 .. k + 1
      OBVIOUS
    <3> HIDE DEF Val
    <3> QED BY <3>3, <3>4
  <2>3. \A i \in 1 .. k + 1 : Val(f, i) = Val(g, i)
    <3> HIDE DEF g
    <3>1. \A i \in 1 .. k + 1 : i # 1 => i - 1 \in 1 .. k
      OBVIOUS
    <3> QED BY <2>2, <3>1
  <2>4. g = [i \in 1 .. k + 1 |-> Val(g, i)]
    <3> HIDE DEF Val
    <3> QED BY <2>3
  <2> HIDE DEF g, Val
  <2> QED BY <2>4
<1>4. n \in N
  <2> HIDE DEF N
  <2> QED BY <1>1, <1>2, <1>3, Induction
<1> DEFINE flatten == CHOOSE f : f = [i \in 1 .. n |-> Val(f, i)]
<1>5. flatten = [i \in 1 .. n |-> Val(flatten, i)]
  <2>1. \E f : f = [i \in 1 .. n |-> Val(f, i)]
    <3> HIDE DEF Val
    <3> QED BY <1>1, <1>4
  <2> HIDE DEF Val
  <2> QED BY <2>1
<1>6. FlattenSeq(s) = IF n = 0 THEN s ELSE flatten[n]
  BY DEF FlattenSeq
<1> HIDE DEF flatten, n
<1> DEFINE v == [i \in 0 .. n |-> IF i = 0 THEN <<>> ELSE flatten[i]]
<1>7. ASSUME NEW i \in 1 .. n PROVE v[i] = v[i - 1] \o s[i]
  <2>1. v[i] = Val(flatten, i)
    <3> HIDE DEF Val
    <3> QED BY <1>1, <1>5
  <2>2. CASE i = 1
    <3>1. v[i - 1] = <<>> /\ s[i] \in Seq(X)
      BY <1>1, <2>2
    <3>2. <<>> \o s[i] = s[i]
      BY <3>1, ConcatEmptySeq
    <3> QED BY <2>1, <2>2, <3>1, <3>2
  <2>3. CASE i # 1
    <3>1. i - 1 \in 0 .. n /\ i - 1 # 0
      BY <1>1, <2>3
    <3> QED BY <2>1, <2>3, <3>1
  <2> QED BY <2>2, <2>3
<1>8. v[0] = <<>>
  BY <1>1
<1> DEFINE M == {i \in Nat : i <= n => v[i] \in Seq(X)}
<1>9. 0 \in M
  BY <1>8
<1> HIDE DEF v
<1>10. ASSUME NEW i \in Nat, i \in M PROVE i + 1 \in M
  <2> SUFFICES ASSUME i + 1 <= n PROVE v[i + 1] \in Seq(X)
    OBVIOUS
  <2>1. i + 1 \in 1 .. n /\ (i + 1) - 1 = i /\ i <= n
    BY <1>1
  <2>2. v[i] \in Seq(X) /\ s[i + 1] \in Seq(X)
    BY <1>1, <1>10, <2>1
  <2>3. v[i + 1] = v[i] \o s[i + 1]
    BY <1>7, <2>1
  <2> QED BY <2>2, <2>3, ConcatProperties
<1>11. \A i \in 0 .. n : v[i] \in Seq(X)
  <2>1. Nat \subseteq M
    <3> HIDE DEF M
    <3> QED BY <1>9, <1>10, Induction
  <2> QED BY <1>1, <2>1
<1>12. FlattenSeq(s) = v[n]
  <2>1. n = 0 => s = <<>>
    BY EmptySeq, LenProperties DEF n
  <2>2. n # 0 => v[n] = flatten[n]
    BY <1>1 DEF v
  <2> QED BY <1>6, <1>8, <2>1, <2>2
<1> QED BY <1>7, <1>8, <1>11, <1>12 DEF Joins, n

\* Each of the sequences is where it was put.
LEMMA JoinsKeep ==
  ASSUME NEW X, NEW s \in Seq(Seq(X)), NEW v, Joins(v, s), \A i \in 0 .. Len(s) : v[i] \in Seq(X)
  PROVE  \A i \in 0 .. Len(s) :
           /\ Len(v[i]) <= Len(v[Len(s)])
           /\ \A q \in 1 .. Len(v[i]) : v[Len(s)][q] = v[i][q]
<1> DEFINE n == Len(s)
           In(i) == Len(v[i]) <= Len(v[n]) /\ \A q \in 1 .. Len(v[i]) : v[n][q] = v[i][q]
           N == {d \in Nat : d <= n => In(n - d)}
<1>1. /\ n \in Nat /\ \A i \in 1 .. n : s[i] \in Seq(X) /\ v[i] = v[i - 1] \o s[i]
      /\ \A i \in 0 .. n : v[i] \in Seq(X)
  BY LenProperties, ElementOfSeq DEF Joins
<1> HIDE DEF n
<1>2. 0 \in N
  <2>1. v[n] \in Seq(X) /\ n - 0 = n
    BY <1>1
  <2>2. Len(v[n]) \in Nat
    BY <2>1, LenProperties
  <2>3. In(n)
    BY <2>2
  <2> HIDE DEF In
  <2> QED BY <2>1, <2>3
<1>3. ASSUME NEW d \in Nat, d \in N PROVE d + 1 \in N
  <2> SUFFICES ASSUME d + 1 <= n PROVE In(n - (d + 1))
    <3> HIDE DEF In
    <3> QED OBVIOUS
  <2> DEFINE i == n - d
             a == v[i - 1]
             b == v[i]
  <2>1. i \in 1 .. n /\ i - 1 \in 0 .. n /\ i \in 0 .. n /\ n - (d + 1) = i - 1 /\ d <= n
    BY <1>1
  <2>2. In(i)
    <3> HIDE DEF In
    <3> QED BY <1>3, <2>1
  <2> HIDE DEF i
  <2>3. a \in Seq(X) /\ s[i] \in Seq(X) /\ b = a \o s[i] /\ b \in Seq(X) /\ v[n] \in Seq(X)
    <3>1. n \in 0 .. n
      BY <1>1
    <3>2. s[i] \in Seq(X) /\ v[i] = v[i - 1] \o s[i]
      BY <1>1, <2>1
    <3>3. v[i - 1] \in Seq(X) /\ v[i] \in Seq(X) /\ v[n] \in Seq(X)
      BY <1>1, <2>1, <3>1
    <3> QED BY <3>2, <3>3
  <2> DEFINE c == s[i]
  <2> HIDE DEF a, b, c
  <2>4. /\ Len(a) \in Nat /\ Len(c) \in Nat /\ Len(b) = Len(a) + Len(c) /\ Len(v[n]) \in Nat
        /\ \A q \in 1 .. Len(a) : b[q] = a[q]
    <3>1. a \in Seq(X) /\ c \in Seq(X) /\ b = a \o c /\ v[n] \in Seq(X)
      BY <2>3 DEF c
    <3>2. Len(a) \in Nat /\ Len(c) \in Nat /\ Len(v[n]) \in Nat
      BY <3>1, LenProperties
    <3>3. /\ Len(b) = Len(a) + Len(c)
          /\ \A q \in 1 .. Len(a) + Len(c) : b[q] = IF q <= Len(a) THEN a[q] ELSE c[q - Len(a)]
      BY <3>1, ConcatProperties
    <3> QED BY <3>2, <3>3
  <2>5. Len(b) <= Len(v[n]) /\ \A q \in 1 .. Len(b) : v[n][q] = b[q]
    BY <2>2 DEF a, b
  <2>6. Len(a) <= Len(v[n]) /\ \A q \in 1 .. Len(a) : v[n][q] = a[q]
    BY <2>4, <2>5
  <2> QED BY <2>1, <2>6 DEF a
<1>4. Nat \subseteq N
  <2> HIDE DEF N
  <2> QED BY <1>2, <1>3, Induction
<1>5. ASSUME NEW i \in 0 .. n PROVE In(i)
  <2>1. n - i \in Nat /\ n - i <= n /\ n - (n - i) = i
    BY <1>1
  <2>2. n - i \in N
    <3> HIDE DEF N
    <3> QED BY <1>4, <2>1
  <2> HIDE DEF In
  <2> QED BY <2>1, <2>2
<1> QED BY <1>5 DEF n

LEMMA JoinsGather ==
  ASSUME NEW X, NEW s \in Seq(Seq(X)), NEW v, Joins(v, s), \A i \in 0 .. Len(s) : v[i] \in Seq(X)
  PROVE  ToSet(v[Len(s)]) = UNION {ToSet(s[i]) : i \in 1 .. Len(s)}
<1> DEFINE n == Len(s)
           All(k) == UNION {ToSet(s[i]) : i \in 1 .. k}
           N == {k \in Nat : k <= n => ToSet(v[k]) = All(k)}
<1>1. /\ n \in Nat /\ \A i \in 1 .. n : s[i] \in Seq(X) /\ v[i] = v[i - 1] \o s[i]
      /\ v[0] = <<>> /\ \A i \in 0 .. n : v[i] \in Seq(X)
  BY LenProperties, ElementOfSeq DEF Joins
<1> HIDE DEF n
<1>2. 0 \in N
  <2>1. ToSet(v[0]) = {}
    BY <1>1 DEF ToSet
  <2>2. All(0) = {}
    OBVIOUS
  <2> HIDE DEF All
  <2> QED BY <2>1, <2>2
<1>3. ASSUME NEW k \in Nat, k \in N PROVE k + 1 \in N
  <2> SUFFICES ASSUME k + 1 <= n PROVE ToSet(v[k + 1]) = All(k + 1)
    <3> HIDE DEF All
    <3> QED OBVIOUS
  <2>1. k + 1 \in 1 .. n /\ k \in 0 .. n /\ (k + 1) - 1 = k
    BY <1>1
  <2>2. ToSet(v[k]) = All(k)
    <3> HIDE DEF All
    <3> QED BY <1>3, <2>1
  <2>3. All(k + 1) = All(k) \cup ToSet(s[k + 1])
    <3>1. 1 .. k + 1 = (1 .. k) \cup {k + 1}
      OBVIOUS
    <3> QED BY <3>1
  <2> HIDE DEF All
  <2>4. v[k] \in Seq(X) /\ s[k + 1] \in Seq(X) /\ v[k + 1] = v[k] \o s[k + 1]
    BY <1>1, <2>1
  <2>5. ToSet(v[k + 1]) = ToSet(v[k]) \cup ToSet(s[k + 1])
    BY <2>4, SetOfConcat
  <2> QED BY <2>2, <2>3, <2>5
<1>4. n \in N
  <2> HIDE DEF N
  <2> QED BY <1>1, <1>2, <1>3, Induction
<1> QED BY <1>1, <1>4 DEF n

-----------------------------------------------------------------------------
(* stripHeredocs: what is left of a command without its bodies. *)

\* One turn of the loop, at a word w.
Pass(done, w) ==
  IF done.open = {}
  THEN [kept |-> Append(done.kept, w), open |-> IF w.kind = "opens" THEN {w.tag} ELSE {}]
  ELSE IF w.kind = "closes" /\ w.tag \in done.open
       THEN [done EXCEPT !.open = {}]
       ELSE done

Outside == [kept |-> <<>>, open |-> {}]

StripKeeps(c, f) ==
  f = [s \in SUBSET DOMAIN c |->
         IF s = {} THEN Outside ELSE Pass(f[s \ {Max(s)}], c[Max(s)])]

LEMMA StripIs ==
  ASSUME NEW c
  PROVE  stripHeredocs(c) = (CHOOSE f : StripKeeps(c, f))[DOMAIN c].kept
BY DEF stripHeredocs, FoldLeft, MapThenFoldSet, StripKeeps, Pass, Outside

Passing(X) == [kept : Seq(X), open : SUBSET {w.tag : w \in X}]

\* v[k] is what the loop has after the first k words of c.
Strips(v, c, X) ==
  /\ v \in [0 .. Len(c) -> Passing(X)] /\ v[0] = Outside
  /\ \A k \in 1 .. Len(c) : v[k] = Pass(v[k - 1], c[k])

LEMMA PassStays ==
  ASSUME NEW X, NEW d \in Passing(X), NEW w \in X
  PROVE  Pass(d, w) \in Passing(X)
<1> DEFINE T == {x.tag : x \in X}
<1>1. d = [kept |-> d.kept, open |-> d.open] /\ d.kept \in Seq(X) /\ d.open \subseteq T
  BY DEF Passing
<1>2. Append(d.kept, w) \in Seq(X)
  BY <1>1, AppendProperties
<1>3. w.tag \in T
  OBVIOUS
<1> HIDE DEF T
<1>4. CASE d.open = {}
  <2>1. Pass(d, w) = [kept |-> Append(d.kept, w), open |-> IF w.kind = "opens" THEN {w.tag} ELSE {}]
    BY <1>4 DEF Pass
  <2> QED BY <1>2, <1>3, <2>1 DEF Passing, T
<1>5. CASE d.open # {}
  <2>1. Pass(d, w) = d \/ Pass(d, w) = [kept |-> d.kept, open |-> {}]
    BY <1>1, <1>5 DEF Pass
  <2> QED BY <1>1, <2>1 DEF Passing, T
<1> QED BY <1>4, <1>5

LEMMA StripTraces ==
  ASSUME NEW X, NEW c \in Seq(X)
  PROVE  \E v : Strips(v, c, X) /\ stripHeredocs(c) = v[Len(c)].kept
<1> DEFINE n == Len(c)
           D == Passing(X)
           base == Outside
           F == [x \in D \X (1 .. n) |-> Pass(x[1], c[x[2]])]
<1>1. n \in Nat /\ DOMAIN c = 1 .. n /\ \A i \in 1 .. n : c[i] \in X
  BY LenProperties, ElementOfSeq
<1>2. base \in D /\ base = Outside
  BY DEF Outside, Passing
<1> HIDE DEF n, base
<1>3. ASSUME NEW d \in D, NEW i \in 1 .. n
      PROVE  F[<< d, i >>] = Pass(d, c[i]) /\ F[<< d, i >>] \in D
  <2>1. F[<< d, i >>] = Pass(d, c[i])
    OBVIOUS
  <2> HIDE DEF F
  <2> QED BY <1>1, <2>1, PassStays
<1>4. F \in [D \X (1 .. n) -> D]
  <2>1. \A x \in D \X (1 .. n) : Pass(x[1], c[x[2]]) \in D
    BY <1>1, PassStays
  <2> QED BY <2>1
<1> HIDE DEF D, F
<1>5. PICK h : Folds(h, n, D, base, F)
  BY <1>1, <1>2, <1>4, FoldsExist
<1>6. StripKeeps(c, h)
  <2>1. ASSUME NEW s \in SUBSET (1 .. n), s # {}
        PROVE  h[s] = Pass(h[s \ {Max(s)}], c[Max(s)])
    <3> DEFINE i == Max(s)
               t == s \ {i}
    <3>1. i \in s
      BY <1>1, <2>1, LastOfPlaces
    <3>2. h[s] = F[<< h[t], i >>]
      BY <1>5, <2>1 DEF Folds
    <3> HIDE DEF i
    <3>3. h[t] \in D /\ i \in 1 .. n
      BY <1>5, <3>1 DEF Folds
    <3> QED BY <1>3, <3>2, <3>3 DEF i
  <2>2. h = [s \in SUBSET (1 .. n) |-> h[s]] /\ h[{}] = Outside
    BY <1>2, <1>5 DEF Folds
  <2>3. h = [s \in SUBSET (1 .. n) |-> IF s = {} THEN Outside ELSE Pass(h[s \ {Max(s)}], c[Max(s)])]
    BY <2>1, <2>2
  <2> QED BY <1>1, <2>3 DEF StripKeeps
<1> DEFINE f == CHOOSE g : StripKeeps(c, g)
<1>7. StripKeeps(c, f) /\ stripHeredocs(c) = f[1 .. n].kept
  BY <1>1, <1>6, StripIs
<1> HIDE DEF f
<1>8. KeepsWithin(f, n, D, base, F)
  <2>1. f[{}] = base
    BY <1>2, <1>7 DEF StripKeeps
  <2>2. ASSUME NEW s \in SUBSET (1 .. n), s # {}, f[s \ {Max(s)}] \in D
        PROVE  f[s] = F[<< f[s \ {Max(s)}], Max(s) >>]
    <3> DEFINE i == Max(s)
               d == f[s \ {i}]
    <3>1. i \in 1 .. n
      BY <1>1, <2>2, LastOfPlaces
    <3>2. f[s] = Pass(d, c[i])
      BY <1>1, <1>7, <2>2 DEF StripKeeps
    <3>3. d \in D
      BY <2>2
    <3> HIDE DEF i, d
    <3>4. F[<< d, i >>] = Pass(d, c[i])
      BY <1>3, <3>1, <3>3
    <3> QED BY <3>2, <3>4 DEF i, d
  <2> QED BY <2>1, <2>2 DEF KeepsWithin
<1>9. EndsAs(f, n, D, base, F)
  <2>1. n \in Nat /\ base \in D
    BY <1>1, <1>2
  <2> QED BY ONLY <1>4, <1>8, <2>1, FoldEnds
<1>10. PICK v : Traces(v, n, D, base, F) /\ f[1 .. n] = v[n]
  BY <1>9 DEF EndsAs
<1>11. ASSUME NEW k \in 1 .. n PROVE v[k] = Pass(v[k - 1], c[k])
  <2>1. v[k - 1] \in D /\ v[k] = F[<< v[k - 1], k >>]
    <3>1. k - 1 \in 0 .. n
      BY <1>1
    <3> QED BY <1>10, <3>1 DEF Traces
  <2> QED BY <1>3, <2>1
<1>12. v \in [0 .. n -> D] /\ v[0] = Outside
  BY <1>2, <1>10 DEF Traces
<1>13. Strips(v, c, X)
  BY <1>11, <1>12 DEF Strips, n, D
<1> QED BY <1>7, <1>10, <1>13 DEF n

\* What a word w does to it.
Takes(d, e, w) ==
  /\ d.open = {} => /\ ToSet(e.kept) = ToSet(d.kept) \cup {w}
                    /\ e.open = IF w.kind = "opens" THEN {w.tag} ELSE {}
  /\ d.open # {} => /\ e.kept = d.kept
                    /\ w.kind = "closes" /\ w.tag \in d.open => e.open = {}
                    /\ ~(w.kind = "closes" /\ w.tag \in d.open) => e = d

LEMMA PassSays ==
  ASSUME NEW X, NEW d \in Passing(X), NEW w \in X
  PROVE  Takes(d, Pass(d, w), w)
<1>1. d = [kept |-> d.kept, open |-> d.open] /\ d.kept \in Seq(X)
  BY DEF Passing
<1>2. CASE d.open = {}
  <2>1. Pass(d, w) = [kept |-> Append(d.kept, w), open |-> IF w.kind = "opens" THEN {w.tag} ELSE {}]
    BY <1>2 DEF Pass
  <2>2. ToSet(Append(d.kept, w)) = ToSet(d.kept) \cup {w}
    BY <1>1, SetOfAppend
  <2> QED BY <1>2, <2>1, <2>2 DEF Takes
<1>3. CASE d.open # {}
  <2>1. Pass(d, w) = IF w.kind = "closes" /\ w.tag \in d.open
                     THEN [kept |-> d.kept, open |-> {}] ELSE d
    <3> DEFINE e == [d EXCEPT !.open = {}]
    <3>1. e = [kept |-> d.kept, open |-> {}]
      <4> DEFINE x == d.kept
                 y == d.open
      <4>1. d = [kept |-> x, open |-> y]
        BY <1>1
      <4> HIDE DEF x, y
      <4>2. [d EXCEPT !.open = {}] = [kept |-> x, open |-> {}]
        BY <4>1
      <4> QED BY <4>2 DEF x
    <3>2. Pass(d, w) = IF w.kind = "closes" /\ w.tag \in d.open THEN e ELSE d
      BY <1>3 DEF Pass
    <3> HIDE DEF e
    <3> QED BY <3>1, <3>2
  <2> QED BY <1>3, <2>1 DEF Takes
<1> QED BY <1>2, <1>3

\* A word of a command that opens no here-document, or a here-document none
\* of whose lines closes it.
WellFormed(X, p) ==
  IF "body" \in DOMAIN p
  THEN /\ Dropped(p) \in Seq(X) /\ Opens(p.tag) \in X /\ Closes(p.tag) \in X /\ p.closed \in BOOLEAN
       /\ \A w \in ToSet(Dropped(p)) : ~(w.kind = "closes" /\ w.tag = p.tag)
  ELSE p \in X /\ p.kind # "opens"

\* What a part shows outside of bodies, and all that it says.
Shown(p) == IF "body" \in DOMAIN p THEN Opens(p.tag) ELSE p

Said(p) ==
  IF "body" \in DOMAIN p
  THEN {Opens(p.tag)} \cup ToSet(Dropped(p)) \cup (IF p.closed THEN {Closes(p.tag)} ELSE {})
  ELSE {p}

Ends(p) == "body" \in DOMAIN p => p.closed

LEMMA TextOfWord ==
  ASSUME NEW X, NEW p, WellFormed(X, p), "body" \notin DOMAIN p
  PROVE  TextOf(p) \in Seq(X) /\ Len(TextOf(p)) = 1 /\ TextOf(p)[1] = p /\ ToSet(TextOf(p)) = {p}
<1> DEFINE s == << p >>
<1>1. p \in X
  BY DEF WellFormed
<1>2. s \in Seq(X) /\ Len(s) = 1 /\ s[1] = p /\ ToSet(s) = {p}
  BY <1>1 DEF ToSet
<1>3. TextOf(p) = s
  BY DEF TextOf
<1> HIDE DEF s
<1> QED BY <1>2, <1>3

\* A here-document has its opening, what is dropped and, maybe, the line that
\* closes it.
Written(t, p) ==
  LET m == Len(Dropped(p))
  IN  /\ Len(t) = IF p.closed THEN m + 2 ELSE m + 1
      /\ t[1] = Opens(p.tag) /\ \A j \in 1 .. m : t[1 + j] = Dropped(p)[j]
      /\ p.closed => t[m + 2] = Closes(p.tag)

LEMMA TextOfDocument ==
  ASSUME NEW X, NEW p, WellFormed(X, p), "body" \in DOMAIN p
  PROVE  TextOf(p) \in Seq(X) /\ Written(TextOf(p), p) /\ ToSet(TextOf(p)) = Said(p)
<1> DEFINE b == Dropped(p)
           a == << Opens(p.tag) >>
           z == IF p.closed THEN << Closes(p.tag) >> ELSE <<>>
           m == Len(b)
           u == a \o b
           t == u \o z
<1>1. b \in Seq(X) /\ Opens(p.tag) \in X /\ Closes(p.tag) \in X /\ p.closed \in BOOLEAN
  BY DEF WellFormed
<1>2. a \in Seq(X) /\ Len(a) = 1 /\ a[1] = Opens(p.tag) /\ ToSet(a) = {Opens(p.tag)}
  BY <1>1 DEF ToSet
<1>3. /\ z \in Seq(X) /\ Len(z) = (IF p.closed THEN 1 ELSE 0)
      /\ p.closed => z[1] = Closes(p.tag)
      /\ ToSet(z) = IF p.closed THEN {Closes(p.tag)} ELSE {}
  <2>1. CASE p.closed
    <3> DEFINE y == << Closes(p.tag) >>
    <3>1. y \in Seq(X) /\ Len(y) = 1 /\ y[1] = Closes(p.tag) /\ ToSet(y) = {Closes(p.tag)}
      BY <1>1 DEF ToSet
    <3>2. z = y
      BY <2>1
    <3> HIDE DEF y, z
    <3> QED BY <2>1, <3>1, <3>2
  <2>2. CASE ~p.closed
    <3>1. z = <<>>
      BY <2>2
    <3>2. ToSet(<<>>) = {}
      BY DEF ToSet
    <3> HIDE DEF z
    <3> QED BY <2>2, <3>1, <3>2, EmptySeq
  <2> QED BY <2>1, <2>2
<1>4. TextOf(p) = t
  BY DEF TextOf
<1>5. m \in Nat
  BY <1>1, LenProperties
<1> HIDE DEF a, b, m, z
<1>6. /\ u \in Seq(X) /\ Len(u) = m + 1 /\ ToSet(u) = {Opens(p.tag)} \cup ToSet(b)
      /\ u[1] = Opens(p.tag) /\ \A j \in 1 .. m : u[1 + j] = b[j]
  <2>1. u \in Seq(X) /\ ToSet(u) = {Opens(p.tag)} \cup ToSet(b)
    BY <1>1, <1>2, SetOfConcat DEF b
  <2>2. b \in Seq(X)
    BY <1>1 DEF b
  <2>3. Len(u) = 1 + m /\ \A i \in 1 .. 1 + m : u[i] = IF i <= 1 THEN a[i] ELSE b[i - 1]
    <3>1. /\ Len(a \o b) = Len(a) + Len(b)
          /\ \A i \in 1 .. Len(a) + Len(b) : (a \o b)[i] = IF i <= Len(a) THEN a[i] ELSE b[i - Len(a)]
      BY <1>2, <2>2, ConcatProperties
    <3> QED BY <1>2, <3>1 DEF m
  <2>4. \A j \in 1 .. m : 1 + j \in 1 .. 1 + m /\ ~(1 + j <= 1) /\ (1 + j) - 1 = j
    BY <1>5
  <2> HIDE DEF u
  <2> QED BY <1>2, <1>5, <2>1, <2>3, <2>4
<1> HIDE DEF u
<1>7. /\ t \in Seq(X) /\ Len(t) = (IF p.closed THEN m + 2 ELSE m + 1)
      /\ ToSet(t) = ToSet(u) \cup ToSet(z)
      /\ \A i \in 1 .. m + 1 : t[i] = u[i]
      /\ p.closed => t[m + 2] = Closes(p.tag)
  <2> DEFINE k == Len(z)
  <2>1. t \in Seq(X) /\ ToSet(t) = ToSet(u) \cup ToSet(z)
    BY <1>3, <1>6, SetOfConcat
  <2>2. /\ Len(t) = (m + 1) + k
        /\ \A i \in 1 .. (m + 1) + k : t[i] = IF i <= m + 1 THEN u[i] ELSE z[i - (m + 1)]
    <3>1. /\ Len(u \o z) = Len(u) + Len(z)
          /\ \A i \in 1 .. Len(u) + Len(z) : (u \o z)[i] = IF i <= Len(u) THEN u[i] ELSE z[i - Len(u)]
      <4>1. u \in Seq(X) /\ z \in Seq(X)
        BY <1>3, <1>6
      <4> QED BY ONLY <4>1, ConcatProperties
    <3>2. Len(u) = m + 1
      BY <1>6
    <3> QED BY <3>1, <3>2
  <2>3. k = IF p.closed THEN 1 ELSE 0
    BY <1>3
  <2> HIDE DEF t, k
  <2>4. \A i \in 1 .. m + 1 : t[i] = u[i]
    BY <1>5, <2>2, <2>3
  <2>5. p.closed => t[m + 2] = Closes(p.tag)
    <3>1. (m + 2) - (m + 1) = 1 /\ ~(m + 2 <= m + 1)
      BY <1>5
    <3> QED BY <1>3, <1>5, <2>2, <2>3, <3>1
  <2> QED BY <1>5, <2>1, <2>2, <2>3, <2>4, <2>5
<1> HIDE DEF t
<1>8. t[1] = Opens(p.tag) /\ \A j \in 1 .. m : t[1 + j] = b[j]
  BY <1>5, <1>6, <1>7
<1>9. ToSet(t) = Said(p)
  BY <1>3, <1>6, <1>7 DEF Said, b
<1> QED BY <1>4, <1>7, <1>8, <1>9 DEF Written, b, m

\* The words of c from place a + 1 on are those of t.
StandsAt(c, a, t) ==
  /\ a \in Nat /\ a + Len(t) <= Len(c)
  /\ \A j \in 1 .. Len(t) : c[a + j] = t[j]

\* What the loop has after a part.
Passed(v, a, b, p) ==
  /\ ToSet(v[b].kept) = ToSet(v[a].kept) \cup {Shown(p)}
  /\ Ends(p) => v[b].open = {}

LEMMA PassesWord ==
  ASSUME NEW X, NEW c \in Seq(X), NEW v, Strips(v, c, X), NEW a, NEW p, WellFormed(X, p),
         "body" \notin DOMAIN p, StandsAt(c, a, TextOf(p)), v[a].open = {}
  PROVE  Passed(v, a, a + Len(TextOf(p)), p)
<1> DEFINE t == TextOf(p)
           n == Len(c)
<1>1. Len(t) = 1 /\ t[1] = p /\ n \in Nat
  BY TextOfWord, LenProperties
<1>2. a \in Nat /\ a + 1 <= n /\ c[a + 1] = p
  BY <1>1 DEF StandsAt
<1>3. p \in X /\ p.kind # "opens"
  BY DEF WellFormed
<1>4. v[a] \in Passing(X) /\ v[a + 1] = Pass(v[a], p)
  <2>1. a \in 0 .. n /\ a + 1 \in 1 .. n /\ (a + 1) - 1 = a
    BY <1>1, <1>2
  <2>2. v[a + 1] = Pass(v[(a + 1) - 1], c[a + 1])
    BY <2>1 DEF Strips
  <2>3. v[a] \in Passing(X)
    BY <2>1 DEF Strips
  <2> QED BY <1>2, <2>1, <2>2, <2>3
<1>5. ToSet(v[a + 1].kept) = ToSet(v[a].kept) \cup {p} /\ v[a + 1].open = {}
  <2>1. Takes(v[a], v[a + 1], p)
    BY <1>3, <1>4, PassSays
  <2> QED BY <1>3, <2>1 DEF Takes
<1>6. Len(TextOf(p)) = 1
  BY <1>1
<1> QED BY <1>5, <1>6 DEF Passed, Shown, Ends

LEMMA PassesDocument ==
  ASSUME NEW X, NEW c \in Seq(X), NEW v, Strips(v, c, X), NEW a, NEW p, WellFormed(X, p),
         "body" \in DOMAIN p, StandsAt(c, a, TextOf(p)), v[a].open = {}
  PROVE  Passed(v, a, a + Len(TextOf(p)), p)
<1> DEFINE t == TextOf(p)
           n == Len(c)
           m == Len(Dropped(p))
           b == a + 1
<1>1. /\ Dropped(p) \in Seq(X) /\ p.closed \in BOOLEAN /\ m \in Nat /\ n \in Nat
      /\ Opens(p.tag) \in X /\ Closes(p.tag) \in X
      /\ \A j \in 1 .. m : Dropped(p)[j] \in X /\ ~(Dropped(p)[j].kind = "closes" /\ Dropped(p)[j].tag = p.tag)
  <2>1. /\ Dropped(p) \in Seq(X) /\ p.closed \in BOOLEAN /\ Opens(p.tag) \in X /\ Closes(p.tag) \in X
        /\ \A w \in ToSet(Dropped(p)) : ~(w.kind = "closes" /\ w.tag = p.tag)
    BY DEF WellFormed
  <2>2. ToSet(Dropped(p)) = {Dropped(p)[j] : j \in 1 .. m} /\ m \in Nat /\ ToSet(Dropped(p)) \subseteq X
    BY <2>1, PlacesOf
  <2>3. n \in Nat
    BY LenProperties
  <2> HIDE DEF m, n
  <2>4. \A j \in 1 .. m : Dropped(p)[j] \in ToSet(Dropped(p))
    BY <2>2
  <2> QED BY <2>1, <2>2, <2>3, <2>4
<1>2. /\ Len(t) = IF p.closed THEN m + 2 ELSE m + 1
      /\ t[1] = Opens(p.tag) /\ \A j \in 1 .. m : t[1 + j] = Dropped(p)[j]
      /\ p.closed => t[m + 2] = Closes(p.tag)
  BY TextOfDocument DEF Written
<1>3. a \in Nat /\ a + Len(t) <= n /\ \A j \in 1 .. Len(t) : c[a + j] = t[j]
  BY DEF StandsAt
<1>4. \A k \in 1 .. n : v[k - 1] \in Passing(X) /\ v[k] = Pass(v[k - 1], c[k])
  <2> SUFFICES ASSUME NEW k \in 1 .. n PROVE v[k - 1] \in Passing(X) /\ v[k] = Pass(v[k - 1], c[k])
    OBVIOUS
  <2>1. k - 1 \in 0 .. n
    BY <1>1
  <2> QED BY <2>1 DEF Strips
<1> DEFINE o == Opens(p.tag)
           z == Closes(p.tag)
<1>5. o.kind = "opens" /\ o.tag = p.tag /\ z.kind = "closes" /\ z.tag = p.tag
  BY DEF Opens, Closes
<1> HIDE DEF t, n, m, o, z
<1>6. ToSet(v[b].kept) = ToSet(v[a].kept) \cup {o} /\ v[b].open = {p.tag}
  <2>1. b \in 1 .. n /\ b - 1 = a /\ 1 \in 1 .. Len(t)
    BY <1>1, <1>2, <1>3
  <2>2. v[a] \in Passing(X) /\ v[b] = Pass(v[a], o) /\ o \in X
    BY <1>1, <1>2, <1>3, <1>4, <2>1 DEF o
  <2>3. Takes(v[a], v[b], o)
    BY <2>2, PassSays
  <2> QED BY <1>5, <2>3 DEF Takes
<1> DEFINE N == {j \in Nat : j <= m => v[b + j] = v[b]}
<1> HIDE DEF b
<1>7. m \in N
  <2>0. b = a + 1 /\ b \in Nat
    BY <1>3 DEF b
  <2>1. 0 \in N
    BY <2>0
  <2>2. ASSUME NEW j \in Nat, j \in N PROVE j + 1 \in N
    <3> SUFFICES ASSUME j + 1 <= m PROVE v[b + (j + 1)] = v[b]
      OBVIOUS
    <3> DEFINE k == b + (j + 1)
               w == Dropped(p)[j + 1]
    <3>1. k \in 1 .. n /\ k - 1 = b + j /\ j + 1 \in 1 .. m /\ k = a + (1 + (j + 1)) /\ j <= m
          /\ 1 + (j + 1) \in 1 .. Len(t)
      BY <1>1, <1>2, <1>3, <2>0
    <3>2. v[b + j] = v[b]
      BY <2>2, <3>1
    <3>3. c[k] = w
      BY <1>2, <1>3, <3>1
    <3>4. w \in X /\ ~(w.kind = "closes" /\ w.tag = p.tag)
      BY <1>1, <3>1
    <3> HIDE DEF k, w
    <3>5. v[b] \in Passing(X) /\ v[k] = Pass(v[b], w)
      BY <1>4, <3>1, <3>2, <3>3
    <3>6. v[k] = v[b]
      <4>1. v[b].open # {} /\ ~(w.kind = "closes" /\ w.tag \in v[b].open)
        BY <1>6, <3>4
      <4>2. Takes(v[b], v[k], w)
        BY <3>4, <3>5, PassSays
      <4> QED BY <4>1, <4>2 DEF Takes
    <3> QED BY <3>6 DEF k
  <2> HIDE DEF N
  <2> QED BY <1>1, <2>1, <2>2, Induction
<1>8. v[b + m] = v[b]
  BY <1>7
<1>9. CASE p.closed
  <2> DEFINE k == b + m + 1
  <2>1. k \in 1 .. n /\ k - 1 = b + m /\ k = a + (m + 2) /\ m + 2 \in 1 .. Len(t) /\ k = a + Len(t)
    BY <1>1, <1>2, <1>3, <1>9 DEF b
  <2>2. v[b] \in Passing(X) /\ v[k] = Pass(v[b], z) /\ z \in X
    <3>1. c[k] = z
      BY <1>2, <1>3, <1>9, <2>1 DEF z
    <3> HIDE DEF k
    <3> QED BY <1>1, <1>4, <1>8, <2>1, <3>1 DEF z
  <2> HIDE DEF k
  <2>3. v[k].open = {} /\ v[k].kept = v[b].kept
    <3>1. v[b].open # {} /\ z.kind = "closes" /\ z.tag \in v[b].open
      BY <1>5, <1>6
    <3>2. Takes(v[b], v[k], z)
      BY <2>2, PassSays
    <3> QED BY <3>1, <3>2 DEF Takes
  <2>4. ToSet(v[k].kept) = ToSet(v[a].kept) \cup {Shown(p)}
    BY <1>6, <2>3 DEF Shown, o
  <2>5. Passed(v, a, k, p)
    BY <2>3, <2>4 DEF Passed
  <2> QED BY <2>1, <2>5 DEF t
<1>10. CASE ~p.closed
  <2>1. b + m = a + Len(t)
    BY <1>1, <1>2, <1>3, <1>10 DEF b
  <2>2. ToSet(v[b + m].kept) = ToSet(v[a].kept) \cup {Shown(p)}
    BY <1>6, <1>8 DEF Shown, o
  <2>3. ~Ends(p)
    BY <1>10 DEF Ends
  <2>4. Passed(v, a, b + m, p)
    BY <2>2, <2>3 DEF Passed
  <2> QED BY <2>1, <2>4 DEF t
<1> QED BY <1>1, <1>9, <1>10

LEMMA PartsAreTexts ==
  ASSUME NEW X, NEW p, WellFormed(X, p)
  PROVE  TextOf(p) \in Seq(X) /\ ToSet(TextOf(p)) = Said(p)
<1>1. CASE "body" \in DOMAIN p
  BY <1>1, TextOfDocument
<1>2. CASE "body" \notin DOMAIN p
  BY <1>2, TextOfWord DEF Said
<1> QED BY <1>1, <1>2

LEMMA PassesPart ==
  ASSUME NEW X, NEW c \in Seq(X), NEW v, Strips(v, c, X), NEW a, NEW p, WellFormed(X, p),
         StandsAt(c, a, TextOf(p)), v[a].open = {}
  PROVE  Passed(v, a, a + Len(TextOf(p)), p)
<1>1. CASE "body" \in DOMAIN p
  BY <1>1, PassesDocument
<1>2. CASE "body" \notin DOMAIN p
  BY <1>2, PassesWord
<1> QED BY <1>1, <1>2

\* A command: only its last here-document may have no line that closes it.
WellWritten(X, c) ==
  /\ c \in Seq(ToSet(c))
  /\ \A i \in 1 .. Len(c) : WellFormed(X, c[i]) /\ (i < Len(c) => Ends(c[i]))

Text(c) == FlattenSeq([i \in DOMAIN c |-> TextOf(c[i])])

\* What a command says, and what is left of it without its bodies.
Reads(X, c) ==
  /\ Text(c) \in Seq(X)
  /\ ToSet(Text(c)) = UNION {Said(c[i]) : i \in 1 .. Len(c)}
  /\ stripHeredocs(Text(c)) \in Seq(X)
  /\ ToSet(stripHeredocs(Text(c))) = {Shown(c[i]) : i \in 1 .. Len(c)}

LEMMA CommandReads ==
  ASSUME NEW X, NEW c, WellWritten(X, c)
  PROVE  Reads(X, c)
<1> DEFINE n == Len(c)
           s == [i \in 1 .. n |-> TextOf(c[i])]
           t == Text(c)
<1>1. /\ n \in Nat /\ DOMAIN c = 1 .. n
      /\ \A i \in 1 .. n : WellFormed(X, c[i]) /\ (i < n => Ends(c[i]))
  BY LenProperties DEF WellWritten
<1>2. t = FlattenSeq(s)
  BY <1>1 DEF Text
<1> HIDE DEF n, t
<1>3. \A i \in 1 .. n : s[i] = TextOf(c[i]) /\ TextOf(c[i]) \in Seq(X) /\ ToSet(s[i]) = Said(c[i])
  BY <1>1, PartsAreTexts
<1>4. s \in Seq(Seq(X)) /\ Len(s) = n
  BY <1>1, <1>3
<1> HIDE DEF s
<1>5. PICK w : Joins(w, s) /\ t = w[n] /\ \A i \in 0 .. n : w[i] \in Seq(X)
  BY <1>2, <1>4, FlattenIs
<1> DEFINE L == Len(t)
<1>6. t \in Seq(X) /\ L \in Nat
  BY <1>1, <1>5, LenProperties
<1>7. ToSet(t) = UNION {Said(c[i]) : i \in 1 .. n}
  <2>1. ToSet(t) = UNION {ToSet(s[i]) : i \in 1 .. n}
    BY <1>4, <1>5, JoinsGather
  <2> QED BY <1>3, <2>1
<1>8. PICK v : Strips(v, t, X) /\ stripHeredocs(t) = v[L].kept
  BY <1>6, StripTraces
<1>9. \A i \in 0 .. n : Len(w[i]) <= L /\ \A q \in 1 .. Len(w[i]) : t[q] = w[i][q]
  <2>1. s \in Seq(Seq(X)) /\ Joins(w, s) /\ \A i \in 0 .. Len(s) : w[i] \in Seq(X)
    BY <1>4, <1>5
  <2>2. \A i \in 0 .. Len(s) :
           /\ Len(w[i]) <= Len(w[Len(s)])
           /\ \A q \in 1 .. Len(w[i]) : w[Len(s)][q] = w[i][q]
    BY ONLY <2>1, JoinsKeep
  <2> QED BY <1>4, <1>5, <2>2
<1>10. ASSUME NEW i \in 1 .. n
       PROVE  /\ Len(w[i]) = Len(w[i - 1]) + Len(TextOf(c[i]))
              /\ StandsAt(t, Len(w[i - 1]), TextOf(c[i]))
  <2> DEFINE x == w[i - 1]
             y == TextOf(c[i])
             a == Len(x)
             b == Len(y)
  <2>1. i - 1 \in 0 .. n /\ i \in 0 .. n
    BY <1>1
  <2>2. x \in Seq(X) /\ y \in Seq(X) /\ w[i] = x \o y
    BY <1>3, <1>4, <1>5, <2>1 DEF Joins
  <2>3. a \in Nat /\ b \in Nat
    BY <2>2, LenProperties
  <2> HIDE DEF x, y
  <2>4. /\ Len(w[i]) = a + b
        /\ \A q \in 1 .. a + b : w[i][q] = IF q <= a THEN x[q] ELSE y[q - a]
    BY <2>2, ConcatProperties
  <2>5. Len(w[i]) <= L /\ \A q \in 1 .. Len(w[i]) : t[q] = w[i][q]
    BY <1>9, <2>1
  <2> HIDE DEF a, b
  <2>6. ASSUME NEW j \in 1 .. b PROVE t[a + j] = y[j]
    <3>1. a + j \in 1 .. a + b /\ ~(a + j <= a) /\ (a + j) - a = j
      BY <2>3
    <3> QED BY <2>4, <2>5, <3>1
  <2>7. StandsAt(t, a, y)
    BY <2>3, <2>4, <2>5, <2>6 DEF StandsAt, b, L
  <2> QED BY <2>4, <2>7 DEF x, y, a, b
<1> HIDE DEF L
<1> DEFINE S(i) == {Shown(c[j]) : j \in 1 .. i}
           Upto(i) == /\ ToSet(v[Len(w[i])].kept) = S(i)
                      /\ i < n => v[Len(w[i])].open = {}
           N == {i \in Nat : i <= n => Upto(i)}
<1>11. 0 \in N
  <2>1. w[0] = <<>> /\ v[0] = Outside
    BY <1>5, <1>8 DEF Joins, Strips
  <2>2. Len(w[0]) = 0
    BY <2>1
  <2>3. ToSet(Outside.kept) = {} /\ Outside.open = {}
    BY DEF Outside, ToSet
  <2>4. S(0) = {}
    OBVIOUS
  <2> HIDE DEF S
  <2> QED BY <2>1, <2>2, <2>3, <2>4
<1>12. ASSUME NEW i \in Nat, i \in N PROVE i + 1 \in N
  <2> SUFFICES ASSUME i + 1 <= n PROVE Upto(i + 1)
    <3> HIDE DEF Upto
    <3> QED OBVIOUS
  <2> DEFINE p == c[i + 1]
             a == Len(w[i])
             b == Len(w[i + 1])
  <2>1. i + 1 \in 1 .. n /\ (i + 1) - 1 = i /\ i < n /\ i <= n
    BY <1>1
  <2>2. ToSet(v[a].kept) = S(i) /\ v[a].open = {}
    <3> HIDE DEF S
    <3> QED BY <1>12, <2>1
  <2>3. S(i + 1) = S(i) \cup {Shown(p)}
    <3>1. 1 .. i + 1 = (1 .. i) \cup {i + 1}
      OBVIOUS
    <3> QED BY <3>1
  <2>4. b = a + Len(TextOf(p)) /\ StandsAt(t, a, TextOf(p))
    BY <1>10, <2>1
  <2>5. WellFormed(X, p) /\ (i + 1 < n => Ends(p))
    BY <1>1, <2>1
  <2> HIDE DEF p, a, b, S
  <2>6. Passed(v, a, b, p)
    BY <1>6, <1>8, <2>2, <2>4, <2>5, PassesPart
  <2>7. ToSet(v[b].kept) = S(i + 1) /\ (i + 1 < n => v[b].open = {})
    BY <2>2, <2>3, <2>5, <2>6 DEF Passed
  <2> QED BY <2>7 DEF b
<1>13. n \in N
  <2> HIDE DEF N
  <2> QED BY <1>1, <1>11, <1>12, Induction
<1>14. ToSet(stripHeredocs(t)) = S(n)
  BY <1>1, <1>5, <1>8, <1>13 DEF L
<1>15. stripHeredocs(t) \in Seq(X)
  <2>1. L \in 0 .. L
    BY <1>6 DEF L
  <2>2. v[L] \in Passing(X)
    BY <1>8, <2>1 DEF Strips, L
  <2> QED BY <1>8, <2>2 DEF Passing
<1> QED BY <1>6, <1>7, <1>14, <1>15 DEF Reads, n, t

-----------------------------------------------------------------------------
(* A command is stopped for what is left of it without its bodies, and for *)
(* the hosts it names anywhere. *)

HasPaths(X) == \A w \in X : w.kind = "path" => \E S : w.path \in Seq(S)

LEMMA CommandPermits ==
  ASSUME NEW X, HasPaths(X), NEW t \in Seq(X), stripHeredocs(t) \in Seq(X)
  PROVE  firstDenial(CommandRequests(t)) = {} <=>
           /\ \A w \in ToSet(t) : w.kind = "host" => Reachable(w.host)
           /\ \A w \in ToSet(stripHeredocs(t)) : Harmless(w)
<1> DEFINE k == stripHeredocs(t)
           r == Request("proc.exec", t)
           a == << r >>
           b == Requests("net.connect", destinationsIn(k))
           d == Requests("fs.read", pathsIn(k))
           e == a \o b
           all == e \o d
<1>1. CommandRequests(t) = all
  BY DEF CommandRequests
<1>2. ToSet(a) = {r} /\ a \in Seq({r})
  BY DEF ToSet
<1> DEFINE Hosts == {w.host : w \in {u \in ToSet(k) : u.kind = "host"}}
           Ways == {canonical(w.path) : w \in {u \in ToSet(k) : u.kind = "path" /\ u.path # <<>>}}
           B == {Request("net.connect", x) : x \in {w.host : w \in X}}
           D == {Request("fs.read", x) : x \in {canonical(w.path) : w \in X}}
<1>3. b \in Seq(B) /\ ToSet(b) = {Request("net.connect", x) : x \in Hosts}
  <2> DEFINE s == destinationsIn(k)
             Y == {w.host : w \in X}
  <2>1. s \in Seq(Y) /\ ToSet(s) = Hosts
    BY DestinationsAre
  <2> HIDE DEF s, Y, Hosts
  <2>2. /\ Requests("net.connect", s) \in Seq({Request("net.connect", x) : x \in Y})
        /\ ToSet(Requests("net.connect", s)) = {Request("net.connect", x) : x \in ToSet(s)}
    BY <2>1, RequestsAre
  <2> QED BY <2>1, <2>2 DEF s, Y
<1>4. d \in Seq(D) /\ ToSet(d) = {Request("fs.read", x) : x \in Ways}
  <2> DEFINE s == pathsIn(k)
             Y == {canonical(w.path) : w \in X}
  <2>1. s \in Seq(Y) /\ ToSet(s) = Ways
    BY PathsAre
  <2> HIDE DEF s, Y, Ways
  <2>2. /\ Requests("fs.read", s) \in Seq({Request("fs.read", x) : x \in Y})
        /\ ToSet(Requests("fs.read", s)) = {Request("fs.read", x) : x \in ToSet(s)}
    BY <2>1, RequestsAre
  <2> QED BY <2>1, <2>2 DEF s, Y
<1> DEFINE R == {r} \cup B \cup D
<1> HIDE DEF B, D, a, b, d
<1>5. a \in Seq(R) /\ b \in Seq(R) /\ d \in Seq(R)
  <2>1. {r} \subseteq R /\ B \subseteq R /\ D \subseteq R
    OBVIOUS
  <2> HIDE DEF R, r
  <2> QED BY <1>2, <1>3, <1>4, <2>1
<1> HIDE DEF R
<1>6. e \in Seq(R) /\ ToSet(e) = ToSet(a) \cup ToSet(b)
  BY <1>5, SetOfConcat
<1> HIDE DEF e
<1>7. all \in Seq(R) /\ ToSet(all) = ToSet(a) \cup ToSet(b) \cup ToSet(d)
  BY <1>5, <1>6, SetOfConcat
<1> HIDE DEF all
<1>8. firstDenial(all) = {} <=> \A x \in ToSet(all) : Permitted(x)
  BY <1>7, NoDenial
<1>9. Permitted(r) <=> \A w \in ToSet(t) : w.kind = "host" => Reachable(w.host)
  <2>1. Permitted(r) <=> \A h \in ToSet(destinationsIn(t)) : Reachable(h)
    BY PermittedExec
  <2>2. ToSet(destinationsIn(t)) = {w.host : w \in {u \in ToSet(t) : u.kind = "host"}}
    BY DestinationsAre
  <2> QED BY <2>1, <2>2
<1> HIDE DEF r, k
<1>10. (\A x \in ToSet(b) : Permitted(x))
         <=> \A w \in ToSet(k) : w.kind = "host" => w.host \in Allowlisted \ Private
  <2>1. \A h : Permitted(Request("net.connect", h)) <=> h \in Allowlisted \ Private
    BY PermittedNet DEF Reachable
  <2>2. (\A x \in ToSet(b) : Permitted(x)) <=> \A h \in Hosts : Permitted(Request("net.connect", h))
    BY <1>3
  <2> QED BY <2>1, <2>2
<1>11. (\A x \in ToSet(d) : Permitted(x))
         <=> \A w \in ToSet(k) : w.kind = "path" => w.path = <<>> \/ MayRead(w.path)
  <2>1. \A w \in ToSet(k) : w.kind = "path" =>
          (Permitted(Request("fs.read", canonical(w.path))) <=> MayRead(w.path))
    <3>1. ToSet(k) \subseteq X
      BY PlacesOf DEF k
    <3> SUFFICES ASSUME NEW w \in ToSet(k), w.kind = "path"
                 PROVE  Permitted(Request("fs.read", canonical(w.path))) <=> MayRead(w.path)
      OBVIOUS
    <3>2. PICK S : w.path \in Seq(S)
      BY <3>1 DEF HasPaths
    <3> QED BY <3>2, ReadsPermitted
  <2>2. (\A x \in ToSet(d) : Permitted(x)) <=> \A q \in Ways : Permitted(Request("fs.read", q))
    BY <1>4
  <2> QED BY <2>1, <2>2
<1>12. (\A x \in ToSet(all) : Permitted(x)) <=>
          Permitted(r) /\ (\A x \in ToSet(b) : Permitted(x)) /\ (\A x \in ToSet(d) : Permitted(x))
  BY <1>2, <1>7
<1>13. (\A w \in ToSet(k) : Harmless(w)) <=>
         /\ \A w \in ToSet(k) : w.kind = "host" => w.host \in Allowlisted \ Private
         /\ \A w \in ToSet(k) : w.kind = "path" => w.path = <<>> \/ MayRead(w.path)
  BY DEF Harmless
<1> QED BY <1>1, <1>8, <1>9, <1>10, <1>11, <1>12, <1>13 DEF k

\* All words that a command of Commands has, bodies included.
Words == OuterWords \cup BodyWords \cup RestWords \cup {Opens("E"), Closes("E")}

Quoted(w) == "body" \notin DOMAIN w

LEMMA WordsHavePaths == HasPaths(Words)
<1>1. ASSUME NEW p \in OuterPaths PROVE \E S : p \in Seq(S)
  <2>1. \A a, b, c : \E S : << a, b, c >> \in Seq(S)
    <3> SUFFICES ASSUME NEW a, NEW b, NEW c PROVE \E S : << a, b, c >> \in Seq(S)
      OBVIOUS
    <3>1. << a, b, c >> \in Seq({a, b, c})
      OBVIOUS
    <3> QED BY <3>1
  <2>2. \A a, b, c, d : \E S : << a, b, c, d >> \in Seq(S)
    <3> SUFFICES ASSUME NEW a, NEW b, NEW c, NEW d PROVE \E S : << a, b, c, d >> \in Seq(S)
      OBVIOUS
    <3>1. << a, b, c, d >> \in Seq({a, b, c, d})
      OBVIOUS
    <3> QED BY <3>1
  <2>3. \A a, b, c, d, e : \E S : << a, b, c, d, e >> \in Seq(S)
    <3> SUFFICES ASSUME NEW a, NEW b, NEW c, NEW d, NEW e
                 PROVE  \E S : << a, b, c, d, e >> \in Seq(S)
      OBVIOUS
    <3>1. << a, b, c, d, e >> \in Seq({a, b, c, d, e})
      OBVIOUS
    <3> QED BY <3>1
  <2>4. \A a, b : \E S : << a, b >> \in Seq(S)
    <3> SUFFICES ASSUME NEW a, NEW b PROVE \E S : << a, b >> \in Seq(S)
      OBVIOUS
    <3>1. << a, b >> \in Seq({a, b})
      OBVIOUS
    <3> QED BY <3>1
  <2>5. \E S : <<>> \in Seq(S)
    BY EmptySeq
  <2>6. \/ p = <<>>
        \/ p = << "ws", "a1", "f" >>
        \/ p = << "ws", ".", "a1", "..", "a2" >>
        \/ p = << "usr", "..", "..", "usr" >>
        \/ p = << "etc", "ssl" >>
        \/ p = << "ws", "a1", "vault" >>
    BY DEF OuterPaths
  <2>7. CASE p = <<>>
    BY ONLY <2>7, <2>5, Zenon
  <2>8. CASE p = << "ws", "a1", "f" >>
    BY ONLY <2>8, <2>1, Zenon
  <2>9. CASE p = << "ws", ".", "a1", "..", "a2" >>
    BY ONLY <2>9, <2>3, Zenon
  <2>10. CASE p = << "usr", "..", "..", "usr" >>
    BY ONLY <2>10, <2>2, Zenon
  <2>11. CASE p = << "etc", "ssl" >>
    BY ONLY <2>11, <2>4, Zenon
  <2>12. CASE p = << "ws", "a1", "vault" >>
    BY ONLY <2>12, <2>1, Zenon
  <2> QED BY ONLY <2>6, <2>7, <2>8, <2>9, <2>10, <2>11, <2>12, Zenon
<1>2. \E S : << "etc", "passwd" >> \in Seq(S)
  <2>1. << "etc", "passwd" >> \in Seq({"etc", "passwd"})
    OBVIOUS
  <2> QED BY <2>1
<1>3. ASSUME NEW w \in Words, w.kind = "path"
      PROVE  \/ \E p \in OuterPaths : w.path = p
             \/ w.path = << "etc", "passwd" >>
  BY <1>3 DEF Words, OuterWords, BodyWords, RestWords, OuterPaths, Path, Host, Plain, Opens, Closes
<1> QED BY <1>1, <1>2, <1>3 DEF HasPaths

LEMMA WordsAreQuoted ==
  /\ \A w \in OuterWords : Quoted(w) /\ w.kind # "opens"
  /\ \A w \in BodyWords \cup RestWords : ~(w.kind = "closes" /\ w.tag = "E")
BY DEF OuterWords, BodyWords, RestWords, Path, Host, Plain, Opens, Closes, Quoted

LEMMA BodiesAreWritten ==
  ASSUME NEW p \in Bodies \cup Unclosed
  PROVE  WellFormed(Words, p) /\ ~Quoted(p) /\ (p \in Bodies => Ends(p))
<1>1. PICK ws \in SeqOf(BodyWords, 1), more \in SeqOf(RestWords, 1), cl \in BOOLEAN :
        p = Body("E", more, ws, cl) /\ (p \in Bodies => p.closed = TRUE)
  <2>1. ASSUME NEW cl \in BOOLEAN, p \in Documents(cl)
        PROVE  \E ws \in SeqOf(BodyWords, 1), more \in SeqOf(RestWords, 1) : p = Body("E", more, ws, cl)
    BY <2>1 DEF Documents
  <2>2. \A more, ws, cl : Body("E", more, ws, cl).closed = cl
    BY DEF Body
  <2>3. CASE p \in Bodies
    BY <2>1, <2>2, <2>3 DEF Bodies
  <2>4. CASE p \in Unclosed /\ p \notin Bodies
    BY <2>1, <2>4 DEF Unclosed
  <2> QED BY <2>3, <2>4
<1>2. ws \in Seq(BodyWords) /\ more \in Seq(RestWords)
  <2>1. PICK m \in 0 .. 1 : ws \in [1 .. m -> BodyWords]
    BY DEF SeqOf
  <2>2. PICK n \in 0 .. 1 : more \in [1 .. n -> RestWords]
    BY DEF SeqOf
  <2> QED BY <2>1, <2>2
<1> DEFINE all == more \o ws
<1>3. all \in Seq(Words) /\ ToSet(all) \subseteq BodyWords \cup RestWords
  <2>1. ws \in Seq(BodyWords \cup RestWords) /\ more \in Seq(BodyWords \cup RestWords)
    BY <1>2, SeqMonotonic
  <2>2. all \in Seq(BodyWords \cup RestWords)
    BY <2>1, ConcatProperties
  <2> HIDE DEF all
  <2>3. BodyWords \cup RestWords \subseteq Words
    BY DEF Words
  <2> QED BY <2>2, <2>3, SeqMonotonic, PlacesOf
<1>4. /\ "body" \in DOMAIN p /\ Dropped(p) = all /\ p.tag = "E" /\ p.closed \in BOOLEAN
      /\ p \in Bodies => p.closed
  BY <1>1 DEF Body, Dropped
<1> HIDE DEF all
<1>5. Opens("E") \in Words /\ Closes("E") \in Words
  BY DEF Words
<1> QED BY <1>3, <1>4, <1>5, WordsAreQuoted DEF WellFormed, Quoted, Ends

LEMMA CommandsAreWritten ==
  ASSUME NEW c \in Commands
  PROVE  WellWritten(Words, c)
<1> DEFINE P == OuterWords \cup Bodies \cup Unclosed
<1>1. c \in Seq(P) /\ \A i \in DOMAIN c : c[i] \in Unclosed => i = Len(c)
  BY DEF Commands, SeqOf
<1>2. DOMAIN c = 1 .. Len(c) /\ Len(c) \in Nat /\ \A i \in 1 .. Len(c) : c[i] \in P
  BY <1>1, LenProperties, ElementOfSeq
<1>3. c \in Seq(ToSet(c))
  <2>1. \A i \in 1 .. Len(c) : c[i] \in ToSet(c)
    BY <1>2 DEF ToSet
  <2> HIDE DEF P
  <2>2. c = [i \in 1 .. Len(c) |-> c[i]]
    BY <1>1, <1>2
  <2> QED BY <1>2, <2>1, <2>2
<1>4. ASSUME NEW i \in 1 .. Len(c)
      PROVE  WellFormed(Words, c[i]) /\ (i < Len(c) => Ends(c[i]))
  <2>1. CASE c[i] \in OuterWords
    BY <2>1, WordsAreQuoted DEF WellFormed, Quoted, Ends, Words
  <2>2. CASE c[i] \in Bodies \cup Unclosed
    <3>1. i < Len(c) => c[i] \in Bodies
      BY <1>1, <1>2, <2>2
    <3> QED BY <2>2, <3>1, BodiesAreWritten
  <2> QED BY <1>2, <2>1, <2>2
<1> QED BY <1>3, <1>4 DEF WellWritten

LEMMA NothingIsNotDenied == firstDenial(<<>>) = {}
<1> DEFINE none == <<>>
<1>1. none \in Seq({}) /\ ToSet(none) = {}
  BY EmptySeq DEF ToSet
<1> HIDE DEF none
<1>2. firstDenial(none) = {}
  BY <1>1, NoDenial
<1> QED BY <1>2 DEF none

\* A host or path of a command, in a body or not.
LEMMA PartsSay ==
  ASSUME NEW X, NEW c, WellWritten(X, c)
  PROVE  LET all == UNION {Said(c[i]) : i \in 1 .. Len(c)}
             shown == {Shown(c[i]) : i \in 1 .. Len(c)}
         IN  /\ \A w : w.kind = "host" => (w \in all <=> w \in Scanned(c) \cup Hidden(c))
             /\ (\A w \in shown : Harmless(w)) <=> \A w \in Scanned(c) : Harmless(w)
<1> DEFINE n == Len(c)
           A == {i \in 1 .. n : Quoted(c[i])}
           B == {i \in 1 .. n : ~Quoted(c[i])}
<1>1. DOMAIN c = 1 .. n
  BY LenProperties DEF WellWritten
<1>2. Scanned(c) = {c[i] : i \in A} /\ Hidden(c) = UNION {ToSet(Dropped(c[i])) : i \in B}
  BY <1>1 DEF Scanned, Hidden, Documented, Quoted
<1>3. \A p : Quoted(p) => Shown(p) = p /\ Said(p) = {p}
  BY DEF Shown, Said, Quoted
<1>4. ASSUME NEW p, ~Quoted(p)
      PROVE  /\ Shown(p).kind = "opens"
             /\ ToSet(Dropped(p)) \subseteq Said(p)
             /\ \A w \in Said(p) : w.kind = "host" => w \in ToSet(Dropped(p))
  BY <1>4 DEF Shown, Said, Quoted, Opens, Closes
<1>5. \A i \in 1 .. n : i \in A \/ i \in B
  OBVIOUS
<1>6. (\A i \in A : Quoted(c[i]) /\ i \in 1 .. n) /\ (\A i \in B : ~Quoted(c[i]) /\ i \in 1 .. n)
  OBVIOUS
<1> HIDE DEF n, A, B
<1> DEFINE all == UNION {Said(c[i]) : i \in 1 .. n}
           shown == {Shown(c[i]) : i \in 1 .. n}
<1>7. ASSUME NEW w, w.kind = "host" PROVE w \in all <=> w \in Scanned(c) \cup Hidden(c)
  <2>1. ASSUME w \in all PROVE w \in Scanned(c) \cup Hidden(c)
    <3>1. PICK i \in 1 .. n : w \in Said(c[i])
      BY <2>1
    <3>2. CASE i \in A
      BY <1>2, <1>3, <1>6, <3>1, <3>2
    <3>3. CASE i \in B
      <4>1. w \in ToSet(Dropped(c[i]))
        BY <1>4, <1>6, <1>7, <3>1, <3>3
      <4> QED BY <1>2, <3>3, <4>1
    <3> QED BY <1>5, <3>2, <3>3
  <2>2. ASSUME w \in Scanned(c) PROVE w \in all
    <3>1. PICK i \in A : w = c[i]
      BY <1>2, <2>2
    <3> QED BY <1>3, <1>6, <3>1
  <2>3. ASSUME w \in Hidden(c) PROVE w \in all
    <3>1. PICK i \in B : w \in ToSet(Dropped(c[i]))
      BY <1>2, <2>3
    <3>2. w \in Said(c[i]) /\ i \in 1 .. n
      BY <1>4, <1>6, <3>1
    <3> QED BY <3>2
  <2> QED BY <2>1, <2>2, <2>3
<1>8. (\A w \in shown : Harmless(w)) <=> \A w \in Scanned(c) : Harmless(w)
  <2>1. \A i \in A : Shown(c[i]) = c[i]
    BY <1>3, <1>6
  <2>2. \A i \in B : Harmless(Shown(c[i]))
    BY <1>4, <1>6 DEF Harmless
  <2> QED BY <1>2, <1>5, <1>6, <2>1, <2>2
<1> QED BY <1>7, <1>8 DEF n

(***************************************************************************)
(* The run of any command, of any words and here-documents, is stopped for *)
(* the hosts and paths outside of here-documents, or for a host inside of  *)
(* one, the rest of its opening line included (extract.ts, resource.ts,    *)
(* bundle.ts and engine.ts together).                                      *)
(***************************************************************************)
THEOREM CommandStops ==
  ASSUME NEW X, HasPaths(X), NEW c, WellWritten(X, c)
  PROVE  inspect(Command(c)) = {} <=> AreHarmless(c, Scanned(c))
<1> DEFINE t == Text(c)
           k == stripHeredocs(t)
           all == UNION {Said(c[i]) : i \in 1 .. Len(c)}
           shown == {Shown(c[i]) : i \in 1 .. Len(c)}
           e == Command(c)
<1>1. t \in Seq(X) /\ ToSet(t) = all /\ k \in Seq(X) /\ ToSet(k) = shown
  BY CommandReads DEF Reads
<1>2. /\ \A w : w.kind = "host" => (w \in all <=> w \in Scanned(c) \cup Hidden(c))
      /\ (\A w \in shown : Harmless(w)) <=> \A w \in Scanned(c) : Harmless(w)
  BY PartsSay
<1>3. extractRequests(e) = IF t = <<>> THEN <<>> ELSE CommandRequests(t)
  <2>1. e.type = "command_execution" /\ e.command = t
    BY DEF Command, Text
  <2> HIDE DEF e, t
  <2> QED BY <2>1 DEF extractRequests
<1> HIDE DEF t, all, shown, e
<1>4. firstDenial(CommandRequests(t)) = {} <=>
        /\ \A w \in all : w.kind = "host" => Reachable(w.host)
        /\ \A w \in shown : Harmless(w)
  BY <1>1, CommandPermits
<1>5. \A w : w.kind = "host" => (Harmless(w) <=> Reachable(w.host))
  BY DEF Harmless, Reachable
<1>6. AreHarmless(c, Scanned(c)) <=>
        /\ \A w \in all : w.kind = "host" => Reachable(w.host)
        /\ \A w \in shown : Harmless(w)
  BY <1>2, <1>5 DEF AreHarmless
<1>7. t = <<>> => all = {} /\ shown = {}
  <2>1. ToSet(<<>>) = {}
    BY DEF ToSet
  <2>2. ASSUME t = <<>> PROVE all = {}
    BY <1>1, <2>1, <2>2
  <2>3. \A i \in 1 .. Len(c) : Shown(c[i]) \in Said(c[i])
    BY DEF Shown, Said
  <2>4. shown \subseteq all
    BY <2>3 DEF shown, all
  <2> QED BY <2>2, <2>4
<1>8. inspect(e) = {} <=> firstDenial(CommandRequests(t)) = {} \/ t = <<>>
  BY <1>3, NothingIsNotDenied DEF inspect
<1> QED BY <1>4, <1>6, <1>7, <1>8 DEF e

-----------------------------------------------------------------------------
(* The other events, and the start of a run. *)

LEMMA SearchStops ==
  ASSUME NEW X, NEW q \in Seq(X), \A w \in X : w.kind # "path"
  PROVE  inspect([type |-> "web_search", query |-> q]) = {} <=> \A w \in ToSet(q) : Harmless(w)
<1> DEFINE e == [type |-> "web_search", query |-> q]
           Y == {w.host : w \in X}
           s == destinationsIn(q)
           Hosts == {w.host : w \in {u \in ToSet(q) : u.kind = "host"}}
           a == Requests("net.connect", s)
           B == {Request("net.connect", x) : x \in Y}
<1>1. s \in Seq(Y) /\ ToSet(s) = Hosts
  BY DestinationsAre
<1>2. extractRequests(e) = a
  <2>1. e.type = "web_search" /\ e.query = q
    OBVIOUS
  <2> HIDE DEF e
  <2> QED BY <2>1 DEF extractRequests
<1>3. ToSet(q) \subseteq X
  BY PlacesOf
<1> HIDE DEF e, Y, s
<1>4. a \in Seq(B) /\ ToSet(a) = {Request("net.connect", x) : x \in ToSet(s)}
  BY <1>1, RequestsAre
<1> HIDE DEF a, B
<1>5. firstDenial(a) = {} <=> \A x \in ToSet(a) : Permitted(x)
  BY <1>4, NoDenial
<1>6. \A h : Permitted(Request("net.connect", h)) <=> h \in Allowlisted \ Private
  BY PermittedNet DEF Reachable
<1>7. (\A x \in ToSet(a) : Permitted(x)) <=> \A h \in Hosts : Permitted(Request("net.connect", h))
  BY <1>1, <1>4
<1>8. \A w \in ToSet(q) : Harmless(w) <=> (w.kind = "host" => w.host \in Allowlisted \ Private)
  BY <1>3 DEF Harmless
<1> QED BY <1>2, <1>5, <1>6, <1>7, <1>8 DEF inspect, e

LEMMA OthersDoNotStop ==
  ASSUME NEW type \in {"mcp_tool_call", "agent_message"}
  PROVE  inspect([type |-> type]) = {}
<1> DEFINE e == [type |-> type]
           c == << Plain >>
           r == Request("proc.exec", c)
           a == << r >>
<1>1. e.type = type
  OBVIOUS
<1>2. CASE type = "agent_message"
  <2> HIDE DEF e
  <2>1. extractRequests(e) = <<>>
    BY <1>1, <1>2 DEF extractRequests
  <2> QED BY <2>1, NothingIsNotDenied DEF inspect, e
<1>3. CASE type = "mcp_tool_call"
  <2>1. c \in Seq({Plain}) /\ ToSet(c) = {Plain} /\ Plain.kind # "host"
    BY DEF ToSet, Plain
  <2>2. a \in Seq({r}) /\ ToSet(a) = {r}
    BY DEF ToSet
  <2> HIDE DEF e
  <2>3. extractRequests(e) = a
    BY <1>1, <1>3 DEF extractRequests
  <2> HIDE DEF c
  <2>4. ToSet(destinationsIn(c)) = {}
    <3>1. ToSet(destinationsIn(c)) = {w.host : w \in {u \in ToSet(c) : u.kind = "host"}}
      BY <2>1, DestinationsAre
    <3> QED BY <2>1, <3>1
  <2>5. Permitted(r)
    BY <2>4, PermittedExec
  <2> HIDE DEF a, r
  <2>6. firstDenial(a) = {}
    BY <2>2, <2>5, NoDenial
  <2> QED BY <2>3, <2>6 DEF inspect, e
<1> QED BY <1>2, <1>3

LEMMA ChangesStop ==
  ASSUME NEW X, NEW cs \in Seq(X), \A c \in X : \E S : c.path \in Seq(S),
         \A c \in X : c.absolute \in BOOLEAN
  PROVE  inspect(Changes(cs)) = {} <=> \A c \in ToSet(cs) : ChangeIsHarmless(c)
<1> DEFINE e == Changes(cs)
           a == ChangeRequests(cs)
           Y == {AskedBy(c) : c \in X}
<1>1. extractRequests(e) = a
  <2>1. e.type = "file_change" /\ e.changes = cs
    BY DEF Changes
  <2> HIDE DEF e
  <2> QED BY <2>1 DEF extractRequests
<1>2. a \in Seq(Y) /\ ToSet(a) = {AskedBy(c) : c \in {u \in ToSet(cs) : u.absolute}}
  BY ChangesAre
<1>3. ToSet(cs) \subseteq X
  BY PlacesOf
<1> HIDE DEF e, a, Y
<1>4. firstDenial(a) = {} <=> \A x \in ToSet(a) : Permitted(x)
  BY <1>2, NoDenial
<1>5. ASSUME NEW c \in ToSet(cs)
      PROVE  Permitted(AskedBy(c)) <=> IF c.change = "read" THEN MayRead(c.path) ELSE MayWrite(c.path)
  <2>1. PICK S : c.path \in Seq(S)
    BY <1>3
  <2>2. /\ Permitted(Request("fs.read", canonical(c.path))) <=> MayRead(c.path)
        /\ Permitted(Request("fs.write", canonical(c.path))) <=> MayWrite(c.path)
    BY <2>1, ReadsPermitted
  <2>3. CASE c.change = "read"
    BY <2>2, <2>3 DEF AskedBy
  <2>4. CASE c.change # "read"
    BY <2>2, <2>4 DEF AskedBy
  <2> QED BY <2>3, <2>4
<1>6. (\A x \in ToSet(a) : Permitted(x)) <=> \A c \in ToSet(cs) : c.absolute => Permitted(AskedBy(c))
  BY <1>2
<1>7. (\A c \in ToSet(cs) : c.absolute => Permitted(AskedBy(c))) <=> \A c \in ToSet(cs) : ChangeIsHarmless(c)
  BY <1>5 DEF ChangeIsHarmless
<1> QED BY <1>1, <1>4, <1>6, <1>7 DEF inspect, e

OfGate3(rules) == \A rule \in ToSet(rules) : rule.gate = "G3"

LEMMA PairsHave ==
  ASSUME NEW a, NEW b
  PROVE  ToSet(<< a, b >>) = {a, b}
<1> DEFINE s == << a, b >>
<1>1. DOMAIN s = {1, 2} /\ s[1] = a /\ s[2] = b
  OBVIOUS
<1> HIDE DEF s
<1>2. ToSet(s) = {a, b}
  BY <1>1 DEF ToSet
<1> QED BY <1>2 DEF s

LEMMA FoursHave ==
  ASSUME NEW a, NEW b, NEW c, NEW d
  PROVE  ToSet(<< a, b, c, d >>) = {a, b, c, d}
<1> DEFINE s == << a, b, c, d >>
<1>1. DOMAIN s = {1, 2, 3, 4} /\ s[1] = a /\ s[2] = b /\ s[3] = c /\ s[4] = d
  OBVIOUS
<1> HIDE DEF s
<1>2. ToSet(s) = {a, b, c, d}
  BY <1>1 DEF ToSet
<1> QED BY <1>2 DEF s

\* The other rules of createBundle have no say at G1.
LEMMA OthersAreOfGate3 ==
  ASSUME NEW r
  PROVE  /\ OfGate3(NetRules(r)) /\ OfGate3(FileDenials(r))
         /\ OfGate3(Permits(r)) /\ OfGate3(<< ExecDenial(r) >>)
<1>1. \A id, effect, matches : Rule(id, effect, "G3", matches).gate = "G3"
  BY DEF Rule
<1>2. OfGate3(NetRules(r)) /\ OfGate3(FileDenials(r)) /\ OfGate3(Permits(r))
  <2>1. ASSUME NEW a, NEW b, a.gate = "G3", b.gate = "G3" PROVE OfGate3(<< a, b >>)
    BY <2>1, PairsHave DEF OfGate3
  <2>2. ASSUME NEW a, NEW b, NEW c, NEW d,
               a.gate = "G3", b.gate = "G3", c.gate = "G3", d.gate = "G3"
        PROVE  OfGate3(<< a, b, c, d >>)
    BY <2>2, FoursHave DEF OfGate3
  <2>3. OfGate3(NetRules(r))
    <3> DEFINE a == Rule("KS-1.egress.deny-non-allowlisted", "Deny", "G3",
                    When(r.action = "net.connect" /\ r.resource \notin Allowlisted))
               b == Rule("KS-1.egress.deny-private-ranges", "Deny", "G3",
                    When(r.action = "net.connect" /\ r.resource \in Private))
    <3>1. NetRules(r) = << a, b >>
      BY DEF NetRules
    <3>2. a.gate = "G3" /\ b.gate = "G3"
      BY <1>1
    <3> HIDE DEF a, b
    <3> QED BY <3>1, <3>2, <2>1
  <2>4. OfGate3(FileDenials(r))
    <3> DEFINE a == Rule("KS-2.vault.deny-any-access", "Deny", "G3",
                    When(IsFile(r) /\ namesVault(r.resource)))
               b == Rule("KS-3.fs.deny-outside-workspace", "Deny", "G3",
                    When(/\ IsFile(r) /\ ~isInside(Workspace, r.resource)
                         /\ r.action = "fs.write" \/ ~isSystemRead(r.resource)))
    <3>1. FileDenials(r) = << a, b >>
      BY DEF FileDenials
    <3>2. a.gate = "G3" /\ b.gate = "G3"
      BY <1>1
    <3> HIDE DEF a, b
    <3> QED BY <3>1, <3>2, <2>1
  <2>5. OfGate3(Permits(r))
    <3> DEFINE a == Rule("KS-0.fs.workspace-io", "Allow", "G3",
                    When(IsFile(r) /\ isInside(Workspace, r.resource) /\ ~namesVault(r.resource)))
               b == Rule("KS-0.fs.system-read", "Allow", "G3",
                    When(r.action = "fs.read" /\ isSystemRead(r.resource) /\ ~namesVault(r.resource)))
               c == Rule("KS-0.net.allowlisted", "Allow", "G3",
                    When(r.action = "net.connect" /\ Reachable(r.resource)))
               d == Rule("KS-0.proc.exec", "Allow", "G3",
                    When(r.action = "proc.exec"))
    <3>1. Permits(r) = << a, b, c, d >>
      BY DEF Permits
    <3>2. a.gate = "G3" /\ b.gate = "G3" /\ c.gate = "G3" /\ d.gate = "G3"
      BY <1>1
    <3> HIDE DEF a, b, c, d
    <3> QED BY <3>1, <3>2, <2>2
  <2> QED BY <2>3, <2>4, <2>5
<1>3. OfGate3(<< ExecDenial(r) >>)
  <2> DEFINE a == ExecDenial(r)
  <2>1. a.gate = "G3"
    BY <1>1 DEF ExecDenial
  <2> HIDE DEF a
  <2>2. ToSet(<< a >>) = {a}
    BY DEF ToSet
  <2>3. OfGate3(<< a >>)
    BY <2>1, <2>2 DEF OfGate3
  <2> QED BY <2>3 DEF a
<1> QED BY <1>2, <1>3

\* At G1 only two rules have a say.
LEMMA StartsStop ==
  ASSUME NEW cost \in {"within budget", "over budget"}
  PROVE  evaluate(createBundle(Request("run.start", cost)), "G1").decision = "Allow"
           <=> cost = "within budget"
<1> DEFINE r == Request("run.start", cost)
           a == Rule("KS-0.default-workspace-task", "Allow", "G1", When(r.action = "run.start"))
           b == Rule("KS-6.budget.exhausted", "Deny", "G1",
                     When(r.action = "run.start" /\ r.resource = "over budget"))
           g == G1Rules(r)
           n == g \o NetRules(r)
           f == n \o FileDenials(r)
           p == f \o Permits(r)
           z == << ExecDenial(r) >>
           all == createBundle(r)
<1>1. r.action = "run.start" /\ r.resource = cost
  BY Asked DEF Asks
<1> HIDE DEF r
<1>2. /\ Allows(a) /\ ~Stops(a) /\ a.gate = "G1" /\ b.gate = "G1"
      /\ ~Allows(b) /\ (Stops(b) <=> cost = "over budget")
  BY <1>1 DEF Rule, When, Allows, Stops
<1>3. ToSet(g) = {a, b}
  <2>1. g = << a, b >>
    BY DEF G1Rules
  <2> HIDE DEF a, b, g
  <2> QED BY <2>1, PairsHave
<1>4. OfGate3(NetRules(r)) /\ OfGate3(FileDenials(r)) /\ OfGate3(Permits(r)) /\ OfGate3(z)
  BY OthersAreOfGate3
<1>5. /\ Bundle(g) /\ Bundle(NetRules(r)) /\ Bundle(FileDenials(r)) /\ Bundle(Permits(r))
      /\ Bundle(z)
  BY G1RulesSay, NetRulesSay, FileDenialsSay, PermitsSay, ExecDenialSays
<1>6. all = p \o z
  BY DEF createBundle
<1> HIDE DEF a, b, g, z, all
<1>7. ASSUME NEW s, NEW t, Bundle(s), Bundle(t)
      PROVE  Bundle(s \o t) /\ ToSet(s \o t) = ToSet(s) \cup ToSet(t)
  BY <1>7, SetOfBundles, BundlesConcat
<1>8. Bundle(n) /\ ToSet(n) = ToSet(g) \cup ToSet(NetRules(r))
  BY <1>5, <1>7
<1> HIDE DEF n
<1>9. Bundle(f) /\ ToSet(f) = ToSet(n) \cup ToSet(FileDenials(r))
  BY <1>5, <1>7, <1>8
<1> HIDE DEF f
<1>10. Bundle(p) /\ ToSet(p) = ToSet(f) \cup ToSet(Permits(r))
  BY <1>5, <1>7, <1>9
<1> HIDE DEF p
<1>11. Bundle(all) /\ ToSet(all) = ToSet(p) \cup ToSet(z)
  BY <1>5, <1>6, <1>7, <1>10
<1> DEFINE R == {rule \in ToSet(all) : rule.gate = "G1"}
<1>12. R = {a, b}
  BY <1>2, <1>3, <1>4, <1>8, <1>9, <1>10, <1>11 DEF OfGate3
<1>13. all \in Seq(ToSet(all)) /\ \A rule \in ToSet(all) : RuleOK(rule)
  BY <1>11 DEF Bundle, SomeRule, RuleOK
<1>14. evaluate(all, "G1").decision = "Allow"
         <=> (\E rule \in R : Allows(rule)) /\ ~\E rule \in R : Stops(rule)
  BY <1>13, RulesDecide
<1> HIDE DEF R
<1>15. evaluate(all, "G1").decision = "Allow" <=> cost # "over budget"
  BY <1>2, <1>12, <1>14
<1> QED BY <1>15 DEF all, r

-----------------------------------------------------------------------------
(* Every event of the instance is one of those. *)

CaseIsKnown ==
  /\ case.kind = "command" => case.parts \in Commands
  /\ case.kind = "change" => case.changes \in SomeChanges
  /\ case.kind = "other" => case.type \in {"mcp_tool_call", "agent_message"}
  /\ case.kind = "start" => case.cost \in {"within budget", "over budget"}
  /\ case.kind = "search" =>
       case.query \in SeqOf({Host("ark"), Host("other"), Host("meta"), Plain}, 2)

LEMMA CasesAreKnown == MCSpec => []CaseIsKnown
<1>1. MCInit => CaseIsKnown
  <2>1. \A c, K, S : c \in [kind : {K}, rules : S] => c.kind = K /\ c.rules \in S
    OBVIOUS
  <2>2. \A c, K, S : c \in [kind : {K}, parts : S] => c.kind = K /\ c.parts \in S
    OBVIOUS
  <2>3. \A c, K, S : c \in [kind : {K}, changes : S] => c.kind = K /\ c.changes \in S
    OBVIOUS
  <2>4. \A c, K, S : c \in [kind : {K}, type : S] => c.kind = K /\ c.type \in S
    OBVIOUS
  <2>5. \A c, K, S : c \in [kind : {K}, cost : S] => c.kind = K /\ c.cost \in S
    OBVIOUS
  <2>6. \A c, K, S : c \in [kind : {K}, query : S] => c.kind = K /\ c.query \in S
    OBVIOUS
  <2>7. [kind |-> "log"].kind = "log"
    OBVIOUS
  <2> DEFINE Types == {"mcp_tool_call", "agent_message"}
             Costs == {"within budget", "over budget"}
             Queries == SeqOf({Host("ark"), Host("other"), Host("meta"), Plain}, 2)
  <2>8. /\ Cases = [kind : {"rules"}, rules : RuleLists]
             \cup [kind : {"command"}, parts : Commands]
             \cup [kind : {"change"}, changes : SomeChanges]
             \cup [kind : {"other"}, type : Types]
             \cup [kind : {"start"}, cost : Costs]
             \cup [kind : {"search"}, query : Queries]
    BY DEF Cases
  <2> HIDE DEF Types, Costs, Queries
  <2>9. ASSUME NEW c \in Cases
        PROVE  /\ c.kind = "command" => c.parts \in Commands
               /\ c.kind = "change" => c.changes \in SomeChanges
               /\ c.kind = "other" => c.type \in Types
               /\ c.kind = "start" => c.cost \in Costs
               /\ c.kind = "search" => c.query \in Queries
    BY <2>1, <2>2, <2>3, <2>4, <2>5, <2>6, <2>8
  <2> QED BY <2>7, <2>9 DEF MCInit, CaseIsKnown, Types, Costs, Queries
<1>2. CaseIsKnown /\ [MCNext]_<< vars, case >> => CaseIsKnown'
  BY DEF MCNext, CaseIsKnown
<1> QED BY <1>1, <1>2, PTL DEF MCSpec

LEMMA ChangesAreListed ==
  ASSUME NEW cs \in SomeChanges
  PROVE  inspect(Changes(cs)) = {} <=> \A c \in ToSet(cs) : ChangeIsHarmless(c)
<1>1. \A p \in Paths : \E S : p \in Seq(S)
  <2>1. ASSUME NEW p \in Paths PROVE p \in Seq(Segments)
    <3>1. PICK m \in 0 .. 3 : p \in [1 .. m -> Segments]
      BY DEF Paths, SeqOf
    <3> QED BY <3>1
  <2> QED BY <2>1
<1>2. \E S : << "ws", "a1" >> \in Seq(S)
  <2>1. << "ws", "a1" >> \in Seq({"ws", "a1"})
    OBVIOUS
  <2> QED BY <2>1
<1> DEFINE One == [absolute : BOOLEAN, change : {"read", "update"}, path : Paths]
           first == Change(<< "ws", "a1" >>, "update", TRUE)
<1>3. /\ \A c \in One : (\E S : c.path \in Seq(S)) /\ c.absolute \in BOOLEAN
      /\ (\E S : first.path \in Seq(S)) /\ first.absolute \in BOOLEAN
      /\ \A p \in Paths : Change(p, "read", TRUE) \in One
  BY <1>1, <1>2 DEF Change
<1>4. (\E c \in One : cs = << c >>) \/ \E p \in Paths : cs = << first, Change(p, "read", TRUE) >>
  BY DEF SomeChanges
<1> HIDE DEF One, first
<1>5. CASE \E c \in One : cs = << c >>
  <2>1. PICK c \in One : cs = << c >>
    BY <1>5
  <2>2. cs \in Seq({c})
    BY <2>1
  <2> QED BY <1>3, <2>2, ChangesStop
<1>6. CASE \E p \in Paths : cs = << first, Change(p, "read", TRUE) >>
  <2>1. PICK c \in One : cs = << first, c >>
    BY <1>3, <1>6
  <2> DEFINE X == {first, c}
  <2>2. cs \in Seq(X)
    BY <2>1
  <2>3. \A d \in X : (\E S : d.path \in Seq(S)) /\ d.absolute \in BOOLEAN
    BY <1>3
  <2> HIDE DEF X
  <2> QED BY <2>2, <2>3, ChangesStop
<1> QED BY <1>4, <1>5, <1>6

LEMMA QueriesAreSearched ==
  ASSUME NEW q \in SeqOf({Host("ark"), Host("other"), Host("meta"), Plain}, 2)
  PROVE  inspect([type |-> "web_search", query |-> q]) = {} <=> \A w \in ToSet(q) : Harmless(w)
<1> DEFINE X == {Host("ark"), Host("other"), Host("meta"), Plain}
<1>1. \A w \in X : w.kind # "path"
  BY DEF Host, Plain
<1> HIDE DEF X
<1>2. q \in Seq(X)
  <2>1. PICK m \in 0 .. 2 : q \in [1 .. m -> X]
    BY DEF SeqOf, X
  <2> QED BY <2>1
<1> QED BY <1>1, <1>2, SearchStops

(***************************************************************************)
(* A run is stopped exactly for what the policy is shown of it: the hosts  *)
(* and paths its command names outside of here-documents, the hosts of its *)
(* searches and the files it changes, and the hosts inside here-documents, *)
(* as bundle.ts has it; whatever the policy's hosts, markers and           *)
(* directories are. Paths on the opening line of a here-document are not   *)
(* among them.                                                             *)
(***************************************************************************)
THEOREM RunsStopForWhatIsScanned == MCSpec => []StoppedForWhatIsScanned
<1>1. CaseIsKnown => StoppedForWhatIsScanned
  <2> SUFFICES ASSUME CaseIsKnown PROVE StoppedForWhatIsScanned
    OBVIOUS
  <2>1. case.kind = "command" => (inspect(Command(case.parts)) = {} <=> AreHarmless(case.parts, Scanned(case.parts)))
    BY CommandsAreWritten, WordsHavePaths, CommandStops DEF CaseIsKnown
  <2>2. case.kind = "search" =>
          (inspect([type |-> "web_search", query |-> case.query]) = {}
             <=> \A w \in ToSet(case.query) : Harmless(w))
    BY QueriesAreSearched DEF CaseIsKnown
  <2>3. case.kind = "other" => inspect([type |-> case.type]) = {}
    BY OthersDoNotStop DEF CaseIsKnown
  <2>4. case.kind = "start" =>
          (evaluate(createBundle(Request("run.start", case.cost)), "G1").decision = "Allow"
             <=> case.cost = "within budget")
    BY StartsStop DEF CaseIsKnown
  <2>5. case.kind = "change" =>
          (inspect(Changes(case.changes)) = {} <=> \A c \in ToSet(case.changes) : ChangeIsHarmless(c))
    BY ChangesAreListed DEF CaseIsKnown
  <2> QED BY <2>1, <2>2, <2>3, <2>4, <2>5 DEF StoppedForWhatIsScanned
<1> QED BY <1>1, CasesAreKnown, PTL
=============================================================================
