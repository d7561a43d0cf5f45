-------------------------- MODULE SharedDocProofs --------------------------
(***************************************************************************)
(* Proofs about SharedDoc, for every set of agents, humans and texts, every *)
(* merge function that returns texts, and every bound.                     *)
(***************************************************************************)
EXTENDS SharedDoc, SequenceTheorems, FiniteSetTheorems, TLAPS

\* A commit appends to the log, and nothing it did earlier changes.
LEMMA CommitAppends ==
  ASSUME TypeOK, NEW author \in Actors, NEW next \in Text, Commit(author, next)
  PROVE  /\ version' = version + 1
         /\ version' \in Nat
         /\ content' = next
         /\ history' \in Seq(Entry)
         /\ history' = Append(history, [author |-> author, text |-> next])
<1>1. [author |-> author, text |-> next] \in Entry
  BY DEF Entry
<1>. QED
  BY <1>1, AppendProperties DEF Commit, TypeOK

\* What merge3 is rebased from is always a text.
LEMMA BaseIsText ==
  ASSUME TypeOK, NEW a \in Agents
  PROVE  Base(a) \in Text
  BY MergeAssumption DEF TypeOK, Base

\* Whether the reply arrives or not, the client holds a version and a text.
LEMMA ReplyIsCopy ==
  ASSUME TypeOK, NEW a \in Agents, NEW v \in Nat, NEW text \in Text, Reply(a, v, text)
  PROVE  copy' \in [Agents -> Copy]
<1>1. [version |-> v, text |-> text] \in Copy
  BY DEF Copy
<1>. QED
  BY <1>1 DEF Reply, TypeOK

LEMMA InitTypeOK == Init => TypeOK
<1>. SUFFICES ASSUME Init PROVE TypeOK
  OBVIOUS
<1>1. history \in Seq(Entry) /\ conflicts = <<>> /\ DOMAIN conflicts = {}
  BY DEF Init
<1>2. conflicts \in [DOMAIN conflicts -> Conflict]
  BY <1>1
<1>3. DOMAIN conflicts \subseteq 1 .. opened
  BY <1>1
<1>. QED
  BY <1>1, <1>2, <1>3, MergeAssumption DEF Init, TypeOK, Copy

LEMMA NextTypeOK == TypeOK /\ [Next]_vars => TypeOK'
<1>. SUFFICES ASSUME TypeOK, [Next]_vars PROVE TypeOK'
  OBVIOUS
<1>1. CASE UNCHANGED vars
  BY <1>1 DEF vars, docVars, disputeVars, TypeOK
<1>2. ASSUME NEW a \in Agents, Read(a) PROVE TypeOK'
  BY <1>2 DEF Read, docVars, disputeVars, TypeOK, Copy
<1>3. ASSUME NEW a \in Agents, View(a) PROVE TypeOK'
  BY <1>3 DEF View, docVars, disputeVars, TypeOK
<1>4. ASSUME NEW a \in Agents, NEW next \in Text, WriteCurrent(a, next) PROVE TypeOK'
  <2>1. Commit(a, next) /\ a \in Actors
    BY <1>4 DEF WriteCurrent, AgentCommit, Actors
  <2>2. version' \in Nat /\ content' \in Text /\ history' \in Seq(Entry) /\ version' = version + 1
    BY <2>1, CommitAppends
  <2>3. copy' \in [Agents -> Copy]
    BY <1>4, <2>2, ReplyIsCopy DEF WriteCurrent
  <2>4. bases' \in [Agents -> Text \cup {None}]
    BY <1>4 DEF WriteCurrent, AgentCommit, TypeOK
  <2>. QED
    BY <1>4, <2>2, <2>3, <2>4 DEF WriteCurrent, disputeVars, TypeOK
<1>5. ASSUME NEW a \in Agents, NEW next \in Text, WriteMerged(a, next) PROVE TypeOK'
  <2>. DEFINE text == Merge3(Base(a), next, content).content
  <2>1. text \in Text
    BY BaseIsText, MergeAssumption DEF TypeOK
  <2>2. Commit(a, text) /\ a \in Actors
    BY <1>5 DEF WriteMerged, AgentCommit, Actors
  <2>3. version' \in Nat /\ content' \in Text /\ history' \in Seq(Entry) /\ version' = version + 1
    BY <2>1, <2>2, CommitAppends
  <2>4. copy' \in [Agents -> Copy]
    <3>1. Reply(a, version + 1, text)
      BY <1>5 DEF WriteMerged
    <3>. HIDE DEF text
    <3>. QED
      BY <3>1, <2>1, <2>3, ReplyIsCopy
  <2>5. bases' \in [Agents -> Text \cup {None}]
    <3>1. bases' = [bases EXCEPT ![a] = text]
      BY <1>5 DEF WriteMerged, AgentCommit
    <3>. HIDE DEF text
    <3>. QED
      BY <3>1, <2>1 DEF TypeOK
  <2>. QED
    BY <1>5, <2>3, <2>4, <2>5 DEF WriteMerged, disputeVars, TypeOK
<1>6. ASSUME NEW a \in Agents, NEW next \in Text, WriteConflict(a, next) PROVE TypeOK'
  <2>. DEFINE pending == [id |-> conflictSeq + 1, agentId |-> a, base |-> Base(a),
                          ours |-> next, theirs |-> content, atVersion |-> version]
              others == {k \in DOMAIN conflicts : conflicts[k].agentId # a}
  <2>1. pending \in Conflict
    BY BaseIsText DEF TypeOK, Conflict
  <2>2. conflicts' = [k \in others \cup {opened + 1} |->
                        IF k \in others THEN conflicts[k] ELSE pending]
    BY <1>6 DEF WriteConflict, OpenConflict
  <2>3. opened' = opened + 1 /\ opened' \in Nat /\ conflictSeq' \in Nat
    BY <1>6 DEF WriteConflict, TypeOK
  <2>4. DOMAIN conflicts' \subseteq 1 .. opened'
    BY <2>2, <2>3 DEF TypeOK
  <2>5. conflicts' \in [DOMAIN conflicts' -> Conflict]
    <3>. HIDE DEF pending
    <3>1. \A k \in others : conflicts[k] \in Conflict
      BY DEF TypeOK
    <3>. QED
      BY <2>1, <2>2, <3>1
  <2>6. copy' \in [Agents -> Copy]
    <3>1. [version |-> version, text |-> content] \in Copy
      BY DEF TypeOK, Copy
    <3>. QED
      BY <1>6, <3>1 DEF WriteConflict, TypeOK
  <2>. QED
    BY <1>6, <2>3, <2>4, <2>5, <2>6 DEF WriteConflict, docVars, TypeOK
<1>7. ASSUME NEW h \in Humans, NEW next \in Text, HumanWrite(h, next) PROVE TypeOK'
  <2>1. Commit(h, next) /\ h \in Actors
    BY <1>7 DEF HumanWrite, Actors
  <2>2. version' \in Nat /\ content' \in Text /\ history' \in Seq(Entry)
    BY <2>1, CommitAppends
  <2>. QED
    BY <1>7, <2>2 DEF HumanWrite, disputeVars, TypeOK
<1>8. ASSUME NEW h \in Humans, NEW k \in 1 .. MaxConflicts, NEW chosen \in Text,
             Choose(h, k, chosen)
      PROVE  TypeOK'
  <2>1. conflicts[k] \in Conflict
    BY <1>8 DEF Choose, TypeOK
  <2>2. [conflictId |-> conflicts[k].id, chosen |-> chosen, seenAt |-> conflicts[k].atVersion]
          \in Choice
    BY <2>1 DEF Conflict, Choice
  <2>. QED
    BY <1>8, <2>2 DEF Choose, docVars, disputeVars, TypeOK
<1>9. ASSUME NEW h \in Humans, ResolveRefused(h) PROVE TypeOK'
  BY <1>9 DEF ResolveRefused, docVars, disputeVars, TypeOK
<1>10. ASSUME NEW h \in Humans, NEW k \in 1 .. MaxConflicts, ResolveAgain(h, k) PROVE TypeOK'
  <2>. DEFINE again == [conflicts[k] EXCEPT !.ours = choice[h].chosen, !.theirs = content,
                                            !.atVersion = version]
  <2>1. k \in DOMAIN conflicts /\ conflicts[k] \in Conflict /\ choice[h] \in Choice
    BY <1>10 DEF ResolveAgain, IsFirst, WithId, TypeOK
  <2>2. again \in Conflict
    BY <2>1 DEF TypeOK, Conflict, Choice
  <2>3. conflicts' = [j \in DOMAIN conflicts |->
                        IF j \in WithId(choice[h].conflictId) THEN again ELSE conflicts[j]]
    BY <1>10 DEF ResolveAgain
  <2>4. DOMAIN conflicts' = DOMAIN conflicts /\ conflicts' \in [DOMAIN conflicts' -> Conflict]
    <3>. HIDE DEF again
    <3>. QED
      BY <2>2, <2>3 DEF TypeOK
  <2>. QED
    BY <1>10, <2>4 DEF ResolveAgain, docVars, TypeOK
<1>11. ASSUME NEW h \in Humans, NEW k \in 1 .. MaxConflicts, ResolveCommit(h, k) PROVE TypeOK'
  <2>. DEFINE text == Merge3(conflicts[k].theirs, choice[h].chosen, content).content
  <2>1. k \in DOMAIN conflicts /\ conflicts[k] \in Conflict /\ choice[h] \in Choice
    BY <1>11 DEF ResolveCommit, IsFirst, WithId, TypeOK
  <2>2. text \in Text
    BY <2>1, MergeAssumption DEF TypeOK, Conflict, Choice
  <2>3. Commit(h, text) /\ h \in Actors
    BY <1>11 DEF ResolveCommit, Actors
  <2>4. version' \in Nat /\ content' \in Text /\ history' \in Seq(Entry)
    BY <2>2, <2>3, CommitAppends
  <2>5. bases' \in [Agents -> Text \cup {None}]
    <3>1. bases' = [bases EXCEPT ![conflicts[k].agentId] = text]
      BY <1>11 DEF ResolveCommit
    <3>. HIDE DEF text
    <3>. QED
      BY <3>1, <2>2 DEF TypeOK
  <2>6. DOMAIN conflicts' \subseteq DOMAIN conflicts /\ conflicts' \in [DOMAIN conflicts' -> Conflict]
    BY <1>11 DEF ResolveCommit, CloseConflict, TypeOK
  <2>. QED
    BY <1>11, <2>4, <2>5, <2>6 DEF ResolveCommit, TypeOK
<1>12. ASSUME NEW a \in Agents, NEW ttl \in 1 .. MaxTtl, AcquireLease(a, ttl) PROVE TypeOK'
  BY <1>12 DEF AcquireLease, docVars, disputeVars, TypeOK
<1>13. ASSUME NEW a \in Agents, ReleaseLease(a) PROVE TypeOK'
  BY <1>13 DEF ReleaseLease, docVars, disputeVars, TypeOK
<1>14. CASE Tick
  <2>1. lease' \in [holder : Agents, left : 1 .. MaxTtl] \cup {NoLease}
    BY <1>14, BoundAssumption DEF Tick, TypeOK
  <2>. QED
    BY <1>14, <2>1 DEF Tick, docVars, disputeVars, TypeOK
<1>15. ASSUME NEW a \in Agents, ChangeAuthority(a) PROVE TypeOK'
  BY <1>15 DEF ChangeAuthority, docVars, disputeVars, TypeOK
<1>16. CASE Restart
  <2>1. Cardinality(DOMAIN conflicts) \in Nat
    <3>1. IsFiniteSet(DOMAIN conflicts)
      <4>1. IsFiniteSet(1 .. opened)
        <5>1. opened \in Int
          BY DEF TypeOK
        <5>. QED
          BY <5>1, FS_Interval
      <4>2. DOMAIN conflicts \subseteq 1 .. opened
        BY DEF TypeOK
      <4>. QED
        BY <4>1, <4>2, FS_Subset
    <3>. QED
      BY <3>1, FS_CardinalityType
  <2>. QED
    BY <1>16, <2>1 DEF Restart, docVars, TypeOK
<1>. QED
  BY <1>1, <1>2, <1>3, <1>4, <1>5, <1>6, <1>7, <1>8, <1>9, <1>10, <1>11, <1>12, <1>13,
     <1>14, <1>15, <1>16 DEF Next

(***************************************************************************)
(* TypeOK is inductive on its own (all the operations of the store).       *)
(***************************************************************************)
THEOREM TypeCorrect == Spec => []TypeOK
  BY InitTypeOK, NextTypeOK, PTL DEF Spec

-----------------------------------------------------------------------------
(***************************************************************************)
(* What the store, its clients and its conflicts hold were committed       *)
(* versions. The four parts need each other: a commit extends the log from *)
(* the document it agrees with, a reply is a copy of what was committed,   *)
(* and an anchor is the text at the version it names.                      *)
(***************************************************************************)
Committed ==
  /\ TypeOK
  /\ HistoryIsTheDocument
  /\ CopiesAreCommitted
  /\ BasesAreCommitted
  /\ ConflictsAreAnchored

\* The log still agrees with the document, and no committed text changes.
LEMMA CommitKeepsTexts ==
  ASSUME TypeOK, HistoryIsTheDocument,
         NEW author \in Actors, NEW next \in Text, Commit(author, next)
  PROVE  /\ HistoryIsTheDocument'
         /\ \A v \in 0 .. version : TextAt(v)' = TextAt(v)
<1>. DEFINE e == [author |-> author, text |-> next]
<1>1. e \in Entry /\ history \in Seq(Entry) /\ Len(history) = version /\ version \in Nat
  BY DEF Entry, TypeOK, HistoryIsTheDocument
<1>2. history' = Append(history, e) /\ version' = version + 1 /\ content' = next
  BY DEF Commit
<1>. HIDE DEF e
<1>3. Len(history') = version' /\ history'[version'] = e
  BY <1>1, <1>2, AppendProperties
<1>4. \A v \in 1 .. version : history'[v] = history[v]
  BY <1>1, <1>2, AppendProperties
<1>5. HistoryIsTheDocument'
  BY <1>1, <1>2, <1>3 DEF HistoryIsTheDocument, TextAt, e
<1>6. \A v \in 0 .. version : TextAt(v)' = TextAt(v)
  BY <1>1, <1>4 DEF TextAt
<1>. QED
  BY <1>5, <1>6

\* What a commit leaves alone is still committed afterwards.
LEMMA CommitKeepsAnchors ==
  ASSUME Committed, NEW author \in Actors, NEW next \in Text, Commit(author, next)
  PROVE  /\ \A a \in Agents : copy[a].version \in Nat
         /\ \A k \in DOMAIN conflicts : conflicts[k].atVersion \in Nat
         /\ \A a \in Agents, v \in Nat :
               copy[a].version = v => v <= version' /\ copy[a].text = TextAt(v)'
         /\ \A a \in Agents : bases[a] # None =>
               \E v \in 0 .. version' : bases[a] = TextAt(v)'
         /\ \A k \in DOMAIN conflicts, v \in Nat :
               conflicts[k].atVersion = v => v <= version' /\ conflicts[k].theirs = TextAt(v)'
<1>1. version \in Nat /\ version' = version + 1
  BY DEF Committed, TypeOK, Commit
<1>2. \A v \in 0 .. version : TextAt(v)' = TextAt(v)
  BY CommitKeepsTexts DEF Committed
<1>3. ASSUME NEW a \in Agents, NEW v \in Nat, copy[a].version = v
      PROVE  v <= version' /\ copy[a].text = TextAt(v)'
  <2>1. v \in 0 .. version /\ copy[a].text = TextAt(v)
    BY <1>1, <1>3 DEF Committed, CopiesAreCommitted
  <2>. QED
    BY <1>1, <1>2, <2>1
<1>4. ASSUME NEW a \in Agents, bases[a] # None
      PROVE  \E v \in 0 .. version' : bases[a] = TextAt(v)'
  <2>1. PICK v \in 0 .. version : bases[a] = TextAt(v)
    BY <1>4 DEF Committed, BasesAreCommitted
  <2>. QED
    BY <1>1, <1>2, <2>1
<1>5. ASSUME NEW k \in DOMAIN conflicts, NEW v \in Nat, conflicts[k].atVersion = v
      PROVE  v <= version' /\ conflicts[k].theirs = TextAt(v)'
  <2>1. v \in 0 .. version /\ conflicts[k].theirs = TextAt(v)
    BY <1>1, <1>5 DEF Committed, ConflictsAreAnchored
  <2>. QED
    BY <1>1, <1>2, <2>1
<1>6. /\ \A a \in Agents : copy[a].version \in Nat
      /\ \A k \in DOMAIN conflicts : conflicts[k].atVersion \in Nat
  BY DEF Committed, TypeOK, Copy, Conflict
<1>. QED
  BY <1>3, <1>4, <1>5, <1>6

LEMMA InitCommitted == Init => Committed
<1>. SUFFICES ASSUME Init PROVE Committed
  OBVIOUS
<1>1. TypeOK
  BY InitTypeOK
<1>. QED
  BY <1>1 DEF Init, Committed, HistoryIsTheDocument, CopiesAreCommitted, BasesAreCommitted,
     ConflictsAreAnchored, TextAt

LEMMA NextCommitted == Committed /\ [Next]_vars => Committed'
<1>. SUFFICES ASSUME Committed, [Next]_vars PROVE Committed'
  OBVIOUS
<1>1. TypeOK /\ TypeOK'
  BY NextTypeOK DEF Committed
<1>2. version \in Nat /\ content = TextAt(version)
  BY DEF Committed, TypeOK, HistoryIsTheDocument
<1>3. CASE UNCHANGED << docVars, conflicts, bases, copy >>
  BY <1>1, <1>3 DEF Committed, HistoryIsTheDocument, CopiesAreCommitted, BasesAreCommitted,
     ConflictsAreAnchored, TextAt, docVars
<1>4. ASSUME NEW a \in Agents, Read(a) \/ View(a) PROVE Committed'
  <2>1. UNCHANGED << version, content, history, conflicts >>
    BY <1>4 DEF Read, View, docVars, disputeVars
  <2>2. \A v : TextAt(v)' = TextAt(v)
    BY <2>1 DEF TextAt
  <2>3. HistoryIsTheDocument' /\ ConflictsAreAnchored'
    BY <2>1, <2>2 DEF Committed, HistoryIsTheDocument, ConflictsAreAnchored
  <2>4. CopiesAreCommitted'
    <3>1. copy' = copy \/ copy' = [copy EXCEPT ![a] = [version |-> version, text |-> content]]
      BY <1>4 DEF Read, View
    <3>2. content = TextAt(version) /\ version <= version' /\ TextAt(version)' = TextAt(version)
      BY <1>2, <2>1 DEF TextAt
    <3>3. ASSUME NEW b \in Agents
          PROVE  copy'[b] = copy[b] \/ (copy'[b].version = version /\ copy'[b].text = content)
      <4>1. DOMAIN copy = Agents
        BY <1>1 DEF TypeOK
      <4>. QED
        BY <3>1, <4>1
    <3>4. \A v : v = version => TextAt(v)' = content
      BY <2>2, <3>2
    <3>. QED
      BY <2>1, <2>2, <3>2, <3>3, <3>4 DEF Committed, CopiesAreCommitted
  <2>5. BasesAreCommitted'
    <3>1. bases' = [bases EXCEPT ![a] = content]
      BY <1>4 DEF Read, View
    <3>2. ASSUME NEW b \in Agents
          PROVE  bases'[b] = bases[b] \/ bases'[b] = TextAt(version)'
      BY <1>1, <1>2, <2>1, <2>2, <3>1 DEF TypeOK
    <3>3. version \in 0 .. version
      BY <1>2
    <3>. QED
      BY <2>1, <2>2, <3>2, <3>3 DEF Committed, BasesAreCommitted
  <2>. QED
    BY <1>1, <2>3, <2>4, <2>5 DEF Committed
<1>5. ASSUME NEW a \in Agents, NEW text \in Text, Commit(a, text),
             bases' = [bases EXCEPT ![a] = text], Reply(a, version + 1, text),
             UNCHANGED conflicts
      PROVE  Committed'
  <2>. a \in Actors
    BY DEF Actors
  <2>1. HistoryIsTheDocument' /\ version' = version + 1 /\ content' = text
    BY <1>1, <1>5, CommitKeepsTexts DEF Committed, Commit
  <2>2. text = TextAt(version)' /\ version' \in Nat /\ version' \in 0 .. version'
    BY <1>1, <2>1 DEF HistoryIsTheDocument, TypeOK
  <2>3. ConflictsAreAnchored'
    BY <1>5, CommitKeepsAnchors DEF ConflictsAreAnchored
  <2>4. CopiesAreCommitted'
    <3>. SUFFICES ASSUME NEW b \in Agents
                  PROVE  /\ copy'[b].version <= version'
                         /\ copy'[b].text = TextAt(copy[b].version)'
      BY DEF CopiesAreCommitted
    <3>1. CASE copy'[b] = copy[b]
      BY <1>5, <3>1, CommitKeepsAnchors
    <3>2. CASE copy'[b] = [version |-> version + 1, text |-> text]
      <4>1. copy'[b].version = version' /\ copy'[b].text = text
        BY <2>1, <3>2
      <4>. QED
        BY <2>2, <4>1
    <3>. QED
      BY <1>1, <1>5, <3>1, <3>2 DEF Reply, TypeOK
  <2>5. BasesAreCommitted'
    <3>. SUFFICES ASSUME NEW b \in Agents, bases'[b] # None
                  PROVE  \E v \in 0 .. version' : bases'[b] = TextAt(v)'
      BY DEF BasesAreCommitted
    <3>1. CASE bases'[b] = bases[b]
      BY <1>5, <3>1, CommitKeepsAnchors
    <3>2. CASE bases'[b] = text
      BY <2>2, <3>2
    <3>. QED
      BY <1>1, <1>5, <3>1, <3>2 DEF TypeOK
  <2>. QED
    BY <1>1, <2>1, <2>3, <2>4, <2>5 DEF Committed
<1>6. ASSUME NEW a \in Agents, NEW next \in Text, WriteCurrent(a, next) PROVE Committed'
  BY <1>5, <1>6 DEF WriteCurrent, AgentCommit, disputeVars
<1>7. ASSUME NEW a \in Agents, NEW next \in Text, WriteMerged(a, next) PROVE Committed'
  <2>1. Merge3(Base(a), next, content).content \in Text
    BY <1>1, BaseIsText, MergeAssumption DEF TypeOK
  <2>. QED
    BY <1>5, <1>7, <2>1 DEF WriteMerged, AgentCommit, disputeVars
<1>8. ASSUME NEW a \in Agents, NEW next \in Text, WriteConflict(a, next) PROVE Committed'
  <2>1. UNCHANGED << version, content, history, bases >>
    BY <1>8 DEF WriteConflict, docVars
  <2>2. \A v : TextAt(v)' = TextAt(v)
    BY <2>1 DEF TextAt
  <2>3. HistoryIsTheDocument' /\ BasesAreCommitted'
    BY <2>1, <2>2 DEF Committed, HistoryIsTheDocument, BasesAreCommitted
  <2>4. CopiesAreCommitted'
    <3>1. copy' = copy \/ copy' = [copy EXCEPT ![a] = [version |-> version, text |-> content]]
      BY <1>8 DEF WriteConflict
    <3>. QED
      BY <1>1, <1>2, <2>1, <2>2, <3>1 DEF Committed, CopiesAreCommitted, TypeOK
  <2>5. ConflictsAreAnchored'
    <3>. SUFFICES ASSUME NEW k \in DOMAIN conflicts'
                  PROVE  /\ conflicts'[k].atVersion <= version
                         /\ conflicts'[k].theirs = TextAt(conflicts'[k].atVersion)
      BY <2>1, <2>2 DEF ConflictsAreAnchored
    <3>1. \/ k \in DOMAIN conflicts /\ conflicts'[k] = conflicts[k]
          \/ conflicts'[k].atVersion = version /\ conflicts'[k].theirs = content
      BY <1>8 DEF WriteConflict, OpenConflict
    <3>. QED
      BY <1>2, <3>1 DEF Committed, ConflictsAreAnchored
  <2>. QED
    BY <1>1, <2>3, <2>4, <2>5 DEF Committed
<1>9. ASSUME NEW h \in Humans, NEW next \in Text, HumanWrite(h, next) PROVE Committed'
  <2>1. h \in Actors /\ Commit(h, next) /\ UNCHANGED << conflicts, copy >>
    BY <1>9 DEF HumanWrite, Actors, disputeVars
  <2>2. HistoryIsTheDocument'
    BY <2>1, CommitKeepsTexts DEF Committed
  <2>3. CopiesAreCommitted' /\ ConflictsAreAnchored'
    BY <2>1, CommitKeepsAnchors DEF CopiesAreCommitted, ConflictsAreAnchored
  <2>4. BasesAreCommitted'
    BY <1>9 DEF HumanWrite, BasesAreCommitted
  <2>. QED
    BY <1>1, <2>2, <2>3, <2>4 DEF Committed
<1>10. ASSUME NEW h \in Humans, NEW k \in 1 .. MaxConflicts, ResolveAgain(h, k) PROVE Committed'
  <2>1. UNCHANGED << version, content, history, bases, copy >>
    BY <1>10 DEF ResolveAgain, docVars
  <2>2. \A v : TextAt(v)' = TextAt(v)
    BY <2>1 DEF TextAt
  <2>3. HistoryIsTheDocument' /\ BasesAreCommitted' /\ CopiesAreCommitted'
    BY <2>1, <2>2 DEF Committed, HistoryIsTheDocument, BasesAreCommitted, CopiesAreCommitted
  <2>4. ConflictsAreAnchored'
    <3>. SUFFICES ASSUME NEW j \in DOMAIN conflicts'
                  PROVE  /\ conflicts'[j].atVersion <= version
                         /\ conflicts'[j].theirs = TextAt(conflicts'[j].atVersion)
      BY <2>1, <2>2 DEF ConflictsAreAnchored
    <3>1. k \in DOMAIN conflicts /\ conflicts[k] \in Conflict
      BY <1>1, <1>10 DEF ResolveAgain, IsFirst, WithId, TypeOK
    <3>2. \/ j \in DOMAIN conflicts /\ conflicts'[j] = conflicts[j]
          \/ conflicts'[j].atVersion = version /\ conflicts'[j].theirs = content
      BY <1>10, <3>1 DEF ResolveAgain, Conflict
    <3>. QED
      BY <1>2, <3>2 DEF Committed, ConflictsAreAnchored
  <2>. QED
    BY <1>1, <2>3, <2>4 DEF Committed
<1>11. ASSUME NEW h \in Humans, NEW k \in 1 .. MaxConflicts, ResolveCommit(h, k) PROVE Committed'
  <2>. DEFINE text == Merge3(conflicts[k].theirs, choice[h].chosen, content).content
  <2>1. k \in DOMAIN conflicts /\ conflicts[k] \in Conflict /\ choice[h] \in Choice
    BY <1>1, <1>11 DEF ResolveCommit, IsFirst, WithId, TypeOK
  <2>2. text \in Text
    BY <1>1, <2>1, MergeAssumption DEF TypeOK, Conflict, Choice
  <2>3. /\ h \in Actors /\ Commit(h, text) /\ UNCHANGED copy
        /\ bases' = [bases EXCEPT ![conflicts[k].agentId] = text]
    BY <1>11 DEF ResolveCommit, Actors
  <2>. HIDE DEF text
  <2>4. HistoryIsTheDocument' /\ content' = text /\ version' \in 0 .. version'
    BY <1>1, <2>2, <2>3, CommitKeepsTexts DEF Committed, Commit, TypeOK
  <2>5. CopiesAreCommitted'
    BY <2>2, <2>3, CommitKeepsAnchors DEF CopiesAreCommitted
  <2>6. ConflictsAreAnchored'
    <3>1. \A j \in DOMAIN conflicts' : j \in DOMAIN conflicts /\ conflicts'[j] = conflicts[j]
      BY <1>11 DEF ResolveCommit, CloseConflict
    <3>. QED
      BY <2>2, <2>3, <3>1, CommitKeepsAnchors DEF ConflictsAreAnchored
  <2>7. BasesAreCommitted'
    <3>. SUFFICES ASSUME NEW b \in Agents, bases'[b] # None
                  PROVE  \E v \in 0 .. version' : bases'[b] = TextAt(v)'
      BY DEF BasesAreCommitted
    <3>1. CASE bases'[b] = bases[b]
      BY <2>2, <2>3, <3>1, CommitKeepsAnchors
    <3>2. CASE bases'[b] = text
      BY <2>4, <3>2 DEF HistoryIsTheDocument
    <3>. QED
      BY <1>1, <2>3, <3>1, <3>2 DEF TypeOK
  <2>. QED
    BY <1>1, <2>4, <2>5, <2>6, <2>7 DEF Committed
<1>12. ASSUME NEW h \in Humans,
              \/ ResolveRefused(h)
              \/ \E k \in 1 .. MaxConflicts, chosen \in Text : Choose(h, k, chosen)
       PROVE  Committed'
  BY <1>3, <1>12 DEF ResolveRefused, Choose, disputeVars
<1>13. ASSUME NEW a \in Agents,
              \/ ReleaseLease(a) \/ ChangeAuthority(a)
              \/ \E ttl \in 1 .. MaxTtl : AcquireLease(a, ttl)
       PROVE  Committed'
  BY <1>3, <1>13 DEF ReleaseLease, ChangeAuthority, AcquireLease, disputeVars
<1>14. CASE Tick \/ Restart \/ UNCHANGED vars
  BY <1>3, <1>14 DEF Tick, Restart, vars, disputeVars
<1>. QED
  BY <1>4, <1>6, <1>7, <1>8, <1>9, <1>10, <1>11, <1>12, <1>13, <1>14 DEF Next

(***************************************************************************)
(* The document, the clients' copies, the merge bases and the anchors of   *)
(* the open conflicts are all committed versions (read, write,             *)
(* writeAsHuman, resolve).                                                 *)
(***************************************************************************)
THEOREM WhatIsHeldWasCommitted ==
  Spec => [](HistoryIsTheDocument /\ CopiesAreCommitted /\ BasesAreCommitted
               /\ ConflictsAreAnchored)
<1>1. Committed => HistoryIsTheDocument /\ CopiesAreCommitted /\ BasesAreCommitted
                     /\ ConflictsAreAnchored
  BY DEF Committed
<1>. QED
  BY <1>1, InitCommitted, NextCommitted, PTL DEF Spec

-----------------------------------------------------------------------------
(***************************************************************************)
(* As long as the server is not restarted, an id is the place of its       *)
(* conflict in the order of arrival, so resolve finds and closes one       *)
(* conflict. The restart numbers ids anew and breaks this.                 *)
(***************************************************************************)
Numbered ==
  /\ conflictSeq = opened
  /\ \A k \in DOMAIN conflicts : conflicts[k].id = k
  /\ \A j, k \in DOMAIN conflicts : j # k => conflicts[j].agentId # conflicts[k].agentId

LEMMA InitNumbered == Init => Numbered
<1>. SUFFICES ASSUME Init PROVE Numbered
  OBVIOUS
<1>1. DOMAIN conflicts = {}
  BY DEF Init
<1>. QED
  BY <1>1 DEF Init, Numbered

\* The conflict a decision is about is the only one with its id.
LEMMA OneWithId ==
  ASSUME Numbered, NEW id, NEW k, IsFirst(k, id)
  PROVE  k \in DOMAIN conflicts /\ WithId(id) = {k}
  BY DEF Numbered, IsFirst, WithId

LEMMA NextNumbered ==
  ASSUME MaxRestarts = 0
  PROVE  TypeOK /\ Numbered /\ [Next]_vars => Numbered'
<1>. SUFFICES ASSUME TypeOK, Numbered, [Next]_vars PROVE Numbered'
  OBVIOUS
<1>1. CASE UNCHANGED disputeVars
  BY <1>1 DEF disputeVars, Numbered
<1>2. ASSUME NEW a \in Agents, NEW next \in Text, WriteConflict(a, next) PROVE Numbered'
  <2>. DEFINE pending == [id |-> conflictSeq + 1, agentId |-> a, base |-> Base(a),
                          ours |-> next, theirs |-> content, atVersion |-> version]
              others == {k \in DOMAIN conflicts : conflicts[k].agentId # a}
  <2>1. /\ conflicts' = [k \in others \cup {opened + 1} |->
                           IF k \in others THEN conflicts[k] ELSE pending]
        /\ opened' = opened + 1 /\ conflictSeq' = conflictSeq + 1
    BY <1>2 DEF WriteConflict, OpenConflict
  <2>2. pending.id = opened + 1 /\ pending.agentId = a
    BY DEF Numbered
  <2>3. opened + 1 \notin others
    BY DEF TypeOK
  <2>. HIDE DEF pending
  <2>4. /\ DOMAIN conflicts' = others \cup {opened + 1}
        /\ \A k \in others : conflicts'[k] = conflicts[k]
        /\ conflicts'[opened + 1] = pending
    BY <2>1, <2>3
  <2>. QED
    BY <2>1, <2>2, <2>4 DEF Numbered
<1>3. ASSUME NEW h \in Humans, NEW k \in 1 .. MaxConflicts, ResolveAgain(h, k) PROVE Numbered'
  <2>. DEFINE again == [conflicts[k] EXCEPT !.ours = choice[h].chosen, !.theirs = content,
                                            !.atVersion = version]
  <2>1. k \in DOMAIN conflicts /\ WithId(choice[h].conflictId) = {k}
    BY <1>3, OneWithId DEF ResolveAgain
  <2>2. again.id = conflicts[k].id /\ again.agentId = conflicts[k].agentId
    BY <2>1 DEF TypeOK, Conflict
  <2>3. conflicts' = [j \in DOMAIN conflicts |-> IF j = k THEN again ELSE conflicts[j]]
    BY <1>3, <2>1 DEF ResolveAgain
  <2>4. opened' = opened /\ conflictSeq' = conflictSeq
    BY <1>3 DEF ResolveAgain
  <2>. HIDE DEF again
  <2>. QED
    BY <2>1, <2>2, <2>3, <2>4 DEF Numbered
<1>4. ASSUME NEW h \in Humans, NEW k \in 1 .. MaxConflicts, ResolveCommit(h, k) PROVE Numbered'
  BY <1>4 DEF ResolveCommit, CloseConflict, Numbered
<1>5. CASE Restart
  BY <1>5 DEF Restart, TypeOK
<1>6. ASSUME NEW a \in Agents,
             \/ Read(a) \/ View(a) \/ ReleaseLease(a) \/ ChangeAuthority(a)
             \/ \E next \in Text : WriteCurrent(a, next) \/ WriteMerged(a, next)
             \/ \E ttl \in 1 .. MaxTtl : AcquireLease(a, ttl)
      PROVE  Numbered'
  BY <1>1, <1>6 DEF Read, View, ReleaseLease, ChangeAuthority, WriteCurrent, WriteMerged,
     AcquireLease
<1>7. ASSUME NEW h \in Humans,
             \/ ResolveRefused(h)
             \/ \E next \in Text : HumanWrite(h, next)
             \/ \E k \in 1 .. MaxConflicts, chosen \in Text : Choose(h, k, chosen)
      PROVE  Numbered'
  BY <1>1, <1>7 DEF ResolveRefused, HumanWrite, Choose
<1>8. CASE Tick \/ UNCHANGED vars
  BY <1>1, <1>8 DEF Tick, vars
<1>. QED
  BY <1>2, <1>3, <1>4, <1>5, <1>6, <1>7, <1>8 DEF Next

(***************************************************************************)
(* Between restarts there is one open conflict per agent, and an id names  *)
(* one conflict (write, resolve, conflictSeq).                             *)
(***************************************************************************)
THEOREM OneOpenConflict ==
  ASSUME MaxRestarts = 0
  PROVE  Spec => []OneConflictPerAgent
<1>1. TypeOK /\ Numbered => OneConflictPerAgent
  BY DEF Numbered, OneConflictPerAgent
<1>2. TypeOK /\ Numbered /\ [Next]_vars => (TypeOK /\ Numbered)'
  BY NextTypeOK, NextNumbered
<1>. QED
  BY <1>1, <1>2, InitTypeOK, InitNumbered, PTL DEF Spec

-----------------------------------------------------------------------------
LEMMA InitLog == Init => Log!Init
<1>. SUFFICES ASSUME Init PROVE Log!Init
  OBVIOUS
<1>1. DOMAIN conflicts = {}
  BY DEF Init
<1>. QED
  BY <1>1 DEF Init, Log!Init, Disputed

\* A commit that leaves the disputes alone is a Write of the log.
LEMMA CommitIsWrite ==
  ASSUME TypeOK, NEW author \in Actors, NEW next \in Text, Commit(author, next),
         UNCHANGED conflicts
  PROVE  Log!Next
<1>1. Disputed' = Disputed
  BY DEF Disputed
<1>2. Log!Write(author, next)
  BY <1>1 DEF Commit, Log!Write, Log!Record
<1>. QED
  BY <1>2 DEF Log!Next, Actors

LEMMA NextLog == TypeOK /\ Numbered /\ [Next]_vars => [Log!Next]_<< history, Disputed >>
<1>. SUFFICES ASSUME TypeOK, Numbered, [Next]_vars
              PROVE  [Log!Next]_<< history, Disputed >>
  OBVIOUS
<1>1. CASE UNCHANGED << history, conflicts >>
  BY <1>1 DEF Disputed
<1>2. ASSUME NEW a \in Agents, NEW next \in Text, WriteCurrent(a, next)
      PROVE  Log!Next
  BY <1>2, CommitIsWrite DEF WriteCurrent, AgentCommit, Actors, disputeVars
<1>3. ASSUME NEW a \in Agents, NEW next \in Text, WriteMerged(a, next)
      PROVE  Log!Next
  <2>1. Merge3(Base(a), next, content).content \in Text
    BY BaseIsText, MergeAssumption DEF TypeOK
  <2>. QED
    BY <1>3, <2>1, CommitIsWrite DEF WriteMerged, AgentCommit, Actors, disputeVars
<1>4. ASSUME NEW a \in Agents, NEW next \in Text, WriteConflict(a, next)
      PROVE  Log!Next
  <2>. DEFINE others == {k \in DOMAIN conflicts : conflicts[k].agentId # a}
  <2>1. /\ DOMAIN conflicts' = others \cup {opened + 1}
        /\ \A k \in others : conflicts'[k] = conflicts[k]
        /\ conflicts'[opened + 1].agentId = a
    <3>1. opened + 1 \notin others
      BY DEF TypeOK
    <3>. QED
      BY <1>4, <3>1 DEF WriteConflict, OpenConflict
  <2>2. Disputed' = {conflicts'[k].agentId : k \in others} \cup {a}
    BY <2>1 DEF Disputed
  <2>3. Disputed' = Disputed \cup {a}
    BY <2>1, <2>2 DEF Disputed
  <2>. QED
    BY <1>4, <2>3 DEF WriteConflict, docVars, Log!Next, Log!Dispute
<1>5. ASSUME NEW h \in Humans, NEW next \in Text, HumanWrite(h, next)
      PROVE  Log!Next
  BY <1>5, CommitIsWrite DEF HumanWrite, Actors, disputeVars
<1>6. ASSUME NEW h \in Humans, NEW k \in 1 .. MaxConflicts, ResolveAgain(h, k)
      PROVE  UNCHANGED << history, Disputed >>
  <2>. DEFINE again == [conflicts[k] EXCEPT !.ours = choice[h].chosen, !.theirs = content,
                                            !.atVersion = version]
  <2>1. k \in DOMAIN conflicts /\ WithId(choice[h].conflictId) = {k}
    BY <1>6, OneWithId DEF ResolveAgain
  <2>2. again.agentId = conflicts[k].agentId
    BY <2>1 DEF TypeOK, Conflict
  <2>3. conflicts' = [j \in DOMAIN conflicts |-> IF j = k THEN again ELSE conflicts[j]]
    BY <1>6, <2>1 DEF ResolveAgain
  <2>. HIDE DEF again
  <2>4. Disputed' = Disputed
    BY <2>1, <2>2, <2>3 DEF Disputed
  <2>. QED
    BY <1>6, <2>4 DEF ResolveAgain, docVars
<1>7. ASSUME NEW h \in Humans, NEW k \in 1 .. MaxConflicts, ResolveCommit(h, k)
      PROVE  Log!Next
  <2>. DEFINE text == Merge3(conflicts[k].theirs, choice[h].chosen, content).content
              a == conflicts[k].agentId
  <2>1. /\ k \in DOMAIN conflicts /\ WithId(choice[h].conflictId) = {k}
        /\ conflicts[k] \in Conflict /\ choice[h] \in Choice
    BY <1>7, OneWithId DEF ResolveCommit, TypeOK
  <2>2. text \in Text /\ a \in Agents
    BY <2>1, MergeAssumption DEF TypeOK, Conflict, Choice
  <2>3. a \in Disputed /\ h \in Judges[a]
    BY <1>7, <2>1, <2>2 DEF ResolveCommit, MaySettle, Judges, Disputed
  <2>4. conflicts' = [j \in DOMAIN conflicts \ {k} |-> conflicts[j]]
    BY <1>7, <2>1 DEF ResolveCommit, CloseConflict
  <2>5. Disputed' = Disputed \ {a}
    BY <2>1, <2>4 DEF Disputed, Numbered
  <2>6. history' = Append(history, [author |-> h, text |-> text])
    BY <1>7 DEF ResolveCommit, Commit
  <2>. HIDE DEF text, a
  <2>7. Log!Settle(a, h, text)
    BY <2>3, <2>5, <2>6 DEF Log!Settle, Log!Record
  <2>. QED
    BY <2>2, <2>7 DEF Log!Next
<1>8. ASSUME NEW a \in Agents,
             \/ Read(a) \/ View(a) \/ ReleaseLease(a) \/ ChangeAuthority(a)
             \/ \E ttl \in 1 .. MaxTtl : AcquireLease(a, ttl)
      PROVE  UNCHANGED << history, Disputed >>
  BY <1>1, <1>8 DEF Read, View, ReleaseLease, ChangeAuthority, AcquireLease, docVars,
     disputeVars, Disputed
<1>9. ASSUME NEW h \in Humans,
             \/ ResolveRefused(h)
             \/ \E k \in 1 .. MaxConflicts, chosen \in Text : Choose(h, k, chosen)
      PROVE  UNCHANGED << history, Disputed >>
  BY <1>9 DEF ResolveRefused, Choose, docVars, disputeVars, Disputed
<1>10. CASE Tick \/ Restart \/ UNCHANGED vars
  BY <1>1, <1>10 DEF Tick, Restart, vars, docVars, disputeVars
<1>. QED
  BY <1>2, <1>3, <1>4, <1>5, <1>6, <1>7, <1>8, <1>9, <1>10 DEF Next

(***************************************************************************)
(* Between restarts the document implements the abstract log: it only      *)
(* grows, and a dispute ends by a commit of a human entitled to settle it, *)
(* which settles no other (write, writeAsHuman, resolve).                  *)
(***************************************************************************)
THEOREM DocumentIsALog ==
  ASSUME MaxRestarts = 0
  PROVE  Spec => ImplementsDocLog
<1>1. TypeOK /\ Numbered /\ [Next]_vars => (TypeOK /\ Numbered)'
  BY NextTypeOK, NextNumbered
<1>. QED
  BY <1>1, InitTypeOK, InitNumbered, InitLog, NextLog, PTL DEF Spec, ImplementsDocLog, Log!Spec

-----------------------------------------------------------------------------
\* Nobody settles conflicts, so nobody has a choice under way.
NoChoice == \A h \in Humans : choice[h] = None

LEMMA NextNoChoice ==
  ASSUME Resolvers = {}
  PROVE  TypeOK /\ NoChoice /\ [Next]_vars => NoChoice'
<1>. SUFFICES ASSUME TypeOK, NoChoice, [Next]_vars PROVE NoChoice'
  OBVIOUS
<1>1. UNCHANGED choice \/ Restart
  BY ZenonT(40) DEF NoChoice, Next, vars, Read, View, WriteCurrent, WriteMerged, WriteConflict,
     AcquireLease, ReleaseLease, ChangeAuthority, HumanWrite, Choose, ResolveRefused,
     ResolveAgain, ResolveCommit, Tick
<1>. QED
  BY <1>1 DEF NoChoice, Restart

\* The newest entry names who committed.
LEMMA CommitNamesAuthor ==
  ASSUME TypeOK, HistoryIsTheDocument,
         NEW author \in Actors, NEW next \in Text, Commit(author, next)
  PROVE  history'[version'].author = author
<1>. DEFINE e == [author |-> author, text |-> next]
<1>1. e \in Entry /\ history \in Seq(Entry) /\ Len(history) = version /\ version \in Nat
  BY DEF Entry, TypeOK, HistoryIsTheDocument
<1>2. history' = Append(history, e) /\ version' = version + 1 /\ e.author = author
  BY DEF Commit
<1>. HIDE DEF e
<1>. QED
  BY <1>1, <1>2, AppendProperties

-----------------------------------------------------------------------------
(***************************************************************************)
(* Where every agent has one client, which gets every reply, and nobody    *)
(* edits or decides by hand, the store's merge base of an agent is what    *)
(* its client has (bases.set and the replies of read and write).           *)
(***************************************************************************)
OneClientEach ==
  Viewers = {} /\ Unreliable = {} /\ Rebasers = {} /\ Editors = {} /\ Resolvers = {}

BasesAreCopies == \A a \in Agents : Base(a) = copy[a].text

LEMMA InitBases == Init => BasesAreCopies
BY DEF Init, BasesAreCopies, Base

\* A base and a copy that are set together.
LEMMA BaseAndCopy ==
  ASSUME TypeOK, BasesAreCopies, NEW a \in Agents, NEW v \in Nat, NEW text \in Text,
         bases' = [bases EXCEPT ![a] = text],
         copy' = [copy EXCEPT ![a] = [version |-> v, text |-> text]]
  PROVE  BasesAreCopies'
<1>1. text # None
  BY ActorAssumption
<1>2. ASSUME NEW b \in Agents PROVE Base(b)' = copy'[b].text
  <2>1. CASE b = a
    BY <2>1, <1>1 DEF TypeOK, Base
  <2>2. CASE b # a
    BY <2>2 DEF TypeOK, Base, BasesAreCopies
  <2>. QED
    BY <2>1, <2>2
<1>. QED
  BY <1>2 DEF BasesAreCopies

LEMMA NextBases ==
  ASSUME OneClientEach
  PROVE  TypeOK /\ NoChoice /\ BasesAreCopies /\ [Next]_vars => BasesAreCopies'
<1>. SUFFICES ASSUME TypeOK, NoChoice, BasesAreCopies, [Next]_vars PROVE BasesAreCopies'
  OBVIOUS
<1>1. CASE UNCHANGED << bases, copy >>
  BY <1>1 DEF BasesAreCopies, Base
<1>2. ASSUME NEW a \in Agents, Read(a) PROVE BasesAreCopies'
  BY <1>2, BaseAndCopy DEF Read, TypeOK
<1>3. ASSUME NEW a \in Agents, NEW next \in Text, WriteCurrent(a, next) PROVE BasesAreCopies'
  <2>1. version + 1 \in Nat
    BY DEF TypeOK
  <2>. QED
    BY <1>3, <2>1, BaseAndCopy DEF WriteCurrent, AgentCommit, Reply, OneClientEach
<1>4. ASSUME NEW a \in Agents, NEW next \in Text, WriteMerged(a, next) PROVE BasesAreCopies'
  <2>. DEFINE text == Merge3(Base(a), next, content).content
  <2>1. version + 1 \in Nat /\ text \in Text
    BY BaseIsText, MergeAssumption DEF TypeOK
  <2>2. /\ bases' = [bases EXCEPT ![a] = text]
        /\ copy' = [copy EXCEPT ![a] = [version |-> version + 1, text |-> text]]
    BY <1>4 DEF WriteMerged, AgentCommit, Reply, OneClientEach
  <2>. HIDE DEF text
  <2>. QED
    BY <2>1, <2>2, BaseAndCopy
<1>5. ASSUME NEW a \in Agents,
             \/ View(a) \/ ReleaseLease(a) \/ ChangeAuthority(a)
             \/ \E next \in Text : WriteConflict(a, next)
             \/ \E ttl \in 1 .. MaxTtl : AcquireLease(a, ttl)
      PROVE  UNCHANGED << bases, copy >>
  BY <1>5 DEF View, ReleaseLease, ChangeAuthority, WriteConflict, AcquireLease, OneClientEach
<1>6. ASSUME NEW h \in Humans,
             \/ ResolveRefused(h)
             \/ \E next \in Text : HumanWrite(h, next)
             \/ \E k \in 1 .. MaxConflicts : ResolveAgain(h, k) \/ ResolveCommit(h, k)
             \/ \E k \in 1 .. MaxConflicts, chosen \in Text : Choose(h, k, chosen)
      PROVE  FALSE
  BY <1>6 DEF ResolveRefused, HumanWrite, ResolveAgain, ResolveCommit, Choose, NoChoice,
     OneClientEach
<1>7. CASE Tick \/ Restart \/ UNCHANGED vars
  BY <1>1, <1>7 DEF Tick, Restart, vars
<1>. QED
  BY <1>1, <1>2, <1>3, <1>4, <1>5, <1>6, <1>7 DEF Next

LEMMA OneClientInvariant ==
  ASSUME OneClientEach
  PROVE  Spec => [](Committed /\ NoChoice /\ BasesAreCopies)
<1>1. Init => NoChoice
  BY DEF Init, NoChoice
<1>2. Committed /\ NoChoice /\ BasesAreCopies /\ [Next]_vars
        => (Committed /\ NoChoice /\ BasesAreCopies)'
  BY NextCommitted, NextNoChoice, NextBases DEF Committed, OneClientEach
<1>. QED
  BY <1>1, <1>2, InitCommitted, InitBases, PTL DEF Spec

(***************************************************************************)
(* A conflict is only ever opened for an edit that does not merge with the *)
(* document when it is rebased from the text its client really had (write).*)
(* The run doc_agents meets the condition; without it the property fails.  *)
(***************************************************************************)
THEOREM ConflictsAreReal ==
  ASSUME OneClientEach
  PROVE  Spec => ConflictsAreGenuine
<1>. DEFINE Genuine == opened' # opened =>
              LET pending == conflicts'[opened']
              IN  ~Merge3(copy[pending.agentId].text, pending.ours, content).ok
<1>1. ASSUME TypeOK, NoChoice, BasesAreCopies, [Next]_vars PROVE Genuine
  <2>1. ASSUME NEW a \in Agents, NEW next \in Text, WriteConflict(a, next) PROVE Genuine
    <3>. DEFINE pending == [id |-> conflictSeq + 1, agentId |-> a, base |-> Base(a),
                            ours |-> next, theirs |-> content, atVersion |-> version]
                others == {k \in DOMAIN conflicts : conflicts[k].agentId # a}
    <3>1. opened + 1 \notin others
      BY <1>1 DEF TypeOK
    <3>2. opened' = opened + 1 /\ conflicts'[opened + 1] = pending
      BY <2>1, <3>1 DEF WriteConflict, OpenConflict
    <3>3. ~Merge3(copy[a].text, next, content).ok
      BY <1>1, <2>1 DEF WriteConflict, BasesAreCopies
    <3>. QED
      BY <3>2, <3>3
  <2>2. UNCHANGED opened \/ \E a \in Agents, next \in Text : WriteConflict(a, next)
    BY <1>1, ZenonT(40) DEF Next, vars, disputeVars, Read, View, WriteCurrent, WriteMerged, AcquireLease,
       ReleaseLease, ChangeAuthority, HumanWrite, Choose, ResolveRefused, ResolveAgain,
       ResolveCommit, Tick, Restart
  <2>. QED
    BY <2>1, <2>2
<1>2. Committed => TypeOK
  BY DEF Committed
<1>3. Committed /\ NoChoice /\ BasesAreCopies /\ [Next]_vars => [Genuine]_vars
  BY <1>1, <1>2
<1>. QED
  BY <1>3, OneClientInvariant, PTL DEF Spec, ConflictsAreGenuine

(***************************************************************************)
(* No lost update, where every agent has one client: what somebody else    *)
(* committed since the client last read survives the agent's write, for    *)
(* any merge function that keeps the lines one side changed (write).       *)
(***************************************************************************)
THEOREM NothingIsLost ==
  ASSUME OneClientEach, MergeKeepsTheirs
  PROVE  Spec => NoLostUpdate
<1>. DEFINE Kept == \A a \in Agents : CommittedBy(a) => KeepsOthersWork(copy[a].version, a)
<1>1. ASSUME Committed, NoChoice, BasesAreCopies, [Next]_vars PROVE Kept
  <2>. SUFFICES ASSUME NEW a \in Agents, CommittedBy(a)
                PROVE  KeepsOthersWork(copy[a].version, a)
    OBVIOUS
  <2>1. TypeOK /\ HistoryIsTheDocument /\ CopiesAreCommitted
    BY <1>1 DEF Committed
  <2>2. version \in Nat /\ content \in Text /\ copy[a].version \in Nat
    BY <2>1 DEF TypeOK, Copy
  <2>3. ASSUME NEW b \in Agents, NEW next \in Text, WriteCurrent(b, next)
        PROVE  KeepsOthersWork(copy[a].version, a)
    <3>1. b \in Actors /\ Commit(b, next) /\ copy[b].version = version
      BY <2>3 DEF WriteCurrent, AgentCommit, Actors
    <3>2. a = b
      BY <2>1, <3>1, CommitNamesAuthor DEF CommittedBy
    <3>3. copy[a].version + 1 .. version = {}
      BY <2>2, <3>1, <3>2
    <3>. QED
      BY <3>3 DEF KeepsOthersWork
  <2>4. ASSUME NEW b \in Agents, NEW next \in Text, WriteMerged(b, next)
        PROVE  KeepsOthersWork(copy[a].version, a)
    <3>. DEFINE merged == Merge3(Base(b), next, content)
    <3>1. Base(b) \in Text /\ merged.content \in Text
      BY <2>1, <2>2, BaseIsText, MergeAssumption
    <3>2. b \in Actors /\ Commit(b, merged.content) /\ merged.ok
      BY <2>4 DEF WriteMerged, AgentCommit, Actors
    <3>3. a = b
      BY <2>1, <3>1, <3>2, CommitNamesAuthor DEF CommittedBy
    <3>4. TextAt(copy[a].version) = Base(a)
      BY <1>1, <2>1 DEF BasesAreCopies, CopiesAreCommitted
    <3>5. \A k \in Lines : LineOf(content, k) # LineOf(Base(a), k)
                             => LineOf(merged.content, k) = LineOf(content, k)
      BY <2>2, <3>1, <3>2, <3>3 DEF MergeKeepsTheirs
    <3>6. content' = merged.content
      BY <3>2 DEF Commit
    <3>. HIDE DEF merged
    <3>7. \A k \in Lines : LineOf(content', k) = LineOf(merged.content, k)
      BY <3>6 DEF LineOf
    <3>. QED
      BY <3>4, <3>5, <3>7 DEF KeepsOthersWork
  <2>5. ASSUME NEW h \in Humans,
               \/ \E next \in Text : HumanWrite(h, next)
               \/ \E k \in 1 .. MaxConflicts : ResolveCommit(h, k)
        PROVE  FALSE
    BY <1>1, <2>5 DEF HumanWrite, ResolveCommit, NoChoice, OneClientEach
  <2>6. version' # version
    BY DEF CommittedBy
  <2>. QED
    BY <1>1, <2>3, <2>4, <2>5, <2>6 DEF Next, vars, docVars, Read, View, WriteConflict,
       AcquireLease, ReleaseLease, ChangeAuthority, Choose, ResolveRefused, ResolveAgain,
       Tick, Restart
<1>2. Committed /\ NoChoice /\ BasesAreCopies /\ [Next]_vars => [Kept]_vars
  BY <1>1
<1>. QED
  BY <1>2, OneClientInvariant, PTL DEF Spec, NoLostUpdate

-----------------------------------------------------------------------------
(***************************************************************************)
(* Where one human settles conflicts and the server is not restarted, the  *)
(* conflict a choice is about is still anchored where the human saw it, if *)
(* it is still there.                                                      *)
(***************************************************************************)
OneJudge == MaxRestarts = 0 /\ \A h, j \in Resolvers : h = j

ChoicesAreFresh ==
  \A h \in Humans : choice[h] # None =>
    /\ h \in Resolvers /\ choice[h].conflictId <= opened
    /\ \A k \in DOMAIN conflicts : conflicts[k].id = choice[h].conflictId
                                     => conflicts[k].atVersion = choice[h].seenAt

LEMMA InitFresh == Init => ChoicesAreFresh
BY DEF Init, ChoicesAreFresh

LEMMA NextFresh ==
  ASSUME OneJudge
  PROVE  TypeOK /\ Numbered /\ ChoicesAreFresh /\ [Next]_vars => ChoicesAreFresh'
<1>. SUFFICES ASSUME TypeOK, Numbered, ChoicesAreFresh, [Next]_vars PROVE ChoicesAreFresh'
  OBVIOUS
<1>1. CASE UNCHANGED << disputeVars, choice >>
  BY <1>1 DEF disputeVars, ChoicesAreFresh
<1>2. ASSUME NEW a \in Agents, NEW next \in Text, WriteConflict(a, next) PROVE ChoicesAreFresh'
  <2>. DEFINE pending == [id |-> conflictSeq + 1, agentId |-> a, base |-> Base(a),
                          ours |-> next, theirs |-> content, atVersion |-> version]
              others == {k \in DOMAIN conflicts : conflicts[k].agentId # a}
  <2>1. /\ conflicts' = [k \in others \cup {opened + 1} |->
                           IF k \in others THEN conflicts[k] ELSE pending]
        /\ opened' = opened + 1 /\ choice' = choice
    BY <1>2 DEF WriteConflict, OpenConflict
  <2>2. pending.id = opened + 1 /\ opened \in Nat
    BY DEF Numbered, TypeOK
  <2>3. opened + 1 \notin others
    BY DEF TypeOK
  <2>. HIDE DEF pending
  <2>4. /\ DOMAIN conflicts' = others \cup {opened + 1}
        /\ \A k \in others : conflicts'[k] = conflicts[k]
        /\ conflicts'[opened + 1] = pending
    BY <2>1, <2>3
  <2>5. \A h \in Humans : choice[h] # None => choice[h].conflictId \in Nat
    BY DEF TypeOK, Choice
  <2>. QED
    BY <2>1, <2>2, <2>4, <2>5 DEF ChoicesAreFresh
<1>3. ASSUME NEW h \in Humans, NEW k \in 1 .. MaxConflicts, NEW chosen \in Text,
             Choose(h, k, chosen)
      PROVE  ChoicesAreFresh'
  <2>. DEFINE c == [conflictId |-> conflicts[k].id, chosen |-> chosen,
                    seenAt |-> conflicts[k].atVersion]
  <2>1. /\ h \in Resolvers /\ k \in DOMAIN conflicts /\ choice' = [choice EXCEPT ![h] = c]
        /\ UNCHANGED << conflicts, opened >>
    BY <1>3 DEF Choose, disputeVars
  <2>2. c.conflictId = k /\ k <= opened /\ c.seenAt = conflicts[k].atVersion
    BY <2>1 DEF Numbered, TypeOK
  <2>. HIDE DEF c
  <2>3. choice'[h] = c /\ \A j \in Humans : j # h => choice'[j] = choice[j]
    BY <2>1 DEF TypeOK
  <2>4. \A j \in DOMAIN conflicts : conflicts[j].id = k => j = k
    BY DEF Numbered
  <2>. QED
    BY <2>1, <2>2, <2>3, <2>4 DEF ChoicesAreFresh
<1>4. ASSUME NEW h \in Humans, choice[h] # None, choice' = [choice EXCEPT ![h] = None]
      PROVE  ChoicesAreFresh'
  <2>1. \A j \in Humans : choice'[j] = None
    BY <1>4 DEF ChoicesAreFresh, OneJudge, TypeOK
  <2>. QED
    BY <2>1 DEF ChoicesAreFresh
<1>5. ASSUME NEW a \in Agents,
             \/ Read(a) \/ View(a) \/ ReleaseLease(a) \/ ChangeAuthority(a)
             \/ \E next \in Text : WriteCurrent(a, next) \/ WriteMerged(a, next)
             \/ \E ttl \in 1 .. MaxTtl : AcquireLease(a, ttl)
      PROVE  ChoicesAreFresh'
  BY <1>1, <1>5 DEF Read, View, ReleaseLease, ChangeAuthority, WriteCurrent, WriteMerged,
     AcquireLease
<1>6. ASSUME NEW h \in Humans,
             \/ ResolveRefused(h)
             \/ \E k \in 1 .. MaxConflicts : ResolveAgain(h, k) \/ ResolveCommit(h, k)
      PROVE  ChoicesAreFresh'
  BY <1>4, <1>6 DEF ResolveRefused, ResolveAgain, ResolveCommit
<1>7. ASSUME NEW h \in Humans, NEW next \in Text, HumanWrite(h, next) PROVE ChoicesAreFresh'
  BY <1>1, <1>7 DEF HumanWrite
<1>8. CASE Tick \/ UNCHANGED vars
  BY <1>1, <1>8 DEF Tick, vars
<1>9. ~Restart
  BY DEF Restart, TypeOK, OneJudge
<1>. QED
  BY <1>2, <1>3, <1>5, <1>6, <1>7, <1>8, <1>9 DEF Next

(***************************************************************************)
(* A decision undoes nothing that landed after the snapshot it was made    *)
(* from, where one human settles conflicts and no restart renumbers them;  *)
(* clients may do whatever the API allows (resolve). With a second judge   *)
(* or a restart the property fails.                                        *)
(***************************************************************************)
THEOREM DecisionsKeepLaterWork ==
  ASSUME OneJudge, MergeKeepsTheirs
  PROVE  Spec => DecisionKeepsLaterWork
<1>. DEFINE Kept == \A h \in Humans :
              CommittedBy(h) /\ choice[h] # None /\ choice'[h] = None
                => KeepsOthersWork(choice[h].seenAt, h)
<1>1. ASSUME Committed, Numbered, ChoicesAreFresh, [Next]_vars PROVE Kept
  <2>. SUFFICES ASSUME NEW h \in Humans, CommittedBy(h), choice[h] # None, choice'[h] = None
                PROVE  KeepsOthersWork(choice[h].seenAt, h)
    OBVIOUS
  <2>1. TypeOK /\ HistoryIsTheDocument /\ ConflictsAreAnchored
    BY <1>1 DEF Committed
  <2>2. ASSUME NEW j \in Humans, NEW k \in 1 .. MaxConflicts, ResolveCommit(j, k)
        PROVE  KeepsOthersWork(choice[h].seenAt, h)
    <3>. DEFINE theirs == conflicts[k].theirs
                merged == Merge3(theirs, choice[j].chosen, content)
    <3>1. /\ choice[j] # None /\ IsFirst(k, choice[j].conflictId) /\ merged.ok
          /\ content' = merged.content /\ choice' = [choice EXCEPT ![j] = None]
      BY <2>2 DEF ResolveCommit, Commit
    <3>2. j = h
      BY <2>1, <3>1 DEF TypeOK
    <3>3. k \in DOMAIN conflicts /\ conflicts[k].id = choice[h].conflictId
      BY <3>1, <3>2 DEF IsFirst, WithId
    <3>4. TextAt(choice[h].seenAt) = theirs
      BY <1>1, <2>1, <3>3 DEF ChoicesAreFresh, ConflictsAreAnchored
    <3>5. theirs \in Text /\ content \in Text /\ choice[h].chosen \in Text
      BY <2>1, <3>3 DEF TypeOK, Conflict, Choice
    <3>6. \A n \in Lines : LineOf(content, n) # LineOf(theirs, n)
                             => LineOf(merged.content, n) = LineOf(content, n)
      BY <3>1, <3>2, <3>5 DEF MergeKeepsTheirs
    <3>. HIDE DEF merged, theirs
    <3>7. \A n \in Lines : LineOf(content', n) = LineOf(merged.content, n)
      BY <3>1 DEF LineOf
    <3>. QED
      BY <3>4, <3>6, <3>7 DEF KeepsOthersWork
  <2>3. version' # version
    BY DEF CommittedBy
  <2>4. choice' # choice
    OBVIOUS
  <2>. QED
    BY <1>1, <2>2, <2>3, <2>4 DEF Next, vars, docVars, Read, View, WriteCurrent, WriteMerged,
       WriteConflict, AcquireLease, ReleaseLease, ChangeAuthority, HumanWrite, Choose,
       ResolveRefused, ResolveAgain, Tick, Restart
<1>2. Committed => TypeOK
  BY DEF Committed
<1>3. Committed /\ Numbered /\ ChoicesAreFresh /\ [Next]_vars
        => (Committed /\ Numbered /\ ChoicesAreFresh)' /\ [Kept]_vars
  BY <1>1, <1>2, NextCommitted, NextNumbered, NextFresh DEF OneJudge
<1>. QED
  BY <1>3, InitCommitted, InitNumbered, InitFresh, PTL DEF Spec, DecisionKeepsLaterWork
=============================================================================
