---------------------------- MODULE ReviewProofs ----------------------------
(***************************************************************************)
(* Review, for any agents, owners, budgets and numbers of comments: its    *)
(* type invariant, and what a comment's status can and cannot become.      *)
(***************************************************************************)
EXTENDS Review, SequenceTheorems, TLAPS

USE ReviewAssumption

\* What the status of a comment owes to who wrote it and who answers.
Fine(x) ==
  /\ x.by # None => /\ x.by # x.to
                    /\ x.agreed \subseteq {x.to}
                    /\ x.status \notin {"stale", "conflict", "failed"}
  /\ x.by = None /\ OwnerOf[x.to] # x.human => x.status \in {"open", "stale", "resolved"}

AllFine(cs) == \A c \in DOMAIN cs : Fine(cs[c])

\* Comments that agent a may be given: they are for it, and those of humans
\* are its owner's.
For(x, a) == x.to = a /\ (x.by = None => OwnerOf[a] = x.human)

Batches(cs, S, a) == \A c \in S : c \in DOMAIN cs /\ For(cs[c], a)

RunsAreAsked ==
  \A a \in Agents : /\ Working(a) => Batches(comments, work[a].over, a)
                    /\ Batches(comments, dying[a], a)

IInv == TypeOK /\ AllFine(comments) /\ AllFine(disk) /\ RunsAreAsked

Texts(cs) == cs \in Seq(Comment) /\ Len(cs) <= MaxComments

Same(x, y) == y.by = x.by /\ y.human = x.human /\ y.to = x.to

\* ds is cs with comments answered and others added.
Answered(cs, ds) ==
  /\ Texts(ds) /\ AllFine(ds)
  /\ \A c \in DOMAIN cs : /\ c \in DOMAIN ds /\ Same(cs[c], ds[c])
                          /\ ds[c].status = cs[c].status

\* What a step does to the comments: none is lost or becomes another's, none
\* becomes resolved, and of the resolved ones only those in S do not stay so.
Continues(S) ==
  /\ Texts(comments') /\ AllFine(comments')
  /\ \A c \in DOMAIN comments :
       /\ c \in DOMAIN comments' /\ Same(comments[c], comments'[c])
       /\ comments'[c].status = "resolved" => comments[c].status = "resolved"
       /\ c \notin S /\ comments[c].status = "resolved" => comments'[c].status = "resolved"

-----------------------------------------------------------------------------

LEMMA SameBatches ==
  ASSUME NEW cs, NEW ds, NEW S, NEW a,
         \A c \in DOMAIN cs : c \in DOMAIN ds /\ Same(cs[c], ds[c]),
         Batches(cs, S, a)
  PROVE  Batches(ds, S, a)
BY DEF Batches, For, Same

LEMMA SameInterval ==
  ASSUME NEW m \in Nat, NEW n \in Nat, 1 .. m = 1 .. n
  PROVE  m = n
<1>1. \A k \in Nat : k \in 1 .. m <=> k \in 1 .. n
  OBVIOUS
<1> QED BY <1>1

\* A sequence whose elements are replaced one by one.
LEMMA Replaced ==
  ASSUME NEW cs, Texts(cs), NEW ds, DOMAIN ds = DOMAIN cs,
         ds = [c \in DOMAIN cs |-> ds[c]],
         \A c \in DOMAIN cs : ds[c] \in Comment
  PROVE  Texts(ds)
<1>1. Len(cs) \in Nat /\ DOMAIN cs = 1 .. Len(cs)
  BY LenProperties DEF Texts
<1>2. ds \in [1 .. Len(cs) -> Comment]
  BY <1>1
<1>3. ds \in Seq(Comment)
  BY <1>1, <1>2, SeqDef
<1>4. Len(ds) \in Nat /\ DOMAIN ds = 1 .. Len(ds)
  BY <1>3, LenProperties
<1>5. Len(ds) = Len(cs)
  BY <1>1, <1>4
<1> QED BY <1>3, <1>5 DEF Texts

LEMMA ClosedComment ==
  ASSUME NEW x \in Comment, Fine(x), For(x, x.to), NEW status
  PROVE  /\ Closed(x, status) \in Comment /\ Fine(Closed(x, status))
         /\ Same(x, Closed(x, status))
         /\ Closed(x, status).status # "resolved"
<1>. DEFINE spent == [x EXCEPT !.rounds = @ + 1]
            out == escalate(spent, CommentStatusOf(status))
<1>1. spent \in Comment /\ Same(x, spent) /\ spent.agreed = x.agreed
  BY DEF Comment, Same
<1>2. CommentStatusOf(status) \in {"addressed", "conflict", "open", "failed"}
  BY DEF CommentStatusOf
<1>3. /\ out \in {"addressed", "conflict", "open", "failed", "blocked"}
      /\ spent.by # None => out \notin {"conflict", "failed"}
  BY <1>2 DEF escalate
<1>4. out \in Statuses
  BY <1>3 DEF Statuses
<1>5. Closed(x, status) = [spent EXCEPT !.status = out]
  BY DEF Closed
<1>. HIDE DEF spent, out
<1>6. /\ Closed(x, status) \in Comment /\ Closed(x, status).status = out
      /\ Same(spent, Closed(x, status)) /\ Closed(x, status).agreed = x.agreed
  BY <1>1, <1>4, <1>5 DEF Comment, Same
<1> QED BY <1>1, <1>3, <1>6 DEF Fine, For, Same

LEMMA SentComment ==
  ASSUME NEW x \in Comment, Fine(x), For(x, x.to)
  PROVE  /\ openRun(x) \in Comment
         /\ Fine(openRun(x))
         /\ For(openRun(x), x.to)
         /\ Same(x, openRun(x))
         /\ openRun(x).status = "in_progress"
BY DEF openRun, Comment, Fine, For, Same, Statuses

\* The agent a comment is for can agree, and only the author's word, which it
\* cannot give, would settle the comment.
LEMMA AnsweredComment ==
  ASSUME NEW x \in Comment, Fine(x)
  PROVE  /\ agentResolve(x, x.to) \in Comment /\ Fine(agentResolve(x, x.to))
         /\ Same(x, agentResolve(x, x.to))
         /\ agentResolve(x, x.to).status = x.status
<1>1. CASE x.by = None
  BY <1>1 DEF agentResolve, Same
<1>2. CASE x.by # None
  <2>. DEFINE said == [x EXCEPT !.agreed = @ \cup {x.to}]
  <2>1. said \in Comment /\ said.agreed = x.agreed \cup {x.to} /\ Same(x, said)
        /\ said.status = x.status
    BY DEF Comment, Same
  <2>2. x.by \notin said.agreed
    BY <1>2, <2>1 DEF Fine
  <2>3. agentResolve(x, x.to) = said
    BY <1>2, <2>2 DEF agentResolve
  <2> QED BY <1>2, <2>1, <2>3 DEF Fine, Same
<1> QED BY <1>1, <1>2

\* closeRun over the comments a run was given.
LEMMA Closing ==
  ASSUME TypeOK, AllFine(comments), NEW a \in Agents, NEW S, NEW status,
         Batches(comments, S, a)
  PROVE  /\ Texts(closeRun(S, status)) /\ AllFine(closeRun(S, status))
         /\ DOMAIN closeRun(S, status) = DOMAIN comments
         /\ \A c \in DOMAIN comments :
              /\ Same(comments[c], closeRun(S, status)[c])
              /\ c \in S => closeRun(S, status)[c].status # "resolved"
              /\ c \notin S => closeRun(S, status)[c] = comments[c]
<1>. DEFINE ds == closeRun(S, status)
<1>1. ds = [c \in DOMAIN comments |->
              IF c \in S THEN Closed(comments[c], status) ELSE comments[c]]
  BY DEF closeRun
<1>2. \A c \in DOMAIN comments : comments[c] \in Comment
  BY LenProperties, ElementOfSeq DEF TypeOK
<1>3. \A c \in DOMAIN comments : /\ ds[c] \in Comment /\ Fine(ds[c])
                                 /\ Same(comments[c], ds[c])
                                 /\ c \in S => ds[c].status # "resolved"
  <2>1. SUFFICES ASSUME NEW c \in DOMAIN comments
                 PROVE  /\ ds[c] \in Comment /\ Fine(ds[c])
                        /\ Same(comments[c], ds[c])
                        /\ c \in S => ds[c].status # "resolved"
    OBVIOUS
  <2>2. comments[c] \in Comment /\ Fine(comments[c])
    BY <1>2 DEF AllFine
  <2>3. CASE c \in S
    <3>1. For(comments[c], comments[c].to)
      BY <2>3 DEF Batches, For
    <3>2. ds[c] = Closed(comments[c], status)
      BY <1>1, <2>3
    <3> QED BY <2>2, <3>1, <3>2, ClosedComment
  <2>4. CASE c \notin S
    BY <1>1, <2>2, <2>4 DEF Same
  <2> QED BY <2>3, <2>4
<1>4. Texts(comments)
  BY DEF TypeOK, Texts
<1>5. Texts(ds)
  <2>1. DOMAIN ds = DOMAIN comments /\ ds = [c \in DOMAIN comments |-> ds[c]]
    BY <1>1
  <2>. HIDE DEF ds
  <2> QED BY <1>3, <1>4, <2>1, Replaced
<1> QED BY <1>1, <1>3, <1>5 DEF AllFine

\* The comments of a reply are added at the end.
LEMMA Adding ==
  ASSUME NEW cs, Texts(cs), AllFine(cs), NEW a \in Agents, NEW peers \in Peers(a),
         NEW rounds \in Nat, Len(cs) = Len(comments)
  PROVE  /\ Texts(cs \o Raised(a, peers, rounds))
         /\ AllFine(cs \o Raised(a, peers, rounds))
         /\ \A c \in DOMAIN cs : /\ c \in DOMAIN (cs \o Raised(a, peers, rounds))
                                 /\ (cs \o Raised(a, peers, rounds))[c] = cs[c]
<1>. DEFINE new == Raised(a, peers, rounds)
<1>1. PICK n \in 0 .. MaxRaised : /\ peers \in [1 .. n -> Agents \ {a}]
                                  /\ Len(comments) + n <= MaxComments
  BY DEF Peers
<1>2. \A i \in 1 .. n : /\ new[i] = newComment(a, OwnerOf[a], peers[i], rounds)
                        /\ new[i] \in Comment /\ Fine(new[i])
  <2>1. SUFFICES ASSUME NEW i \in 1 .. n
                 PROVE  /\ new[i] = newComment(a, OwnerOf[a], peers[i], rounds)
                        /\ new[i] \in Comment /\ Fine(new[i])
    OBVIOUS
  <2>2. new[i] = newComment(a, OwnerOf[a], peers[i], rounds)
    BY <1>1 DEF Raised
  <2>3. peers[i] \in Agents /\ peers[i] # a /\ OwnerOf[a] \in Humans /\ a # None
    BY <1>1
  <2> QED BY <2>2, <2>3 DEF newComment, Comment, Fine, Statuses
<1>3. new \in [1 .. n -> Comment]
  BY <1>1, <1>2 DEF Raised
<1>4. new \in Seq(Comment)
  BY <1>3, SeqDef
<1>5. Len(new) = n
  <2>1. Len(new) \in Nat /\ DOMAIN new = 1 .. Len(new)
    BY <1>4, LenProperties
  <2>2. DOMAIN new = 1 .. n
    BY <1>3
  <2>3. n \in Nat
    OBVIOUS
  <2> QED BY <2>1, <2>2, <2>3, SameInterval
<1>. HIDE DEF new
<1>6. cs \in Seq(Comment) /\ Len(cs) \in Nat /\ DOMAIN cs = 1 .. Len(cs)
  BY LenProperties DEF Texts
<1>7. /\ cs \o new \in Seq(Comment)
      /\ Len(cs \o new) = Len(cs) + n
      /\ \A i \in 1 .. Len(cs) + n :
           (cs \o new)[i] = IF i <= Len(cs) THEN cs[i] ELSE new[i - Len(cs)]
  <2>1. /\ cs \o new \in Seq(Comment)
        /\ Len(cs \o new) = Len(cs) + Len(new)
        /\ \A i \in 1 .. Len(cs) + Len(new) :
             (cs \o new)[i] = IF i <= Len(cs) THEN cs[i] ELSE new[i - Len(cs)]
    <3>1. cs \in Seq(Comment)
      BY <1>6
    <3> QED BY <1>4, <3>1, ConcatProperties, ZenonT(40)
  <2> QED BY <1>5, <2>1, Zenon
<1>8. DOMAIN (cs \o new) = 1 .. Len(cs) + n
  BY <1>7, LenProperties
<1>9. AllFine(cs \o new)
  <2>1. SUFFICES ASSUME NEW i \in 1 .. Len(cs) + n PROVE Fine((cs \o new)[i])
    BY <1>8 DEF AllFine
  <2>2. CASE i <= Len(cs)
    <3>1. i \in DOMAIN cs /\ (cs \o new)[i] = cs[i]
      BY <1>6, <1>7, <2>2
    <3> QED BY <3>1 DEF AllFine
  <2>3. CASE ~ i <= Len(cs)
    <3>1. i - Len(cs) \in 1 .. n /\ (cs \o new)[i] = new[i - Len(cs)]
      BY <1>6, <1>7, <2>3
    <3> QED BY <3>1, <1>2
  <2> QED BY <2>2, <2>3
<1>10. Texts(cs \o new)
  BY <1>1, <1>7 DEF Texts
<1>11. \A c \in DOMAIN cs : c \in DOMAIN (cs \o new) /\ (cs \o new)[c] = cs[c]
  BY <1>6, <1>7, <1>8
<1> QED BY <1>9, <1>10, <1>11 DEF new

-----------------------------------------------------------------------------

\* The comments of a reply: what the agent calls settled, and what it raises.
LEMMA Applying ==
  ASSUME NEW cs, Texts(cs), AllFine(cs), Len(cs) = Len(comments),
         NEW a \in Agents, NEW S, Batches(cs, S, a),
         NEW settled \in SUBSET S, NEW peers \in Peers(a), NEW n \in Nat
  PROVE  Answered(cs, applyAuthored(a, cs, settled, peers, n))
<1>. DEFINE said == [c \in DOMAIN cs |->
                       IF c \in settled THEN agentResolve(cs[c], a) ELSE cs[c]]
<1>1. Len(cs) \in Nat /\ DOMAIN cs = 1 .. Len(cs) /\ \A c \in DOMAIN cs : cs[c] \in Comment
  BY LenProperties, ElementOfSeq DEF Texts
<1>2. \A c \in DOMAIN cs : /\ said[c] \in Comment /\ Fine(said[c])
                           /\ Same(cs[c], said[c]) /\ said[c].status = cs[c].status
  <2>1. SUFFICES ASSUME NEW c \in DOMAIN cs
                 PROVE  /\ said[c] \in Comment /\ Fine(said[c])
                        /\ Same(cs[c], said[c]) /\ said[c].status = cs[c].status
    OBVIOUS
  <2>2. cs[c] \in Comment /\ Fine(cs[c])
    BY <1>1 DEF AllFine
  <2>3. CASE c \in settled
    <3>1. cs[c].to = a
      BY <2>3 DEF Batches, For
    <3>2. said[c] = agentResolve(cs[c], cs[c].to)
      BY <2>3, <3>1
    <3> QED BY <2>2, <3>2, AnsweredComment
  <2>4. CASE c \notin settled
    BY <2>2, <2>4 DEF Same
  <2> QED BY <2>3, <2>4
<1>3. DOMAIN said = DOMAIN cs /\ said = [c \in DOMAIN cs |-> said[c]]
  OBVIOUS
<1>4. applyAuthored(a, cs, settled, peers, n) = said \o Raised(a, peers, n)
  BY DEF applyAuthored
<1>. HIDE DEF said
<1>5. Texts(said) /\ AllFine(said)
  BY <1>2, <1>3, Replaced DEF AllFine
<1>6. Len(said) = Len(comments)
  <2>1. Len(said) \in Nat /\ DOMAIN said = 1 .. Len(said)
    BY <1>5, LenProperties DEF Texts
  <2> QED BY <1>1, <1>3, <2>1, SameInterval
<1>7. /\ Texts(said \o Raised(a, peers, n)) /\ AllFine(said \o Raised(a, peers, n))
      /\ \A c \in DOMAIN said : /\ c \in DOMAIN (said \o Raised(a, peers, n))
                                /\ (said \o Raised(a, peers, n))[c] = said[c]
  BY <1>5, <1>6, Adding
<1> QED BY <1>2, <1>3, <1>4, <1>7 DEF Answered

LEMMA InTexts ==
  ASSUME TypeOK, NEW c \in DOMAIN comments
  PROVE  comments[c] \in Comment /\ c \in Ids /\ Texts(comments)
<1>1. Len(comments) \in Nat /\ DOMAIN comments = 1 .. Len(comments)
  BY LenProperties DEF TypeOK
<1> QED BY <1>1, ElementOfSeq DEF TypeOK, Ids, Texts

\* Planned comments are sent, or their run is denied at once.
LEMMA Sending ==
  ASSUME IInv, NEW h \in Humans, NEW S \in SUBSET DOMAIN comments, NEW D \in SUBSET Agents,
         planRuns(h, S), runReiterations(S, D)
  PROVE  Continues({}) /\ RunsAreAsked' /\ work' \in [Agents -> Work \cup {None}]
<1>1. \A c \in S : /\ comments[c].status # "resolved"
                  /\ For(comments[c], comments[c].to)
  <2>1. SUFFICES ASSUME NEW c \in S
                 PROVE  comments[c].status # "resolved" /\ For(comments[c], comments[c].to)
    OBVIOUS
  <2>2. comments[c].to \in Recipients(S) /\ MaySend(h, c) /\ comments[c].status # "resolved"
    BY DEF planRuns, Sendable, Recipients
  <2>3. OwnerOf[comments[c].to] = h
    BY <2>2 DEF planRuns
  <2> QED BY <2>2, <2>3 DEF MaySend, FromAgent, For
<1>2. /\ DOMAIN comments' = DOMAIN comments
      /\ comments' = [c \in DOMAIN comments |-> comments'[c]]
      /\ \A c \in DOMAIN comments :
           \/ comments'[c] = comments[c]
           \/ c \in S /\ comments'[c] = openRun(comments[c])
           \/ c \in S /\ comments'[c] = Closed(openRun(comments[c]), "denied")
  BY DEF runReiterations
<1>3. \A c \in DOMAIN comments :
        /\ comments'[c] \in Comment /\ Fine(comments'[c]) /\ Same(comments[c], comments'[c])
        /\ comments'[c] = comments[c] \/ (comments'[c].status # "resolved" /\ c \in S)
  <2>1. SUFFICES ASSUME NEW c \in DOMAIN comments
                 PROVE  /\ comments'[c] \in Comment /\ Fine(comments'[c])
                        /\ Same(comments[c], comments'[c])
                        /\ comments'[c] = comments[c] \/ (comments'[c].status # "resolved" /\ c \in S)
    OBVIOUS
  <2>. DEFINE x == comments[c]
              y == openRun(x)
  <2>2. x \in Comment /\ Fine(x)
    BY InTexts DEF IInv, AllFine
  <2>3. CASE comments'[c] = comments[c]
    BY <2>2, <2>3 DEF Same
  <2>4. c \in S => /\ y \in Comment /\ Fine(y) /\ For(y, x.to) /\ Same(x, y)
                   /\ y.status = "in_progress"
    BY <1>1, <2>2, SentComment
  <2>5. CASE c \in S /\ comments'[c] = y
    BY <2>4, <2>5
  <2>6. CASE c \in S /\ comments'[c] = Closed(y, "denied")
    <3>1. For(y, y.to)
      BY <2>4, <2>6 DEF For
    <3>2. /\ Closed(y, "denied") \in Comment /\ Fine(Closed(y, "denied"))
          /\ Same(y, Closed(y, "denied")) /\ Closed(y, "denied").status # "resolved"
      BY <2>4, <2>6, <3>1, ClosedComment
    <3> QED BY <2>4, <2>6, <3>2 DEF Same
  <2> QED BY <1>2, <2>3, <2>5, <2>6
<1>4. Texts(comments')
  <2>1. Texts(comments)
    BY DEF IInv, TypeOK, Texts
  <2> QED BY <1>2, <1>3, <2>1, Replaced
<1>5. Continues({})
  BY <1>1, <1>2, <1>3, <1>4 DEF Continues, AllFine
<1>6. \A a \in Agents :
        \/ work'[a] = work[a]
        \/ work'[a] = [place |-> "materializing", over |-> Batch(a, S)]
  BY DEF runReiterations
<1>7. \A a \in Agents : Batch(a, S) \in SUBSET Ids
  BY InTexts DEF Batch, IInv
<1>8. work' \in [Agents -> Work \cup {None}]
  <2>1. work' = [a \in Agents |-> work'[a]]
    BY DEF runReiterations
  <2>2. \A a \in Agents : work[a] \in Work \cup {None}
    BY DEF IInv, TypeOK
  <2> QED BY <1>6, <1>7, <2>1, <2>2 DEF Work
<1>9. \A a \in Agents : Batches(comments, Batch(a, S), a)
  BY <1>1 DEF Batch, Batches, For
<1>10. \A a \in Agents : /\ (Working(a))' => Batches(comments, work'[a].over, a)
                         /\ Batches(comments, dying'[a], a)
  <2>1. SUFFICES ASSUME NEW a \in Agents
                 PROVE  /\ (Working(a))' => Batches(comments, work'[a].over, a)
                        /\ Batches(comments, dying'[a], a)
    OBVIOUS
  <2>2. dying' = dying
    BY DEF runReiterations
  <2>3. Batches(comments, dying[a], a) /\ (Working(a) => Batches(comments, work[a].over, a))
    BY DEF IInv, RunsAreAsked
  <2>4. CASE work'[a] = work[a]
    BY <2>2, <2>3, <2>4 DEF Working
  <2>5. CASE work'[a] = [place |-> "materializing", over |-> Batch(a, S)]
    <3>1. work'[a].over = Batch(a, S)
      BY <2>5
    <3> QED BY <1>9, <2>2, <2>3, <3>1
  <2> QED BY <1>6, <2>4, <2>5
<1>11. RunsAreAsked'
  BY <1>2, <1>3, <1>10, SameBatches DEF RunsAreAsked, Working
<1> QED BY <1>5, <1>8, <1>11

\* One comment gets another status.
LEMMA OneStatus ==
  ASSUME IInv, NEW c \in DOMAIN comments, NEW status \in Statuses,
         comments[c].by # None => status \notin {"stale", "conflict", "failed"},
         comments[c].by = None => status \in {"open", "stale", "resolved"},
         comments' = [comments EXCEPT ![c].status = status]
  PROVE  /\ Texts(comments') /\ AllFine(comments') /\ DOMAIN comments' = DOMAIN comments
         /\ \A e \in DOMAIN comments : Same(comments[e], comments'[e])
         /\ comments'[c].status = status
         /\ \A e \in DOMAIN comments : e # c => comments'[e] = comments[e]
<1>1. comments[c] \in Comment /\ Texts(comments) /\ \A e \in DOMAIN comments : comments[e] \in Comment
  BY InTexts DEF IInv
<1>2. /\ DOMAIN comments' = DOMAIN comments
      /\ comments' = [e \in DOMAIN comments |-> comments'[e]]
      /\ \A e \in DOMAIN comments : e # c => comments'[e] = comments[e]
      /\ comments'[c] = [comments[c] EXCEPT !.status = status]
  OBVIOUS
<1>3. /\ comments'[c] \in Comment /\ Same(comments[c], comments'[c])
      /\ comments'[c].status = status /\ comments'[c].agreed = comments[c].agreed
  BY <1>1, <1>2 DEF Comment, Same
<1>4. Fine(comments[c]) /\ \A e \in DOMAIN comments : Fine(comments[e])
  BY DEF IInv, AllFine
<1>5. Fine(comments'[c])
  BY <1>3, <1>4 DEF Fine, Same
<1>6. Texts(comments')
  BY <1>1, <1>2, <1>3, Replaced
<1>7. AllFine(comments')
  BY <1>2, <1>4, <1>5 DEF AllFine
<1> QED BY <1>2, <1>3, <1>6, <1>7 DEF Same

\* The comments that a run, started or failing, was given.
Given ==
  {c \in DOMAIN comments : \/ Working(comments[c].to) /\ c \in work[comments[c].to].over
                          \/ c \in dying[comments[c].to]}

\* The invariant of the variables a step leaves to the others.
LEMMA StillAsked ==
  ASSUME IInv, NEW S, Continues(S),
         \A a \in Agents :
           /\ (Working(a))' => \/ work'[a].over = {}
                               \/ Working(a) /\ work'[a].over = work[a].over
           /\ \/ dying'[a] = {}
              \/ dying'[a] = dying[a]
              \/ Working(a) /\ dying'[a] = work[a].over
  PROVE  RunsAreAsked'
<1>1. SUFFICES ASSUME NEW a \in Agents
               PROVE  /\ (Working(a))' => Batches(comments', work'[a].over, a)
                      /\ Batches(comments', dying'[a], a)
  BY DEF RunsAreAsked, Working
<1>2. Batches(comments', {}, a)
  BY DEF Batches
<1>3. \A T : Batches(comments, T, a) => Batches(comments', T, a)
  BY SameBatches DEF Continues
<1>4. (Working(a) => Batches(comments, work[a].over, a)) /\ Batches(comments, dying[a], a)
  BY DEF IInv, RunsAreAsked
<1> QED BY <1>2, <1>3, <1>4

LEMMA Unchanged ==
  ASSUME IInv, UNCHANGED comments
  PROVE  Continues({})
BY DEF IInv, TypeOK, Texts, AllFine, Continues, Same

Claims == state \in [Agents -> SubtaskStates] /\ turn \in [Agents -> TurnPlaces]

LEMMA TypedAgain ==
  ASSUME TypeOK, Texts(comments'), Texts(disk'), moved' \subseteq Ids,
         work' \in [Agents -> Work \cup {None}], dying' \in [Agents -> SUBSET Ids],
         Claims', events' \in 0 .. MaxEvents
  PROVE  TypeOK'
BY DEF TypeOK, Texts, Claims

LEMMA EventTyped ==
  ASSUME TypeOK, Event \/ UNCHANGED events
  PROVE  events' \in 0 .. MaxEvents
BY DEF TypeOK, Event

LEMMA SendStep ==
  ASSUME IInv, NEW h \in Humans, NEW S \in SUBSET DOMAIN comments, NEW D \in SUBSET Agents,
         planRuns(h, S), runReiterations(S, D), Event \/ UNCHANGED events
  PROVE  IInv' /\ Continues(Given)
<1>1. Continues({}) /\ RunsAreAsked' /\ work' \in [Agents -> Work \cup {None}]
  BY Sending
<1>2. UNCHANGED <<moved, dying, disk>> /\ Claims'
  <2>1. \A c \in S : comments[c].to \in Agents
    BY InTexts DEF IInv, Comment
  <2> QED BY <2>1 DEF runReiterations, Recipients, IInv, TypeOK, Claims, SubtaskStates
<1>3. TypeOK'
  BY <1>1, <1>2, TypedAgain, EventTyped DEF Claims, IInv, TypeOK, Continues, Texts
<1> QED BY <1>1, <1>2, <1>3 DEF IInv, Continues, AllFine

LEMMA StaleStep ==
  ASSUME IInv, NEW c \in DOMAIN comments, comments[c].status # "resolved", markStale(c),
         UNCHANGED <<moved, state, turn, work, dying, disk>>, Event \/ UNCHANGED events
  PROVE  IInv' /\ Continues(Given)
<1>. DEFINE status == IF FromAgent(c) THEN "blocked" ELSE "stale"
<1>1. comments' = [comments EXCEPT ![c].status = status]
  BY DEF markStale
<1>2. status \in Statuses /\ status # "resolved"
  BY DEF Statuses
<1>3. comments[c].by # None => status \notin {"stale", "conflict", "failed"}
  BY DEF FromAgent
<1>4. comments[c].by = None => status \in {"open", "stale", "resolved"}
  BY DEF FromAgent
<1>. HIDE DEF status
<1>5. Continues({})
  BY <1>1, <1>2, <1>3, <1>4, OneStatus DEF Continues
<1>6. RunsAreAsked'
  BY <1>5, StillAsked DEF Working
<1>7. TypeOK'
  BY <1>5, TypedAgain, EventTyped DEF Claims, IInv, TypeOK, Continues, Texts
<1> QED BY <1>5, <1>6, <1>7 DEF IInv, Continues, AllFine

\* A step that leaves the comments alone.
LEMMA QuietStep ==
  ASSUME IInv, UNCHANGED comments, disk' \in {disk, comments}, moved' \subseteq Ids,
         work' \in [Agents -> Work \cup {None}], dying' \in [Agents -> SUBSET Ids],
         Claims', Event \/ UNCHANGED events, RunsAreAsked'
  PROVE  IInv' /\ Continues(Given)
<1>1. Continues({})
  BY Unchanged
<1>2. Texts(disk') /\ AllFine(disk')
  BY DEF IInv, TypeOK, Texts
<1>3. TypeOK'
  BY <1>1, <1>2, TypedAgain, EventTyped DEF IInv, Continues
<1> QED BY <1>1, <1>2, <1>3 DEF IInv, Continues

LEMMA RunEndsStep ==
  ASSUME IInv, NEW a \in Agents, NEW status, NEW settled, NEW peers \in Peers(a),
         RunEnds(a, status, settled, peers)
  PROVE  IInv' /\ Continues(Given)
<1>. DEFINE S      == work[a].over
            closed == closeRun(S, status)
<1>1. /\ Working(a) /\ Batches(comments, S, a) /\ settled \in SUBSET S
      /\ UNCHANGED <<moved, dying, disk, events>>
      /\ work' = [work EXCEPT ![a] = None] /\ setState(a, "assigned") /\ turn' = turn
  BY DEF RunEnds, IInv, RunsAreAsked
<1>2. /\ Texts(closed) /\ AllFine(closed) /\ DOMAIN closed = DOMAIN comments
      /\ \A c \in DOMAIN comments :
           /\ Same(comments[c], closed[c])
           /\ c \in S => closed[c].status # "resolved"
           /\ c \notin S => closed[c] = comments[c]
  BY <1>1, Closing DEF IInv
<1>3. PICK most \in {0} \cup {closed[c].rounds : c \in S} :
        comments' = applyAuthored(a, closed, settled, peers, most)
  BY DEF RunEnds
<1>4. most \in Nat
  <2>1. \A c \in S : closed[c] \in Comment
    BY <1>1, <1>2, LenProperties, ElementOfSeq DEF Batches, Texts
  <2> QED BY <1>3, <2>1 DEF Comment
<1>. HIDE DEF closed
<1>5. Len(closed) = Len(comments)
  <2>1. Len(closed) \in Nat /\ DOMAIN closed = 1 .. Len(closed)
    BY <1>2, LenProperties DEF Texts
  <2>2. Len(comments) \in Nat /\ DOMAIN comments = 1 .. Len(comments)
    BY LenProperties DEF IInv, TypeOK
  <2> QED BY <1>2, <2>1, <2>2, SameInterval
<1>6. Batches(closed, S, a)
  BY <1>1, <1>2, SameBatches
<1>7. /\ Texts(comments') /\ AllFine(comments')
      /\ \A c \in DOMAIN closed : /\ c \in DOMAIN comments' /\ Same(closed[c], comments'[c])
                                  /\ comments'[c].status = closed[c].status
  <2>1. Texts(closed) /\ AllFine(closed) /\ settled \in SUBSET S
    BY <1>1, <1>2
  <2>. HIDE DEF S
  <2>2. Answered(closed, applyAuthored(a, closed, settled, peers, most))
    BY <1>4, <1>5, <1>6, <2>1, Applying
  <2>3. Answered(closed, comments')
    BY <1>3, <2>2
  <2> QED BY <2>3 DEF Answered
<1>8. Continues(S)
  BY <1>2, <1>7 DEF Continues, Same
<1>9. S \subseteq Given
  BY <1>1 DEF Batches, For, Given
<1>10. \A b \in Agents : (Working(b))' => Working(b) /\ work'[b].over = work[b].over
  BY <1>1 DEF Working, IInv, TypeOK
<1>11. RunsAreAsked'
  BY <1>1, <1>8, <1>10, StillAsked
<1>12. work' \in [Agents -> Work \cup {None}] /\ Claims'
  BY <1>1 DEF IInv, TypeOK, Claims, setState, SubtaskStates
<1>13. TypeOK'
  BY <1>1, <1>7, <1>12, TypedAgain DEF Claims, IInv, TypeOK, Texts
<1> QED BY <1>1, <1>7, <1>8, <1>9, <1>11, <1>13 DEF IInv, Continues, AllFine

LEMMA TurnEndsStep ==
  ASSUME IInv, NEW a \in Agents, NEW peers \in Peers(a), TurnEnds(a, peers)
  PROVE  IInv' /\ Continues(Given)
<1>1. /\ comments' = applyAuthored(a, comments, {}, peers, 0)
      /\ turn' = [turn EXCEPT ![a] = "none"] /\ setState(a, "assigned")
      /\ UNCHANGED <<moved, work, dying, disk, events>>
  BY DEF TurnEnds
<1>2. Texts(comments) /\ AllFine(comments) /\ Batches(comments, {}, a)
  BY DEF IInv, TypeOK, Texts, Batches
<1>3. /\ Texts(comments') /\ AllFine(comments')
      /\ \A c \in DOMAIN comments : /\ c \in DOMAIN comments' /\ Same(comments[c], comments'[c])
                                    /\ comments'[c].status = comments[c].status
  <2>1. Answered(comments, applyAuthored(a, comments, {}, peers, 0))
    BY <1>2, Applying
  <2> QED BY <1>1, <2>1 DEF Answered
<1>4. Continues({})
  BY <1>3 DEF Continues
<1>5. RunsAreAsked'
  BY <1>1, <1>4, StillAsked DEF Working
<1>6. Claims'
  BY <1>1 DEF IInv, TypeOK, Claims, setState, SubtaskStates, TurnPlaces
<1>7. TypeOK'
  BY <1>1, <1>3, <1>6, TypedAgain DEF Claims, IInv, TypeOK, Texts
<1> QED BY <1>1, <1>3, <1>4, <1>5, <1>7 DEF IInv, Continues, AllFine

LEMMA DyingStep ==
  ASSUME IInv, NEW a \in Agents, NEW status, DyingCloses(a, status)
  PROVE  IInv' /\ Continues(Given)
<1>. DEFINE S == dying[a]
<1>1. /\ Batches(comments, S, a) /\ comments' = closeRun(S, status)
      /\ dying' = [dying EXCEPT ![a] = {}] /\ UNCHANGED <<moved, state, turn, work, disk, events>>
  BY DEF DyingCloses, IInv, RunsAreAsked
<1>2. /\ Texts(comments') /\ AllFine(comments') /\ DOMAIN comments' = DOMAIN comments
      /\ \A c \in DOMAIN comments :
           /\ Same(comments[c], comments'[c])
           /\ c \in S => comments'[c].status # "resolved"
           /\ c \notin S => comments'[c] = comments[c]
  BY <1>1, Closing DEF IInv
<1>3. Continues(S)
  BY <1>2 DEF Continues
<1>4. S \subseteq Given
  BY <1>1 DEF Batches, For, Given
<1>5. \A b \in Agents : dying'[b] = {} \/ dying'[b] = dying[b]
  BY <1>1 DEF IInv, TypeOK
<1>6. RunsAreAsked'
  BY <1>1, <1>3, <1>5, StillAsked DEF Working
<1>7. dying' \in [Agents -> SUBSET Ids]
  BY <1>1 DEF IInv, TypeOK
<1>8. TypeOK'
  BY <1>1, <1>2, <1>7, TypedAgain DEF Claims, IInv, TypeOK, Texts
<1> QED BY <1>1, <1>2, <1>3, <1>4, <1>6, <1>8 DEF IInv, Continues, AllFine

LEMMA CreateStep ==
  ASSUME IInv, NEW h \in Humans, NEW to \in Agents, CreateComment(h, to)
  PROVE  IInv' /\ Continues(Given)
<1>. DEFINE x == newComment(None, h, to, 0)
<1>1. x \in Comment /\ Fine(x)
  BY DEF newComment, Comment, Fine, Statuses
<1>2. /\ comments' = Append(comments, x) /\ Len(comments) < MaxComments /\ Event
      /\ UNCHANGED <<moved, state, turn, work, dying, disk>>
  BY DEF CreateComment
<1>3. comments \in Seq(Comment) /\ Len(comments) \in Nat /\ DOMAIN comments = 1 .. Len(comments)
  BY LenProperties DEF IInv, TypeOK
<1>. HIDE DEF x
<1>4. /\ comments' \in Seq(Comment) /\ Len(comments') = Len(comments) + 1
      /\ DOMAIN comments' = 1 .. Len(comments) + 1
      /\ \A i \in 1 .. Len(comments) : comments'[i] = comments[i]
      /\ comments'[Len(comments) + 1] = x
  BY <1>1, <1>2, <1>3, AppendProperties
<1>5. Texts(comments') /\ AllFine(comments')
  BY <1>1, <1>2, <1>3, <1>4 DEF Texts, AllFine, IInv
<1>6. Continues({})
  BY <1>3, <1>4, <1>5 DEF Continues, Same
<1>7. RunsAreAsked'
  BY <1>2, <1>6, StillAsked DEF Working
<1>8. TypeOK'
  BY <1>2, <1>5, TypedAgain, EventTyped DEF Claims, IInv, TypeOK, Texts
<1> QED BY <1>2, <1>5, <1>6, <1>7, <1>8 DEF IInv, Continues, AllFine

LEMMA ResolveStep ==
  ASSUME IInv, NEW h \in Humans, NEW c \in DOMAIN comments, Resolve(h, c)
  PROVE  /\ IInv' /\ h = comments[c].human
         /\ \A e \in DOMAIN comments : e # c => comments'[e] = comments[e]
         /\ comments'[c].status = "resolved"
<1>1. /\ comments' = [comments EXCEPT ![c].status = "resolved"] /\ h = comments[c].human
      /\ Event /\ UNCHANGED <<moved, state, turn, work, dying, disk>>
  BY DEF Resolve
<1>2. /\ Texts(comments') /\ AllFine(comments') /\ DOMAIN comments' = DOMAIN comments
      /\ \A e \in DOMAIN comments : Same(comments[e], comments'[e])
      /\ comments'[c].status = "resolved"
      /\ \A e \in DOMAIN comments : e # c => comments'[e] = comments[e]
  BY <1>1, OneStatus DEF Statuses
<1>3. \A S, a : Batches(comments, S, a) => Batches(comments', S, a)
  BY <1>2, SameBatches
<1>4. RunsAreAsked'
  BY <1>1, <1>3 DEF IInv, RunsAreAsked, Working
<1>5. TypeOK'
  BY <1>1, <1>2, TypedAgain, EventTyped DEF Claims, IInv, TypeOK, Texts
<1> QED BY <1>1, <1>2, <1>4, <1>5 DEF IInv, AllFine

LEMMA RestartStep ==
  ASSUME IInv, Restart
  PROVE  IInv'
<1>1. /\ comments' = disk /\ moved' \subseteq Ids /\ disk' = disk /\ Event /\ Claims'
      /\ work' = [a \in Agents |-> None] /\ dying' = [a \in Agents |-> {}]
  BY DEF Restart, IInv, TypeOK, Claims, SubtaskStates, TurnPlaces
<1>2. TypeOK'
  BY <1>1, TypedAgain, EventTyped DEF Claims, IInv, TypeOK, Texts
<1>3. RunsAreAsked'
  BY <1>1 DEF RunsAreAsked, Working, Batches
<1> QED BY <1>1, <1>2, <1>3 DEF IInv, AllFine

\* Every step keeps the invariant, and is a decision, a restart, or lets go
\* of a resolved comment only where a run was given it.
LEMMA Step ==
  ASSUME IInv, [Next]_vars
  PROVE  /\ IInv'
         /\ \/ Continues(Given)
            \/ \E h \in Humans, c \in DOMAIN comments : Resolve(h, c)
            \/ Restart
<1>1. CASE UNCHANGED vars
  BY <1>1, QuietStep DEF vars, IInv, TypeOK, Claims, RunsAreAsked, Working, Batches
<1>2. CASE HumanStep
  <2>1. PICK h \in Humans :
          \/ \E a \in Agents : CreateComment(h, a)
          \/ \E c \in DOMAIN comments : Resolve(h, c) \/ ReiterateStale(h, c)
          \/ \E S \in SUBSET DOMAIN comments, D \in SUBSET Agents : Reiterate(h, S, D)
    BY <1>2 DEF HumanStep
  <2>2. ASSUME NEW a \in Agents, CreateComment(h, a) PROVE IInv' /\ Continues(Given)
    BY <2>2, CreateStep
  <2>3. ASSUME NEW c \in DOMAIN comments, ReiterateStale(h, c) PROVE IInv' /\ Continues(Given)
    BY <2>3, StaleStep DEF ReiterateStale, Sendable
  <2>4. ASSUME NEW S \in SUBSET DOMAIN comments, NEW D \in SUBSET Agents, Reiterate(h, S, D)
        PROVE  IInv' /\ Continues(Given)
    BY <2>4, SendStep DEF Reiterate
  <2>5. ASSUME NEW c \in DOMAIN comments, Resolve(h, c) PROVE IInv'
    BY <2>5, ResolveStep
  <2> QED BY <2>1, <2>2, <2>3, <2>4, <2>5
<1>3. ASSUME NEW h \in Humans, AutoMode(h) PROVE IInv' /\ Continues(Given)
  <2>1. Pending(h) \in SUBSET DOMAIN comments
    BY DEF Pending
  <2>2. ASSUME AutoReiterateStale(h) PROVE IInv' /\ Continues(Given)
    <3>1. PICK c \in Pending(h) : markStale(c)
      BY <2>2 DEF AutoReiterateStale
    <3>2. c \in DOMAIN comments /\ comments[c].status # "resolved"
      BY DEF Pending
    <3> QED BY <2>2, <3>1, <3>2, StaleStep DEF AutoReiterateStale
  <2>3. ASSUME NEW D \in SUBSET Agents, AutoReiterate(h, D) PROVE IInv' /\ Continues(Given)
    BY <2>1, <2>3, SendStep DEF AutoReiterate
  <2> QED BY <1>3, <2>2, <2>3 DEF AutoMode
<1>4. ASSUME NEW a \in Agents, Materialized(a) PROVE IInv' /\ Continues(Given)
  <2>1. work[a] \in Work /\ work[a] # None
    BY <1>4 DEF Materialized, Working, IInv, TypeOK
  <2>2. /\ [work[a] EXCEPT !.place = "running"] \in Work
        /\ [work[a] EXCEPT !.place = "running"].over = work[a].over
    BY <2>1 DEF Work
  <2>3. /\ work' = [work EXCEPT ![a] = [work[a] EXCEPT !.place = "running"]]
        /\ UNCHANGED <<comments, moved, state, turn, dying, disk, events>>
    BY <1>4 DEF Materialized
  <2>4. work' \in [Agents -> Work \cup {None}]
    BY <2>2, <2>3 DEF IInv, TypeOK
  <2>5. \A b \in Agents : (Working(b))' => Working(b) /\ work'[b].over = work[b].over
    BY <2>1, <2>2, <2>3 DEF Working, IInv, TypeOK
  <2>6. RunsAreAsked'
    BY <2>3, <2>5, Unchanged, StillAsked
  <2> QED BY <2>3, <2>4, <2>6, QuietStep DEF IInv, TypeOK, Claims
<1>5. ASSUME NEW a \in Agents, MaterializeFails(a) PROVE IInv' /\ Continues(Given)
  <2>1. /\ work' = [work EXCEPT ![a] = None] /\ Event
        /\ UNCHANGED <<comments, moved, state, turn, dying, disk>>
    BY <1>5 DEF MaterializeFails
  <2>2. \A b \in Agents : (Working(b))' => Working(b) /\ work'[b].over = work[b].over
    BY <2>1 DEF Working, IInv, TypeOK
  <2>3. RunsAreAsked'
    BY <2>1, <2>2, Unchanged, StillAsked
  <2> QED BY <2>1, <2>3, QuietStep DEF IInv, TypeOK, Claims
<1>6. ASSUME NEW a \in Agents, RunThrows(a) PROVE IInv' /\ Continues(Given)
  <2>1. /\ work' = [work EXCEPT ![a] = None] /\ Working(a)
        /\ dying' = [dying EXCEPT ![a] = work[a].over] /\ setState(a, "assigned")
        /\ UNCHANGED <<comments, moved, turn, disk, events>>
    BY <1>6 DEF RunThrows
  <2>2. work[a].over \in SUBSET Ids
    <3>1. work[a] \in Work
      BY <2>1 DEF Working, IInv, TypeOK
    <3> QED BY <3>1 DEF Work
  <2>3. /\ work' \in [Agents -> Work \cup {None}] /\ dying' \in [Agents -> SUBSET Ids]
        /\ \A b \in Agents :
             /\ (Working(b))' => Working(b) /\ work'[b].over = work[b].over
             /\ dying'[b] = dying[b] \/ (Working(b) /\ dying'[b] = work[b].over)
    BY <2>1, <2>2 DEF Working, IInv, TypeOK
  <2>4. RunsAreAsked'
    BY <2>1, <2>3, Unchanged, StillAsked
  <2>5. Claims'
    BY <2>1 DEF setState, Claims, IInv, TypeOK, SubtaskStates
  <2> QED BY <2>1, <2>3, <2>4, <2>5, QuietStep DEF IInv, TypeOK
<1>7. ASSUME NEW a \in Agents, TurnStarts(a) \/ TurnRuns(a) \/ Submit(a) \/ Stop(a)
      PROVE  IInv' /\ Continues(Given)
  <2>1. Claims' /\ UNCHANGED <<comments, moved, work, dying, disk>>
    BY <1>7 DEF TurnStarts, TurnRuns, Submit, Stop, setState, IInv, TypeOK, Claims,
                SubtaskStates, TurnPlaces
  <2>2. Event \/ UNCHANGED events
    BY <1>7 DEF TurnStarts, TurnRuns, Submit, Stop
  <2>3. RunsAreAsked'
    BY <2>1, Unchanged, StillAsked DEF Working
  <2> QED BY <2>1, <2>2, <2>3, QuietStep DEF IInv, TypeOK
<1>8. ASSUME NEW a \in Agents, RunStep(a) PROVE IInv' /\ Continues(Given)
  BY <1>4, <1>6, <1>7, <1>8, DyingStep, TurnEndsStep, RunEndsStep DEF RunStep
<1>9. ASSUME NEW c \in DOMAIN comments, Commit(c) PROVE IInv' /\ Continues(Given)
  <2>1. c \in Ids
    BY InTexts DEF IInv
  <2>2. /\ moved' \subseteq Ids /\ Event
        /\ UNCHANGED <<comments, state, turn, work, dying, disk>>
    BY <1>9, <2>1 DEF Commit, IInv, TypeOK
  <2>3. RunsAreAsked'
    BY <2>2, Unchanged, StillAsked DEF Working
  <2> QED BY <2>2, <2>3, QuietStep DEF IInv, TypeOK, Claims
<1>10. CASE Persist
  <2>1. disk' = comments /\ UNCHANGED <<comments, moved, state, turn, work, dying, events>>
    BY <1>10 DEF Persist
  <2>2. RunsAreAsked'
    BY <2>1, Unchanged, StillAsked DEF Working
  <2> QED BY <2>1, <2>2, QuietStep DEF IInv, TypeOK, Claims
<1>11. CASE Restart
  BY <1>11, RestartStep
<1> QED BY <1>1, <1>2, <1>3, <1>5, <1>7, <1>8, <1>9, <1>10, <1>11 DEF Next

-----------------------------------------------------------------------------

LEMMA Invariance == Spec => []IInv
<1>1. Init => IInv
  <2>1. SUFFICES ASSUME Init PROVE IInv
    OBVIOUS
  <2>2. comments = <<>> /\ disk = <<>> /\ <<>> \in Seq(Comment) /\ Len(<<>>) = 0 /\ DOMAIN <<>> = {}
    BY <2>1, EmptySeq, LenProperties DEF Init
  <2>3. TypeOK
    BY <2>1, <2>2 DEF Init, TypeOK, SubtaskStates, TurnPlaces
  <2> QED BY <2>1, <2>2, <2>3 DEF Init, IInv, AllFine, RunsAreAsked, Working, Batches
<1>2. IInv /\ [Next]_vars => IInv'
  BY Step
<1> QED BY <1>1, <1>2, PTL DEF Spec

\* The comments, the runs and the file are well-formed, for any numbers of
\* agents and comments and any budgets.
THEOREM TypeCorrect == Spec => []TypeOK
<1>1. IInv => TypeOK
  BY DEF IInv
<1> QED BY <1>1, Invariance, PTL

\* What an agent raised is never at rest where nobody looks: markStale and
\* escalate cover every way a comment can go.
THEOREM NothingRaisedIsLost == Spec => []AgentFeedbackStaysVisible
<1>1. IInv => AgentFeedbackStaysVisible
  BY DEF IInv, AllFine, Fine, AgentFeedbackStaysVisible, FromAgent
<1> QED BY <1>1, Invariance, PTL

\* planRuns and requireOwnership together keep a human's comment from every
\* agent that is not the author's.
THEOREM FeedbackIsTheAuthorsToSend == Spec => []HumanFeedbackIsTheirs
<1>1. IInv => HumanFeedbackIsTheirs
  BY DEF IInv, AllFine, Fine, HumanFeedbackIsTheirs, FromAgent
<1> QED BY <1>1, Invariance, PTL

\* No number of agents settles a comment: agentResolve never meets both words.
THEOREM AgentsNeverSettle == Spec => OnlyHumansSettle
<1>1. IInv /\ [Next]_vars =>
        [\A c \in DOMAIN comments \cap DOMAIN comments' :
           comments[c].status # "resolved" /\ comments'[c].status = "resolved"
           => Resolve(comments[c].human, c) \/ Restart]_vars
  <2>1. SUFFICES ASSUME IInv, [Next]_vars, NEW c \in DOMAIN comments,
                        comments[c].status # "resolved", comments'[c].status = "resolved"
                 PROVE  Resolve(comments[c].human, c) \/ Restart
    OBVIOUS
  <2>2. ~ Continues(Given)
    BY <2>1 DEF Continues
  <2>3. CASE \E h \in Humans, e \in DOMAIN comments : Resolve(h, e)
    <3>1. PICK h \in Humans, e \in DOMAIN comments : Resolve(h, e)
      BY <2>3
    <3>2. h = comments[e].human /\ (c # e => comments'[c] = comments[c])
      BY <2>1, <3>1, ResolveStep
    <3> QED BY <2>1, <3>1, <3>2
  <2> QED BY <2>1, <2>2, <2>3, Step
<1> QED BY <1>1, Invariance, PTL DEF Spec, OnlyHumansSettle

\* A resolved comment changes only through a run it was already given.
THEOREM SettledStaysSettled == Spec => ReopenedOnlyByItsRun
<1>1. IInv /\ [Next]_vars =>
        [\A c \in DOMAIN comments \cap DOMAIN comments' :
           comments[c].status = "resolved" /\ comments'[c].status # "resolved"
           => \/ Working(comments[c].to) /\ c \in work[comments[c].to].over
              \/ c \in dying[comments[c].to]
              \/ Restart]_vars
  <2>1. SUFFICES ASSUME IInv, [Next]_vars, NEW c \in DOMAIN comments, ~ Restart,
                        comments[c].status = "resolved", comments'[c].status # "resolved"
                 PROVE  c \in Given
    BY DEF Given
  <2>2. CASE Continues(Given)
    BY <2>1, <2>2 DEF Continues
  <2>3. CASE \E h \in Humans, e \in DOMAIN comments : Resolve(h, e)
    <3>1. PICK h \in Humans, e \in DOMAIN comments : Resolve(h, e)
      BY <2>3
    <3>2. comments'[e].status = "resolved" /\ (c # e => comments'[c] = comments[c])
      BY <2>1, <3>1, ResolveStep
    <3> QED BY <2>1, <3>2
  <2> QED BY <2>1, <2>2, <2>3, Step
<1> QED BY <1>1, Invariance, PTL DEF Spec, ReopenedOnlyByItsRun

\* Comments are settled by the human, and stay so.
THEOREM SettledByHumans == Spec => SettlingIsHuman
BY AgentsNeverSettle, SettledStaysSettled DEF SettlingIsHuman
=============================================================================
