----------------------------- MODULE SharedDoc -----------------------------
(***************************************************************************)
(* One shared document of the CONCORD store (concord/store.ts) and the     *)
(* clients that edit it.                                                   *)
(*                                                                         *)
(* Every operation of the store runs in the document's promise chain       *)
(* (serialize), so each critical section is one action here. What is not   *)
(* atomic is the client: it holds the version and the text it was last     *)
(* given (copy) while other operations run, and a human picks a side of a  *)
(* conflict from a snapshot taken before the critical section (choice).    *)
(***************************************************************************)
EXTENDS Integers, Sequences, FiniteSets

CONSTANTS
  Agents,           \* agent ids
  Humans,           \* human ids
  Owner,            \* the human each agent acts for (verdict.humanId)
  Orchestrator,     \* the human who may settle any conflict
  Text,             \* the texts a document may hold
  Empty,            \* the empty text
  Merge3(_, _, _),  \* merge3(base, ours, theirs)
  OutOfBounds(_, _, _), \* agent a may not turn the current text into the next
  None              \* null

CONSTANTS
  Leasers,          \* agents that take leases
  Revocable,        \* agents whose authority comes and goes
  Viewers,          \* agents in whose name a second client also reads
  Unreliable,       \* agents whose client can lose the reply to a write
  Rebasers,         \* agents whose client rebases onto the reply to a conflict
  Editors,          \* humans who edit the document by hand
  Resolvers,        \* humans who settle conflicts
  MaxVersion,       \* bound: commits
  MaxConflicts,     \* bound: conflicts ever opened
  MaxTtl,           \* bound: ticks a lease may last
  MaxRestarts       \* bound: restarts of the server

ASSUME ActorAssumption ==
  /\ Agents \cap Humans = {}
  /\ None \notin Agents \cup Humans \cup Text
  /\ Owner \in [Agents -> Humans]
  /\ Leasers \subseteq Agents /\ Revocable \subseteq Agents
  /\ Viewers \subseteq Agents /\ Unreliable \subseteq Agents /\ Rebasers \subseteq Agents
  /\ Editors \subseteq Humans /\ Resolvers \subseteq Humans

ASSUME MergeAssumption ==
  /\ Empty \in Text
  /\ \A b, o, t \in Text : /\ Merge3(b, o, t).ok \in BOOLEAN
                           /\ Merge3(b, o, t).content \in Text

ASSUME BoundAssumption ==
  /\ MaxVersion \in Nat /\ MaxConflicts \in Nat
  /\ MaxTtl \in Nat \ {0} /\ MaxRestarts \in Nat

VARIABLES
  version,      \* SharedDoc.version
  content,      \* SharedDoc.content
  history,      \* SharedDoc.history, each entry with the text it committed
  conflicts,    \* SharedDoc.conflicts, indexed by order of arrival
  opened,       \* how many conflicts were ever pushed (gives the index)
  conflictSeq,  \* the store's conflictSeq, from which ids are made
  bases,        \* the store's bases: what each agent last read, or None
  lease,        \* the live lease
  authorized,   \* the authorize callback's verdict for each agent
  copy,         \* what each agent's client was last given
  choice,       \* a human's pick, between the snapshot and store.resolve
  restarts      \* how often the server was restarted

docVars    == << version, content, history >>
disputeVars == << conflicts, opened, conflictSeq >>
vars == << docVars, disputeVars, bases, lease, authorized, copy, choice, restarts >>

Actors  == Agents \cup Humans
NoLease == [holder |-> None, left |-> 0]

Copy     == [version : Nat, text : Text]
Entry    == [author : Actors, text : Text]
Conflict == [id : Nat, agentId : Agents, base : Text, ours : Text, theirs : Text,
             atVersion : Nat]
Choice   == [conflictId : Nat, chosen : Text, seenAt : Nat]

\* The text of version v; version 0 is the document ensure() makes.
TextAt(v) == IF v = 0 THEN Empty ELSE history[v].text

-----------------------------------------------------------------------------
Init ==
  /\ version = 0 /\ content = Empty /\ history = <<>>
  /\ conflicts = <<>> /\ opened = 0 /\ conflictSeq = 0
  /\ bases = [a \in Agents |-> None]
  /\ lease = NoLease
  /\ authorized = [a \in Agents |-> TRUE]
  /\ copy = [a \in Agents |-> [version |-> 0, text |-> Empty]]
  /\ choice = [h \in Humans |-> None]
  /\ restarts = 0

(***************************************************************************)
(* read: authority, then the text is remembered as the agent's merge base. *)
(* View is the same handler called for the agent by another client, such   *)
(* as the browser tab of its owner: the base moves, the first client's     *)
(* copy does not.                                                          *)
(***************************************************************************)
Read(a) ==
  /\ authorized[a]
  /\ bases' = [bases EXCEPT ![a] = content]
  /\ copy' = [copy EXCEPT ![a] = [version |-> version, text |-> content]]
  /\ UNCHANGED << docVars, disputeVars, lease, authorized, choice, restarts >>

View(a) ==
  /\ a \in Viewers
  /\ authorized[a]
  /\ bases' = [bases EXCEPT ![a] = content]
  /\ UNCHANGED << docVars, disputeVars, lease, authorized, copy, choice, restarts >>

-----------------------------------------------------------------------------
MayWrite(a) == authorized[a] /\ lease.holder \in {None, a}

\* What a client submits: an edit of the text it has. (The reconciler does
\* not submit a file that is still what was checked out.)
Drafts(a) == Text \ {copy[a].text}

Commit(author, next) ==
  /\ version < MaxVersion
  /\ version' = version + 1
  /\ content' = next
  /\ history' = Append(history, [author |-> author, text |-> next])

\* commit() of write: the agent's own text is its next merge base.
AgentCommit(a, next) ==
  /\ ~OutOfBounds(a, content, next)
  /\ Commit(a, next)
  /\ bases' = [bases EXCEPT ![a] = next]

\* What the client knows afterwards. A lost reply leaves it with its old copy.
Reply(a, v, text) ==
  \/ copy' = [copy EXCEPT ![a] = [version |-> v, text |-> text]]
  \/ a \in Unreliable /\ UNCHANGED copy

\* write, expectedVersion = doc.version
WriteCurrent(a, next) ==
  /\ MayWrite(a) /\ next \in Drafts(a)
  /\ copy[a].version = version
  /\ AgentCommit(a, next)
  /\ Reply(a, version + 1, next)
  /\ UNCHANGED << disputeVars, lease, authorized, choice, restarts >>

\* Mutant: the edit is rebased from the current text.
BaseCurrent(a) == content

\* Mutant: the merge base is never found.
BaseForgotten(a) == Empty

Base(a) == IF bases[a] = None THEN Empty ELSE bases[a]

\* write, the document moved: the edit is rebased from the agent's base.
WriteMerged(a, next) ==
  /\ MayWrite(a) /\ next \in Drafts(a)
  /\ copy[a].version # version
  /\ LET merged == Merge3(Base(a), next, content)
     IN  /\ merged.ok
         /\ AgentCommit(a, merged.content)
         /\ Reply(a, version + 1, merged.content)
  /\ UNCHANGED << disputeVars, lease, authorized, choice, restarts >>

\* conflicts.filter(other agents).push(pending)
OpenConflict(pending) ==
  LET others == {k \in DOMAIN conflicts : conflicts[k].agentId # pending.agentId}
  IN  conflicts' = [k \in others \cup {opened + 1} |->
                      IF k \in others THEN conflicts[k] ELSE pending]

(***************************************************************************)
(* write, the edits overlap: both sides are kept as a pending conflict.    *)
(* The reply carries the current version and text; the reconciler keeps    *)
(* its old checkout, an API client may rebase by hand onto what it got.    *)
(***************************************************************************)
WriteConflict(a, next) ==
  /\ MayWrite(a) /\ next \in Drafts(a)
  /\ copy[a].version # version
  /\ ~Merge3(Base(a), next, content).ok
  /\ opened < MaxConflicts
  /\ OpenConflict([id |-> conflictSeq + 1, agentId |-> a, base |-> Base(a),
                   ours |-> next, theirs |-> content, atVersion |-> version])
  /\ opened' = opened + 1
  /\ conflictSeq' = conflictSeq + 1
  /\ \/ UNCHANGED copy
     \/ a \in Rebasers /\ copy' = [copy EXCEPT ![a] = [version |-> version, text |-> content]]
  /\ UNCHANGED << docVars, bases, lease, authorized, choice, restarts >>

(***************************************************************************)
(* writeAsHuman: no warrant, no section, no merge. It applies to the       *)
(* version the human was looking at, and drops every merge base.           *)
(***************************************************************************)
HumanWrite(h, next) ==
  /\ h \in Editors
  /\ lease.holder = None
  /\ Commit(h, next)
  /\ bases' = [a \in Agents |-> None]
  /\ UNCHANGED << disputeVars, lease, authorized, copy, choice, restarts >>

-----------------------------------------------------------------------------
(***************************************************************************)
(* The resolve route: the choice is turned into a text from a snapshot of  *)
(* the conflict, before the critical section of store.resolve is entered.  *)
(* "Keep both" and free text are both any non-empty text.                  *)
(***************************************************************************)
Choose(h, k, chosen) ==
  /\ h \in Resolvers
  /\ choice[h] = None
  /\ k \in DOMAIN conflicts
  /\ chosen # Empty \/ chosen \in {conflicts[k].ours, conflicts[k].theirs}
  /\ choice' = [choice EXCEPT ![h] = [conflictId |-> conflicts[k].id, chosen |-> chosen,
                                      seenAt |-> conflicts[k].atVersion]]
  /\ UNCHANGED << docVars, disputeVars, bases, lease, authorized, copy, restarts >>

WithId(id) == {k \in DOMAIN conflicts : conflicts[k].id = id}

\* conflicts.find(id): the first of them in order of arrival.
IsFirst(k, id) == k \in WithId(id) /\ \A j \in WithId(id) : k <= j

MaySettle(h, pending) == h = Orchestrator \/ Owner[pending.agentId] = h

\* not-found, or a human who owns neither side
ResolveRefused(h) ==
  /\ choice[h] # None
  /\ \A k \in DOMAIN conflicts :
       IsFirst(k, choice[h].conflictId) => ~MaySettle(h, conflicts[k])
  /\ choice' = [choice EXCEPT ![h] = None]
  /\ UNCHANGED << docVars, disputeVars, bases, lease, authorized, copy, restarts >>

\* The choice itself collides with what was committed since: the conflict
\* stays open, re-anchored at the current version.
ResolveAgain(h, k) ==
  /\ choice[h] # None
  /\ IsFirst(k, choice[h].conflictId)
  /\ MaySettle(h, conflicts[k])
  /\ ~Merge3(conflicts[k].theirs, choice[h].chosen, content).ok
  /\ conflicts' = [j \in DOMAIN conflicts |->
       IF j \in WithId(choice[h].conflictId)
       THEN [conflicts[k] EXCEPT !.ours = choice[h].chosen, !.theirs = content,
                                 !.atVersion = version]
       ELSE conflicts[j]]
  /\ choice' = [choice EXCEPT ![h] = None]
  /\ UNCHANGED << docVars, opened, conflictSeq, bases, lease, authorized, copy, restarts >>

\* Mutant: settling one conflict clears the document's list.
CloseConflictAll(id) == conflicts' = <<>>

\* doc.conflicts.filter(item => item.id !== conflictId)
CloseConflict(id) ==
  conflicts' = [j \in DOMAIN conflicts \ WithId(id) |-> conflicts[j]]

\* Mutant: the choice is committed as it stands, without rebasing it.
ResolveCommitAsIs(h, k) ==
  /\ choice[h] # None
  /\ IsFirst(k, choice[h].conflictId)
  /\ MaySettle(h, conflicts[k])
  /\ Commit(h, choice[h].chosen)
  /\ bases' = [bases EXCEPT ![conflicts[k].agentId] = choice[h].chosen]
  /\ CloseConflict(choice[h].conflictId)
  /\ choice' = [choice EXCEPT ![h] = None]
  /\ UNCHANGED << opened, conflictSeq, lease, authorized, copy, restarts >>

\* The decision is committed in the human's name, whoever holds the lease.
ResolveCommit(h, k) ==
  /\ choice[h] # None
  /\ IsFirst(k, choice[h].conflictId)
  /\ MaySettle(h, conflicts[k])
  /\ LET merged == Merge3(conflicts[k].theirs, choice[h].chosen, content)
     IN  /\ merged.ok
         /\ Commit(h, merged.content)
         /\ bases' = [bases EXCEPT ![conflicts[k].agentId] = merged.content]
  /\ CloseConflict(choice[h].conflictId)
  /\ choice' = [choice EXCEPT ![h] = None]
  /\ UNCHANGED << opened, conflictSeq, lease, authorized, copy, restarts >>

-----------------------------------------------------------------------------
\* acquireLease: free, expired or already held by this agent (a renewal).
AcquireLease(a, ttl) ==
  /\ a \in Leasers
  /\ MayWrite(a)
  /\ lease' = [holder |-> a, left |-> ttl]
  /\ UNCHANGED << docVars, disputeVars, bases, authorized, copy, choice, restarts >>

ReleaseLease(a) ==
  /\ authorized[a]
  /\ lease.holder = a
  /\ lease' = NoLease
  /\ UNCHANGED << docVars, disputeVars, bases, authorized, copy, choice, restarts >>

\* Time passes. Every critical section begins with reapLease, so a lease is
\* gone for everybody as soon as its time is up.
Tick ==
  /\ lease # NoLease
  /\ lease' = IF lease.left = 1 THEN NoLease ELSE [lease EXCEPT !.left = @ - 1]
  /\ UNCHANGED << docVars, disputeVars, bases, authorized, copy, choice, restarts >>

\* A warrant covering the document is issued, revoked or expires.
ChangeAuthority(a) ==
  /\ a \in Revocable
  /\ authorized' = [authorized EXCEPT ![a] = ~@]
  /\ UNCHANGED << docVars, disputeVars, bases, lease, copy, choice, restarts >>

(***************************************************************************)
(* A restart between two operations. Documents and bases are as they were  *)
(* persisted; the lease is not persisted; conflictSeq restarts from the    *)
(* number of conflicts that are still open. Choices under way die with     *)
(* their requests.                                                         *)
(***************************************************************************)
Restart ==
  /\ restarts < MaxRestarts
  /\ restarts' = restarts + 1
  /\ conflictSeq' = Cardinality(DOMAIN conflicts)
  /\ lease' = NoLease
  /\ choice' = [h \in Humans |-> None]
  /\ UNCHANGED << docVars, conflicts, opened, bases, authorized, copy >>

Next ==
  \/ \E a \in Agents :
       \/ Read(a) \/ View(a)
       \/ \E next \in Text : WriteCurrent(a, next) \/ WriteMerged(a, next) \/ WriteConflict(a, next)
       \/ \E ttl \in 1 .. MaxTtl : AcquireLease(a, ttl)
       \/ ReleaseLease(a)
       \/ ChangeAuthority(a)
  \/ \E h \in Humans :
       \/ \E next \in Text : HumanWrite(h, next)
       \/ \E k \in 1 .. MaxConflicts :
            \/ \E chosen \in Text : Choose(h, k, chosen)
            \/ ResolveAgain(h, k) \/ ResolveCommit(h, k)
       \/ ResolveRefused(h)
  \/ Tick
  \/ Restart

Spec == Init /\ [][Next]_vars

-----------------------------------------------------------------------------
(***************************************************************************)
(* Type invariant. Its parts that are more than types: a lease is held     *)
(* exactly while it has time left, and the array of conflicts is indexed   *)
(* by numbers that were handed out.                                        *)
(***************************************************************************)
TypeOK ==
  /\ version \in Nat /\ content \in Text /\ history \in Seq(Entry)
  /\ DOMAIN conflicts \subseteq 1 .. opened
  /\ conflicts \in [DOMAIN conflicts -> Conflict]
  /\ opened \in Nat /\ conflictSeq \in Nat
  /\ bases \in [Agents -> Text \cup {None}]
  /\ lease \in [holder : Agents, left : 1 .. MaxTtl] \cup {NoLease}
  /\ authorized \in [Agents -> BOOLEAN]
  /\ copy \in [Agents -> Copy]
  /\ choice \in [Humans -> Choice \cup {None}]
  /\ restarts \in Nat

(***************************************************************************)
(* The version number counts the history, and the text served at a version *)
(* is the text the history recorded for it: no operation moves one without *)
(* the other (commit, writeAsHuman, resolve).                              *)
(***************************************************************************)
HistoryIsTheDocument ==
  /\ Len(history) = version
  /\ content = TextAt(version)

(***************************************************************************)
(* What a client states as the version it read, and the text it has, were  *)
(* a committed version of the document (read, and the replies of write).   *)
(***************************************************************************)
CopiesAreCommitted ==
  \A a \in Agents : copy[a].version <= version /\ copy[a].text = TextAt(copy[a].version)

(***************************************************************************)
(* Every merge base is a text the document really had. A base that was     *)
(* only drafted would make merge3 take drafted lines for agreed ones       *)
(* (bases.set in read, commit and resolve).                                *)
(***************************************************************************)
BasesAreCommitted ==
  \A a \in Agents : bases[a] # None => \E v \in 0 .. version : bases[a] = TextAt(v)

(***************************************************************************)
(* An open conflict is anchored: theirs is what was committed at           *)
(* atVersion. resolve rebases the human's choice from theirs, so a wrong   *)
(* anchor would let the choice undo later commits.                         *)
(***************************************************************************)
ConflictsAreAnchored ==
  \A k \in DOMAIN conflicts :
    /\ conflicts[k].atVersion <= version
    /\ conflicts[k].theirs = TextAt(conflicts[k].atVersion)

(***************************************************************************)
(* "One open conflict per Agent per document": the human is never asked    *)
(* twice about one edit, and an id names one conflict, the one that        *)
(* resolve will close (write, resolve).                                    *)
(***************************************************************************)
OneConflictPerAgent ==
  \A j, k \in DOMAIN conflicts :
    j # k => /\ conflicts[j].agentId # conflicts[k].agentId
             /\ conflicts[j].id # conflicts[k].id

-----------------------------------------------------------------------------
\* Line k of a text, or None past its end. In the texts of the instances a
\* line keeps its number, so line k of two versions is the same line.
LineOf(text, k) == IF k \in DOMAIN text THEN text[k] ELSE None

Lines == UNION {DOMAIN text : text \in Text}

\* A line that is no longer what it was at version since, and whose present
\* value was committed by somebody else, is the same after the step.
KeepsOthersWork(since, actor) ==
  \A k \in Lines : \A v \in since + 1 .. version :
    /\ LineOf(content, k) # LineOf(TextAt(since), k)
    /\ history[v].author # actor
    /\ LineOf(TextAt(v - 1), k) # LineOf(content, k)
    /\ \A u \in v .. version : LineOf(TextAt(u), k) = LineOf(content, k)
    => LineOf(content', k) = LineOf(content, k)

\* What a clean merge makes of a line that changed between base and theirs, in
\* texts whose lines keep their number.
MergeKeepsTheirs ==
  \A b, o, t \in Text : Merge3(b, o, t).ok =>
    \A k \in Lines : LineOf(t, k) # LineOf(b, k)
      => LineOf(Merge3(b, o, t).content, k) = LineOf(t, k)

CommittedBy(actor) == version' # version /\ history'[version'].author = actor

(***************************************************************************)
(* No lost update: when an agent's write lands, every line that was        *)
(* committed by somebody else after the agent's client last read is still  *)
(* there. "Two Agents read v3, both write, one silently overwrites the     *)
(* other" is what the store says it closes (write, merge3, bases).         *)
(***************************************************************************)
NoLostUpdate ==
  [][\A a \in Agents : CommittedBy(a) => KeepsOthersWork(copy[a].version, a)]_vars

(***************************************************************************)
(* A human's decision wins on the contested lines only: whatever landed    *)
(* after the snapshot the human chose from is not clobbered (resolve).     *)
(***************************************************************************)
DecisionKeepsLaterWork ==
  [][\A h \in Humans :
       CommittedBy(h) /\ choice[h] # None /\ choice'[h] = None
         => KeepsOthersWork(choice[h].seenAt, h)]_vars

(***************************************************************************)
(* A conflict is reported "only when the two genuinely touch the same      *)
(* lines": the refused edit does not merge with the document when it is    *)
(* rebased from the text its client really had (write).                    *)
(***************************************************************************)
ConflictsAreGenuine ==
  [][opened' # opened =>
       LET pending == conflicts'[opened']
       IN  ~Merge3(copy[pending.agentId].text, pending.ours, content).ok]_vars

(***************************************************************************)
(* "Optional exclusive access for a multi-step edit": while a lease is     *)
(* live, only its holder changes the document. Refuted where people        *)
(* decide: resolve does not look at the lease (store.ts:914).              *)
(***************************************************************************)
LeaseIsExclusive ==
  [][version' # version /\ lease.holder # None => history'[version'].author = lease.holder]_vars

Disputed == {conflicts[k].agentId : k \in DOMAIN conflicts}

(***************************************************************************)
(* "A same-line disagreement, kept until a human settles it": one decision *)
(* settles the dispute it was made about and no other (resolve closes      *)
(* whatever has the id, ids are made from conflictSeq).                    *)
(***************************************************************************)
DisputesEndOneByOne == [][Cardinality(Disputed \ Disputed') <= 1]_vars

(***************************************************************************)
(* What the document promises, whatever its clients do: a log that only    *)
(* grows, and disputes that stay open until one is settled by a commit of  *)
(* a human who may settle it.                                              *)
(***************************************************************************)
Judges == [a \in Agents |-> Humans \cap {Owner[a], Orchestrator}]

Log == INSTANCE DocLog WITH log <- history, disputed <- Disputed

ImplementsDocLog == Log!Spec
=============================================================================
