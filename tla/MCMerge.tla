------------------------------ MODULE MCMerge ------------------------------
(***************************************************************************)
(* Two editors of one base text, with every text of at most MaxLines       *)
(* lines, and with every small text that holds two allocated sections: the *)
(* state graph ranges over all triples of texts of either kind. Theirs was *)
(* written first; ours is merged into it.                                  *)
(***************************************************************************)
EXTENDS Sections, Provenance

CONSTANTS
  MaxLines,   \* bound on the length of the texts that are tried
  Body,       \* the lines of those texts
  A, B        \* the headings of two sections that follow each other

ASSUME MergeAssumption ==
  /\ MaxLines \in Nat /\ Body \subseteq Line /\ A \in Line /\ B \in Line /\ A # B
  /\ Level[A] > 0 /\ Level[B] = Level[A] /\ \A l \in Body : Level[l] = 0

MCLevel == [l \in Line |-> IF l \in {A, B} THEN 2 ELSE 0]

VARIABLES base, ours, theirs

mergeVars == << base, ours, theirs >>

TextsOf(lines, n) == (UNION {[1 .. k -> lines] : k \in 0 .. n}) \ {<<Blank>>}

SmallText == TextsOf(Body, MaxLines)

\* The document of an allocation: lines before the two sections, and theirs.
Sectioned(before) ==
  LET Small == TextsOf(Body \ {Blank}, 1)
  IN  {at[1] \o << A >> \o at[2] \o << B >> \o at[3] : at \in before \X Small \X Small}

Edits == IF A \in ToSet(base) THEN Sectioned(TextsOf(Body \ {Blank}, 1)) ELSE SmallText

MergeInit ==
  /\ base \in SmallText \cup Sectioned({<<>>})
  /\ ours = base /\ theirs = base

EditOurs   == ours' \in Edits /\ UNCHANGED << base, theirs >>
EditTheirs == theirs' \in Edits /\ UNCHANGED << base, ours >>

MergeNext == EditOurs \/ EditTheirs

MergeSpec == MergeInit /\ [][MergeNext]_mergeVars

-----------------------------------------------------------------------------
(* Reference definitions. *)

CommonSubsequences(a, b) ==
  {s \in SUBSET (DOMAIN a) :
     \E f \in [s -> DOMAIN b] :
        /\ \A i \in s : b[f[i]] = a[i]
        /\ \A i, k \in s : i < k => f[i] < f[k]}

\* What a merge means, slot by slot: every base line survives unless either
\* side deletes it, and an insertion stands before the line it was made at.
SlotMerge(lines, hunks) ==
  LET inserted(p) == {h \in hunks : h.start = p}
      gone(p)     == \E h \in hunks : h.start <= p /\ p < h.start + h.deleted
      slot(p)     == (IF inserted(p) = {} THEN <<>>
                      ELSE (CHOOSE h \in inserted(p) : TRUE).inserted)
                     \o (IF p < Len(lines) /\ ~gone(p) THEN << lines[p + 1] >> ELSE <<>>)
  IN  FlattenSeq([p \in 1 .. Len(lines) + 1 |-> slot(p - 1)])

IsSubsequence(s, t) == \E keep \in SUBSET (DOMAIN t) :
  s = [k \in 1 .. Cardinality(keep) |-> t[SetToSortSeq(keep, <)[k]]]

(***************************************************************************)
(* diffLines is a diff: applied to the base its hunks give the other text, *)
(* and no diff keeps more of the base lines (diffLines, lcsLengths).       *)
(***************************************************************************)
DiffIsMinimal ==
  LET hunks == ToSet(diffLines(base, ours))
      deleted(p) == \E h \in hunks : h.start < p /\ p <= h.start + h.deleted
      kept == {p \in DOMAIN base : ~deleted(p)}
  IN  theirs = base =>
      /\ ApplyHunks(base, hunks) = ours
      /\ \A s \in CommonSubsequences(base, ours) : Cardinality(s) <= Cardinality(kept)

(***************************************************************************)
(* A clean merge is exactly both edits: every base line neither side       *)
(* deleted is kept, and every line either side added is present, in place  *)
(* (merge3: "disjoint edits converge").                                    *)
(***************************************************************************)
CleanMergeIsBothEdits ==
  LET m == merge3(base, ours, theirs)
  IN  m.ok /\ ours # theirs =>
        m.content = joinLines(SlotMerge(base, ToSet(diffLines(base, ours))
                                              \cup ToSet(diffLines(base, theirs))))

(***************************************************************************)
(* The owners of two sections do not get in each other's way: when each    *)
(* changed its own section, their edits merge, unless the second one's     *)
(* begins at its heading; the merged write is accepted in its turn, and    *)
(* what the owner of the first section wrote is not in the second          *)
(* (store.ts outOfBounds, sections.ts, merge.ts together).                 *)
(***************************************************************************)
BeginsAt(heading, text) ==
  \E h \in ToSet(diffLines(base, text)) : h.start + 1 = locateSection(base, heading).startLine

SectionText(lines, heading) ==
  LET r == locateSection(lines, heading) IN SubSeq(lines, r.startLine, r.endLine)

SectionsDoNotCollide ==
  StaysInside(base, ours, A) /\ StaysInside(base, theirs, B) =>
    LET m == merge3(base, ours, theirs)
    IN  /\ m.ok \/ BeginsAt(B, theirs)
        /\ m.ok => /\ StaysInside(theirs, m.content, A)
                   /\ SectionText(m.content, B) = SectionText(theirs, B)

\* What "never able to touch the same lines" promises of both owners. The
\* owner of B may insert before its own heading, which is in A's section.
OwnersChangeOnlyTheirs ==
  StaysInside(base, ours, B) => SectionText(ours, A) = SectionText(base, A)

(***************************************************************************)
(* Blame: after agent 2 committed theirs and agent 1 the merge, there is   *)
(* an entry for every line and a line new to the document names an agent;  *)
(* if neither edit moves or repeats a line the base has, it names one that *)
(* inserted it, and the others name nobody. Moved lines can make the diff  *)
(* against what was committed in between choose other lines than the diffs *)
(* against the base did (reconcileProvenance). What a human writes instead *)
(* of agent 1 names no agent.                                              *)
(***************************************************************************)
InsertedBy(text) == UNION {ToSet(h.inserted) : h \in ToSet(diffLines(base, text))}

Committed == reconcileProvenance(seedProvenance(base, 1), base, theirs, AgentWrite("a2"), 2)

BlameNamesTheWriter ==
  LET m        == merge3(base, ours, theirs)
      merged   == reconcileProvenance(Committed, theirs, m.content, AgentWrite("a1"), 3)
      byHand   == reconcileProvenance(Committed, theirs, ours, HumanEdit("h1"), 3)
      Wrote    == [a1 |-> InsertedBy(ours), a2 |-> InsertedBy(theirs)]
      named(i) == RecommendedAgent(merged, i, i)
      isNew(i) == m.content[i] \notin ToSet(base)
      moves    == \E a \in DOMAIN Wrote : Wrote[a] \cap ToSet(base) # {}
  IN  /\ m.ok =>
           /\ DOMAIN merged = DOMAIN m.content
           /\ \A i \in DOMAIN merged :
                /\ isNew(i) => named(i) \in DOMAIN Wrote
                /\ ~moves => IF isNew(i) THEN m.content[i] \in Wrote[named(i)]
                                         ELSE named(i) = "none"
      /\ \A i \in DOMAIN ours :
           ours[i] \notin ToSet(theirs) => /\ RecommendedAgent(byHand, i, i) = "none"
                                          /\ byHand[i].by.human = "h1"

\* Without the condition on moves a line can be credited to the other agent: it
\* takes a base of eight lines, of which ours moves three to the front.
MovesKeepTheWriter ==
  LET m      == merge3(base, ours, theirs)
      merged == reconcileProvenance(Committed, theirs, m.content, AgentWrite("a1"), 3)
  IN  m.ok => \A i \in DOMAIN merged :
        RecommendedAgent(merged, i, i) = "a1" =>
          m.content[i] \in InsertedBy(ours) \cup ToSet(base)

\* "Lines the human settled are attributed to the human, not to either Agent"
\* (store.ts:931): no comment on them is to be sent to an agent of that name.
DecisionsNameNoAgent ==
  LET decided == reconcileProvenance(Committed, theirs, ours, Decision("h1"), 3)
  IN  "h1" \notin CandidateAgents(decided, 1, Len(ours))
=============================================================================
