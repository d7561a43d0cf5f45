------------------------------- MODULE Merge -------------------------------
(***************************************************************************)
(* The three-way line merge of concord/merge.ts, and keepBoth of           *)
(* concord/store.ts, which turns its conflict report into a text.          *)
(*                                                                         *)
(* A text is represented by splitLines(text): the sequence of its lines.   *)
(* The empty text has no line at all, and splitting never yields the one   *)
(* sequence <<Blank>>, because joining it gives the empty text back.       *)
(***************************************************************************)
EXTENDS Integers, Sequences, SequencesExt

CONSTANTS
  Line,   \* the lines a document may hold
  Blank   \* the empty line

ASSUME BlankAssumption == Blank \in Line

Texts == Seq(Line) \ {<<Blank>>}

joinLines(lines) == IF lines = <<Blank>> THEN <<>> ELSE lines

Larger(m, n) == IF m >= n THEN m ELSE n

(***************************************************************************)
(* lcsLengths(a, b)[i, j]: how many lines the longest common subsequence   *)
(* of a and b has, once the first i and j lines are dropped.               *)
(***************************************************************************)
lcsLengths(a, b) ==
  LET table[at \in (0 .. Len(a)) \X (0 .. Len(b))] ==
        LET i == at[1]
            j == at[2]
        IN  IF i = Len(a) \/ j = Len(b) THEN 0
            ELSE IF a[i + 1] = b[j + 1] THEN table[<< i + 1, j + 1 >>] + 1
            ELSE Larger(table[<< i + 1, j >>], table[<< i, j + 1 >>])
  IN  table

(***************************************************************************)
(* A hunk replaces deleted base lines from the 0-based index start by the  *)
(* inserted ones. Push puts an edit before the hunks of the rest of the    *)
(* text, inside the first one if no kept line lies between them (the code  *)
(* keeps the open hunk in pendingStart/deleted/inserted until flush()).    *)
(***************************************************************************)
Push(h, hunks) ==
  IF hunks # <<>> /\ Head(hunks).start = h.start + h.deleted
  THEN << [start    |-> h.start,
           deleted  |-> h.deleted + Head(hunks).deleted,
           inserted |-> h.inserted \o Head(hunks).inserted] >> \o Tail(hunks)
  ELSE << h >> \o hunks

diffLines(base, other) ==
  LET table == lcsLengths(base, other)
      n == Len(base)
      m == Len(other)
      hunks[at \in (0 .. n) \X (0 .. m)] ==
        LET i == at[1]
            j == at[2]
            same == i < n /\ j < m /\ base[i + 1] = other[j + 1]
        IN  CASE i = n /\ j = m -> <<>>
              [] same -> hunks[<< i + 1, j + 1 >>]
              [] i < n /\ ~same /\ (j < m => table[<< i + 1, j >>] >= table[<< i, j + 1 >>]) ->
                   Push([start |-> i, deleted |-> 1, inserted |-> <<>>], hunks[<< i + 1, j >>])
              [] OTHER ->
                   Push([start |-> i, deleted |-> 0, inserted |-> << other[j + 1] >>],
                        hunks[<< i, j + 1 >>])
  IN  hunks[<< 0, 0 >>]

\* A pure insertion still claims the line it stands before: two insertions
\* at one point are an ordering disagreement.
overlaps(a, b) ==
  /\ a.start < b.start + Larger(b.deleted, 1)
  /\ b.start < a.start + Larger(a.deleted, 1)

Contested(mine, yours) ==
  [baseStart |-> IF mine.start <= yours.start THEN mine.start ELSE yours.start,
   baseEnd   |-> Larger(mine.start + mine.deleted, yours.start + yours.deleted),
   ours      |-> mine.inserted,
   theirs    |-> yours.inserted]

MergeConflicts(ourHunks, theirHunks) ==
  FlattenSeq([k \in DOMAIN ourHunks |->
    LET hits == SelectSeq(theirHunks, LAMBDA yours : overlaps(ourHunks[k], yours))
    IN  [h \in DOMAIN hits |-> Contested(ourHunks[k], hits[h])]])

\* Mutant: as many lines are dropped as are inserted.
SpliceOver(lines, h) ==
  SubSeq(lines, 1, h.start) \o h.inserted
    \o SubSeq(lines, h.start + Len(h.inserted) + 1, Len(lines))

Splice(lines, h) ==
  SubSeq(lines, 1, h.start) \o h.inserted
    \o SubSeq(lines, h.start + h.deleted + 1, Len(lines))

\* Right to left, so that the indices still to be used stay valid. No two
\* hunks start at one line.
ApplyHunks(lines, hunks) ==
  LET text[p \in 0 .. Len(lines) + 1] ==
        IF p > Len(lines) THEN lines
        ELSE IF \E h \in hunks : h.start = p
             THEN Splice(text[p + 1], CHOOSE h \in hunks : h.start = p)
             ELSE text[p + 1]
  IN  text[0]

Clean(content) == [ok |-> TRUE, content |-> content, conflicts |-> <<>>]

merge3(base, ours, theirs) ==
  IF ours = theirs THEN Clean(ours)
  ELSE IF base = theirs THEN Clean(ours)
  ELSE IF base = ours THEN Clean(theirs)
  ELSE LET ourHunks   == diffLines(base, ours)
           theirHunks == diffLines(base, theirs)
       IN  IF \E mine \in ToSet(ourHunks), yours \in ToSet(theirHunks) : overlaps(mine, yours)
           THEN [ok        |-> FALSE,
                 content   |-> theirs,
                 conflicts |-> MergeConflicts(ourHunks, theirHunks)]
           ELSE Clean(joinLines(ApplyHunks(base, ToSet(ourHunks) \cup ToSet(theirHunks))))

(***************************************************************************)
(* keepBoth: the committed text with the losing lines of every contested   *)
(* range inserted after the winning ones, or at the end when the winning   *)
(* lines are not found (or the winning side is a deletion).                *)
(***************************************************************************)
RunsOf(needle, lines) ==
  {k \in 0 .. Len(lines) - Len(needle) :
     needle # <<>> /\ SubSeq(lines, k + 1, k + Len(needle)) = needle}

Anchor(lines, needle) ==
  LET at == RunsOf(needle, lines)
  IN  IF at = {} THEN Len(lines)
      ELSE Len(needle) + CHOOSE k \in at : \A l \in at : k <= l

keepBoth(theirs, conflicts) ==
  LET added(p) == FlattenSeq([c \in DOMAIN conflicts |->
                    IF Anchor(theirs, conflicts[c].theirs) = p THEN conflicts[c].ours
                                                               ELSE <<>>])
  IN  joinLines(FlattenSeq([p \in 1 .. Len(theirs) + 1 |->
        added(p - 1) \o (IF p <= Len(theirs) THEN << theirs[p] >> ELSE <<>>)]))

=============================================================================
