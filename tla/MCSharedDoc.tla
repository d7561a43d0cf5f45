---------------------------- MODULE MCSharedDoc ----------------------------
(***************************************************************************)
(* SharedDoc on a document of two lines. Each line has values of its own,  *)
(* so that merge3 can tell an edit of the first line from one of the       *)
(* second, and the texts are closed under merge3.                          *)
(***************************************************************************)
EXTENDS SharedDoc, TLC

CONSTANTS a1, a2, h1, h2

MC == INSTANCE Merge WITH Line <- {"", "a", "b", "x", "y"}, Blank <- ""

MCOwner == (a1 :> h1) @@ (a2 :> h2)

EmptyText == <<>>

OneLine  == {<<>>, <<"a">>, <<"b">>}
TwoLines == {<<>>} \cup {<< l, m >> : l \in {"a", "b"}, m \in {"x", "y"}}

\* merge3 over all texts of the run, evaluated once.
MergeTable == [b \in Text, o \in Text, t \in Text |-> MC!merge3(b, o, t)]

MCMerge3(b, o, t) == MergeTable[b, o, t]

NoSections(a, current, next) == FALSE

\* a1's section is the whole document, a2's is nested in it and holds the
\* second line. While the document is empty neither heading is there.
NestedSections(a, current, next) ==
  ~ /\ Len(current) = 2 /\ Len(next) = 2
    /\ a = a2 => current[1] = next[1]
\* The instances' texts meet the condition of the theorems on lines.
ASSUME LinesAssumption == MergeKeepsTheirs
=============================================================================
