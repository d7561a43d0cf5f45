------------------------------ MODULE Sections ------------------------------
(***************************************************************************)
(* Section ownership, concord/sections.ts: each agent is allocated the     *)
(* section of one heading, and the store refuses a write whose diff leaves *)
(* it. Line numbers are 1-based and ranges inclusive, as in the code; a    *)
(* line is compared as a whole, where the code ignores blanks around it.   *)
(***************************************************************************)
EXTENDS Merge

CONSTANT Level   \* headingLevel of each line: 0 when it is no heading

ASSUME LevelAssumption == Level \in [Line -> 0 .. 6]

NoRange == [startLine |-> 0, endLine |-> 0]

\* The first line that reads like the heading, up to the next heading that is
\* not nested in it. An anchor that is no heading is closed by any heading.
locateSection(lines, heading) ==
  LET at        == {i \in DOMAIN lines : lines[i] = heading}
      level     == Level[heading]
      closes(i) == Level[lines[i]] > 0 /\ (level = 0 \/ Level[lines[i]] <= level)
      ends      == {i - 1 : i \in {k \in DOMAIN lines : k > Min(at) /\ closes(k)}}
  IN  IF at = {} THEN NoRange
      ELSE [startLine |-> Min(at), endLine |-> Min(ends \cup {Len(lines)})]

\* Mutant: an insertion is allowed one line further down.
OutsideByOne(hunk, range) ==
  \/ hunk.start + 1 < range.startLine
  \/ IF hunk.deleted > 0 THEN hunk.start + hunk.deleted > range.endLine
                         ELSE hunk.start > range.endLine + 1

\* An insertion lands before the line it is charged to, so one that appends
\* to the section is charged to the line after it.
Outside(hunk, range) ==
  \/ hunk.start + 1 < range.startLine
  \/ IF hunk.deleted > 0 THEN hunk.start + hunk.deleted > range.endLine
                         ELSE hunk.start + 1 > range.endLine + 1

findOutOfBounds(previous, next, range) ==
  \E hunk \in ToSet(diffLines(previous, next)) : Outside(hunk, range)

\* outOfBounds of SharedDocStore.write, for an agent that is allocated the
\* heading: what is committed is compared with the document as it is then.
StaysInside(content, next, heading) ==
  LET range == locateSection(content, heading)
  IN  range # NoRange /\ ~findOutOfBounds(content, next, range)
=============================================================================
