----------------------------- MODULE Provenance -----------------------------
(***************************************************************************)
(* Line provenance, concord/provenance.ts: one entry for each line of a    *)
(* document, naming who last changed it and in which version. Line and     *)
(* contribution ids and the column of the caret are left out.              *)
(***************************************************************************)
EXTENDS Merge

NoOne == [agent |-> "none", human |-> "none"]   \* lastModifiedBy... null

\* Whom the store names: the agent of a write, the human of an edit by hand,
\* and for a decision the human too, but in the place of the agent.
AgentWrite(a) == [agent |-> a, human |-> "none"]
HumanEdit(h)  == [agent |-> "none", human |-> h]
Decision(h)   == [agent |-> h, human |-> "none"]

seedProvenance(lines, version) ==
  [i \in DOMAIN lines |-> [by |-> NoOne, version |-> version]]

\* Mutant: a replaced line keeps the entry of the line it replaces.
AttributedKept(hunk, previous, by, version) ==
  [hunk EXCEPT !.inserted = [n \in DOMAIN @ |->
     IF n <= hunk.deleted THEN previous[hunk.start + n]
                          ELSE [by |-> by, version |-> version]]]

\* attribute(): the lines a hunk inserts are the writer's.
Attributed(hunk, previous, by, version) ==
  [hunk EXCEPT !.inserted = [n \in DOMAIN @ |-> [by |-> by, version |-> version]]]

\* The hunks of the diff are applied to the entries as they are to the lines:
\* what the diff leaves alone is carried, what it deletes is gone.
reconcileProvenance(previous, previousLines, nextLines, by, version) ==
  ApplyHunks(previous, {Attributed(hunk, previous, by, version) :
                          hunk \in ToSet(diffLines(previousLines, nextLines))})

\* Who a comment on these lines may be sent to, and who it is sent to unless
\* the human chooses: the only one.
CandidateAgents(lines, startLine, endLine) ==
  {lines[i].by.agent : i \in (startLine .. endLine) \cap DOMAIN lines} \ {"none"}

RecommendedAgent(lines, startLine, endLine) ==
  LET agents == CandidateAgents(lines, startLine, endLine)
  IN  IF Cardinality(agents) = 1 THEN CHOOSE a \in agents : TRUE ELSE "none"
=============================================================================
