------------------------------- MODULE DocLog -------------------------------
(***************************************************************************)
(* What a shared document promises: a log of committed texts that only     *)
(* grows, one entry at a time, and a set of agents whose edit lost and is  *)
(* "kept until a human settles it". A dispute is settled together with a   *)
(* commit, by a human entitled to it, and settles nobody else's.           *)
(***************************************************************************)
EXTENDS Sequences

CONSTANTS
  Agents, Humans,
  Text,     \* what may be committed
  Judges    \* the humans who may settle each agent's dispute

VARIABLES
  log,      \* the committed texts with their authors, oldest first
  disputed  \* the agents with an unsettled dispute

Record(author, text) == log' = Append(log, [author |-> author, text |-> text])

Init == log = <<>> /\ disputed = {}

Write(author, text) == Record(author, text) /\ UNCHANGED disputed

Dispute(a) == disputed' = disputed \cup {a} /\ UNCHANGED log

Settle(a, h, text) ==
  /\ a \in disputed
  /\ h \in Judges[a]
  /\ Record(h, text)
  /\ disputed' = disputed \ {a}

Next ==
  \/ \E author \in Agents \cup Humans, text \in Text : Write(author, text)
  \/ \E a \in Agents : Dispute(a)
  \/ \E a \in Agents, h \in Humans, text \in Text : Settle(a, h, text)

Spec == Init /\ [][Next]_<< log, disputed >>
=============================================================================
