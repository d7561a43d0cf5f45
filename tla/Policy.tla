------------------------------- MODULE Policy -------------------------------
(***************************************************************************)
(* The containment policy of AEGIS (aegis/policy): what an event of a      *)
(* run's stream asks for, the rules, and the decision.                     *)
(*                                                                         *)
(* A path is the sequence of its segments; all paths here are absolute. A  *)
(* command is the sequence of those of its words the policy tells apart:   *)
(* a path, a host, the opening of a here-document, a line that could close *)
(* one, and any other word.                                                *)
(***************************************************************************)
EXTENDS Integers, Sequences, SequencesExt

CONSTANTS
  Allowlisted,  \* hosts of egressAllowlist
  Private,      \* hosts that are private, loopback or link-local
  Marked,       \* segments that hold a vault marker
  SystemReads,  \* systemReadAllowlist
  Workspace,    \* the path the agent sees its workspace at
  RuleLists     \* the lists of rules an engine may be given, what their
                \* predicates say of a request included

ASSUME PolicyAssumption ==
  /\ \A path \in SystemReads \cup {Workspace} : path \in Seq(ToSet(path))
  /\ \A rules \in RuleLists :
       /\ rules \in Seq(ToSet(rules))
       /\ \A rule \in ToSet(rules) : /\ rule.effect \in {"Allow", "Deny"}
                                    /\ rule.matches \in {"yes", "no", "throws"}

Path(p)   == [kind |-> "path", path |-> p]
Host(h)   == [kind |-> "host", host |-> h]
Opens(t)  == [kind |-> "opens", tag |-> t]
Closes(t) == [kind |-> "closes", tag |-> t]
Plain     == [kind |-> "plain"]

-----------------------------------------------------------------------------
(* resource.ts                                                             *)

\* path.posix.normalize: above the root is the root.
canonical(p) ==
  FoldLeft(LAMBDA done, s : IF s = "." THEN done
                            ELSE IF s # ".." THEN Append(done, s)
                            ELSE IF done = <<>> THEN done ELSE Front(done),
           <<>>, p)

isInside(parent, child) == IsPrefix(canonical(parent), canonical(child))

(***************************************************************************)
(* Here-documents are dropped from right behind their opening to the line  *)
(* that closes them: the body, and the rest of the line of the opening     *)
(* with it. One that nothing closes takes the rest of the command. What is *)
(* before, the opening included, and after it is kept.                     *)
(***************************************************************************)
stripHeredocs(command) ==
  FoldLeft(LAMBDA done, w :
             IF done.open = {}
             THEN [kept |-> Append(done.kept, w),
                   open |-> IF w.kind = "opens" THEN {w.tag} ELSE {}]
             ELSE IF w.kind = "closes" /\ w.tag \in done.open
                  THEN [done EXCEPT !.open = {}]
                  ELSE done,
           [kept |-> <<>>, open |-> {}], command).kept

Once(found, x) == IF x \in ToSet(found) THEN found ELSE Append(found, x)

destinationsIn(command) ==
  FoldLeft(LAMBDA found, w : IF w.kind = "host" THEN Once(found, w.host) ELSE found,
           <<>>, command)

\* A slash alone is no path.
pathsIn(command) ==
  FoldLeft(LAMBDA found, w : IF w.kind = "path" /\ w.path # <<>>
                             THEN Once(found, canonical(w.path)) ELSE found,
           <<>>, command)

-----------------------------------------------------------------------------
(* extract.ts: what an event asks for, in order.                           *)

Request(action, resource) == [action |-> action, resource |-> resource]

Requests(action, resources) ==
  [i \in DOMAIN resources |-> Request(action, resources[i])]

\* Mutant: the hosts and paths of a command are looked for in all of it.
CommandRequestsWhole(command) ==
  << Request("proc.exec", command) >>
  \o Requests("net.connect", destinationsIn(command))
  \o Requests("fs.read", pathsIn(command))

CommandRequests(command) ==
  LET acting == stripHeredocs(command)
  IN  << Request("proc.exec", command) >>
      \o Requests("net.connect", destinationsIn(acting))
      \o Requests("fs.read", pathsIn(acting))

\* Changes of relative paths are left out.
ChangeRequests(changes) ==
  FoldLeft(LAMBDA found, c :
             IF c.absolute
             THEN Append(found, Request(IF c.change = "read" THEN "fs.read" ELSE "fs.write",
                                        canonical(c.path)))
             ELSE found,
           <<>>, changes)

extractRequests(event) ==
  CASE event.type = "command_execution" ->
         IF event.command = <<>> THEN <<>> ELSE CommandRequests(event.command)
    [] event.type = "file_change" -> ChangeRequests(event.changes)
    [] event.type = "web_search" -> Requests("net.connect", destinationsIn(event.query))
    [] event.type = "mcp_tool_call" -> << Request("proc.exec", << Plain >>) >>
    [] OTHER -> <<>>

-----------------------------------------------------------------------------
(* bundle.ts                                                               *)

namesVault(target) == \E i \in DOMAIN target : target[i] \in Marked

isSystemRead(target) == \E prefix \in SystemReads : isInside(prefix, target)

Reachable(host) == host \in Allowlisted /\ host \notin Private

Rule(id, effect, gate, matches) ==
  [id |-> id, effect |-> effect, gate |-> gate, matches |-> matches]

When(condition) == IF condition THEN "yes" ELSE "no"

\* The rules of G1, for a run whose agent holds workspace:rw, as
\* principalFor has it of every agent.
G1Rules(r) ==
  << Rule("KS-0.default-workspace-task", "Allow", "G1", When(r.action = "run.start")),
     Rule("KS-6.budget.exhausted", "Deny", "G1",
          When(r.action = "run.start" /\ r.resource = "over budget")) >>

NetRules(r) ==
  << Rule("KS-1.egress.deny-non-allowlisted", "Deny", "G3",
          When(r.action = "net.connect" /\ r.resource \notin Allowlisted)),
     Rule("KS-1.egress.deny-private-ranges", "Deny", "G3",
          When(r.action = "net.connect" /\ r.resource \in Private)) >>

IsFile(r) == r.action \in {"fs.read", "fs.write"}

FileDenials(r) ==
  << Rule("KS-2.vault.deny-any-access", "Deny", "G3",
          When(IsFile(r) /\ namesVault(r.resource))),
     Rule("KS-3.fs.deny-outside-workspace", "Deny", "G3",
          When(/\ IsFile(r) /\ ~isInside(Workspace, r.resource)
               /\ r.action = "fs.write" \/ ~isSystemRead(r.resource))) >>

Permits(r) ==
  << Rule("KS-0.fs.workspace-io", "Allow", "G3",
          When(IsFile(r) /\ isInside(Workspace, r.resource) /\ ~namesVault(r.resource))),
     Rule("KS-0.fs.system-read", "Allow", "G3",
          When(r.action = "fs.read" /\ isSystemRead(r.resource) /\ ~namesVault(r.resource))),
     Rule("KS-0.net.allowlisted", "Allow", "G3",
          When(r.action = "net.connect" /\ Reachable(r.resource))),
     Rule("KS-0.proc.exec", "Allow", "G3", When(r.action = "proc.exec")) >>

\* The rule that reads the whole command, the bodies of its here-documents too.
ExecDenial(r) ==
  Rule("KS-1.proc.deny-egress-tool-outside-allowlist", "Deny", "G3",
       When(/\ r.action = "proc.exec"
            /\ \E h \in ToSet(destinationsIn(r.resource)) : ~Reachable(h)))

createBundle(r) ==
  G1Rules(r) \o NetRules(r) \o FileDenials(r) \o Permits(r) \o << ExecDenial(r) >>

-----------------------------------------------------------------------------
(* engine.ts                                                               *)

Verdict(decision, rule) == [decision |-> decision, rule |-> rule]

DefaultDeny == Verdict("Deny", "AEGIS.default-deny")

\* Mutant: the first rule that matches decides.
FirstMatch(done, rule) ==
  IF done.over \/ rule.matches = "no" THEN done
  ELSE [over |-> TRUE, allow |-> {Verdict(rule.effect, rule.id)}]

\* One turn of evaluate's loop: a denial or a predicate that throws ends it,
\* of the rules that allow the first is kept.
Consider(done, rule) ==
  IF done.over \/ rule.matches = "no" THEN done
  ELSE IF rule.matches = "throws"
       THEN [over |-> TRUE, allow |-> {Verdict("Deny", "AEGIS.predicate-fault")}]
  ELSE IF rule.effect = "Deny"
       THEN [over |-> TRUE, allow |-> {Verdict("Deny", rule.id)}]
  ELSE [done EXCEPT !.allow = IF @ = {} THEN {Verdict("Allow", rule.id)} ELSE @]

\* The rules of other gates are left out.
evaluate(rules, gate) ==
  LET done == FoldLeft(LAMBDA d, rule : IF rule.gate = gate THEN Consider(d, rule) ELSE d,
                       [over |-> FALSE, allow |-> {}], rules)
  IN  IF done.allow = {} THEN DefaultDeny ELSE CHOOSE v \in done.allow : TRUE

\* The verdict of the first request that is denied, or none.
firstDenial(requests) ==
  LET Denied(r) == evaluate(createBundle(r), "G3").decision = "Deny"
      i == SelectInSeq(requests, Denied)
  IN  IF i = 0 THEN {} ELSE {evaluate(createBundle(requests[i]), "G3")}

\* Aegis.inspect
inspect(event) == firstDenial(extractRequests(event))
=============================================================================
