------------------------------ MODULE MCAegis ------------------------------
(***************************************************************************)
(* The safety log on a small instance, with the policy that stops its      *)
(* runs; and, each a state of its own, every small list of rules and every *)
(* small event the policy may be asked about.                              *)
(***************************************************************************)
EXTENDS Audit, TLC

CONSTANTS
  r1,
  MaxParts   \* bound: words and here-documents of a command

VARIABLE case

MCWorkspace   == << "ws", "a1" >>
MCSystemReads == {<< "usr" >>, << "etc", "ssl" >>}
Segments      == {"ws", "a1", "usr", "vault", "..", "."}

-----------------------------------------------------------------------------
(* The policy.                                                             *)

\* Lists of at most three rules of one gate or another, whose predicates
\* match, do not, or throw.
SomeRules ==
  UNION {[1 .. n -> [id : {"x"}, effect : {"Allow", "Deny"}, gate : {"G1", "G3"},
                     matches : {"yes", "no", "throws"}]] : n \in 0 .. 3}

(***************************************************************************)
(* Deny overrides on a default deny, whatever the order of the rules: a    *)
(* request is allowed when some rule of its gate allows it, none denies it *)
(* and no predicate throws (engine.ts:8-17).                               *)
(***************************************************************************)
DenyOverrides ==
  case.kind = "rules" =>
    \A gate \in {"G1", "G3"} :
      LET R == {rule \in ToSet(case.rules) : rule.gate = gate}
      IN  evaluate(case.rules, gate).decision = "Allow" <=>
            /\ \E rule \in R : rule.effect = "Allow" /\ rule.matches = "yes"
            /\ ~\E rule \in R : rule.effect = "Deny" /\ rule.matches = "yes"
            /\ ~\E rule \in R : rule.matches = "throws"

\* A segment counts when no later ".." takes it back.
Resolve(p) ==
  LET names(i, k) == Cardinality({j \in i .. k : p[j] \notin {".", ".."}})
      ups(i, k)   == Cardinality({j \in i .. k : p[j] = ".."})
      stays(i)    == /\ p[i] \notin {".", ".."}
                     /\ \A k \in i .. Len(p) : names(i, k) > ups(i, k)
      kept        == {i \in DOMAIN p : stays(i)}
      nth(n)      == CHOOSE i \in kept : Cardinality({j \in kept : j < i}) = n - 1
  IN  [n \in 1 .. Cardinality(kept) |-> p[nth(n)]]

Body(t, more, ws, closed) == [tag |-> t, rest |-> more, body |-> ws, closed |-> closed]

\* What stripHeredocs takes out of a here-document: the body, and what
\* stands behind the opening on its line.
Dropped(part) == part.rest \o part.body

\* A command as it was meant: words, and here-documents, each with the rest
\* of its opening line and its body.
TextOf(part) ==
  IF "body" \notin DOMAIN part THEN << part >>
  ELSE << Opens(part.tag) >> \o Dropped(part)
       \o (IF part.closed THEN << Closes(part.tag) >> ELSE <<>>)

OuterPaths == {<< >>, << "ws", "a1", "f" >>, << "ws", ".", "a1", "..", "a2" >>,
               << "usr", "..", "..", "usr" >>, << "etc", "ssl" >>, << "ws", "a1", "vault" >>}
OuterWords == {Path(p) : p \in OuterPaths} \cup {Host("ark"), Host("other"), Host("meta"),
               Plain, Closes("E")}
BodyWords  == {Path(<< "etc", "passwd" >>), Host("other"), Opens("F"), Closes("F")}
RestWords  == {Path(<< "etc", "passwd" >>), Path(<< "ws", "a1", "f" >>), Host("other")}
Documents(closed) ==
  UNION {{Body("E", more, ws, closed) : ws \in SeqOf(BodyWords, 1)} : more \in SeqOf(RestWords, 1)}
Bodies     == Documents(TRUE)
Unclosed   == Documents(FALSE)

Commands ==
  {s \in SeqOf(OuterWords \cup Bodies \cup Unclosed, MaxParts) :
     \A i \in DOMAIN s : s[i] \in Unclosed => i = Len(s)}

Paths == SeqOf(Segments, 3)

Within(directory, p) == IsPrefix(Resolve(directory), Resolve(p))

MayWrite(p) == ToSet(Resolve(p)) \cap Marked = {} /\ Within(Workspace, p)

MayRead(p) ==
  /\ ToSet(Resolve(p)) \cap Marked = {}
  /\ Within(Workspace, p) \/ \E s \in SystemReads : Within(s, p)

Harmless(w) ==
  /\ w.kind = "path" => w.path = <<>> \/ MayRead(w.path)
  /\ w.kind = "host" => w.host \in Allowlisted \ Private

Documented(c) == {i \in DOMAIN c : "body" \in DOMAIN c[i]}

\* What a command says outside of here-documents; what of it acts, the rest
\* of their opening lines included; and what is dropped with them.
Scanned(c) == {c[i] : i \in DOMAIN c \ Documented(c)}

Hidden(c) == UNION {ToSet(Dropped(c[i])) : i \in Documented(c)}

Acting(c) == Scanned(c) \cup UNION {ToSet(c[i].rest) : i \in Documented(c)}

Command(c) ==
  [type |-> "command_execution", command |-> FlattenSeq([i \in DOMAIN c |-> TextOf(c[i])])]

Changes(cs) == [type |-> "file_change", changes |-> cs]

Change(p, how, whole) == [absolute |-> whole, change |-> how, path |-> p]

SomeChanges ==
  {<< c >> : c \in [absolute : BOOLEAN, change : {"read", "update"}, path : Paths]}
  \cup {<< Change(<< "ws", "a1" >>, "update", TRUE), Change(p, "read", TRUE) >> : p \in Paths}

\* No host or path that matters, and no host that KS-1's rule on whole
\* commands finds in what is dropped.
AreHarmless(c, words) ==
  /\ \A w \in words : Harmless(w)
  /\ \A w \in Hidden(c) : w.kind = "host" => Harmless(w)

ChangeIsHarmless(c) ==
  c.absolute => IF c.change = "read" THEN MayRead(c.path) ELSE MayWrite(c.path)

(***************************************************************************)
(* A run is stopped exactly for what the policy is shown of it: a host or  *)
(* a path its command names outside of here-documents, or a file it        *)
(* changes, that is not permitted, wherever "." and ".." lead; and for the *)
(* hosts that KS-1's rule on whole commands finds inside of them           *)
(* (extract.ts, bundle.ts together). What stands behind "<< E" on its own  *)
(* line is inside for stripHeredocs: a path there stops no run, see        *)
(* StoppedForWhatItDoes. At G1 a run is refused for its cost only.         *)
(***************************************************************************)
StoppedForWhatIsScanned ==
  /\ case.kind = "command" =>
       (inspect(Command(case.parts)) = {} <=> AreHarmless(case.parts, Scanned(case.parts)))
  /\ case.kind = "search" =>
       (inspect([type |-> "web_search", query |-> case.query]) = {}
          <=> \A w \in ToSet(case.query) : Harmless(w))
  /\ case.kind = "other" => inspect([type |-> case.type]) = {}
  /\ case.kind = "start" =>
       (evaluate(createBundle(Request("run.start", case.cost)), "G1").decision = "Allow"
          <=> case.cost = "within budget")
  /\ case.kind = "change" =>
       (inspect(Changes(case.changes)) = {} <=> \A c \in ToSet(case.changes) : ChangeIsHarmless(c))

(***************************************************************************)
(* "What survives the strip is everything that actually acts: the command  *)
(* name, its flags, and the redirect target ... only the inert body        *)
(* between the delimiters is dropped" (resource.ts:148-151): a run is      *)
(* stopped for a path on the opening line of a here-document too. It is    *)
(* not: the strip starts right behind the opening (resource.ts:162-169).   *)
(***************************************************************************)
StoppedForWhatItDoes ==
  case.kind = "command" =>
    (inspect(Command(case.parts)) = {} <=> AreHarmless(case.parts, Acting(case.parts)))

\* "a here-document body is content, not a command" (aegis/policy.test.ts:382-388).
BodiesAreContent ==
  case.kind = "command" =>
    ((\A w \in Acting(case.parts) : Harmless(w)) => inspect(Command(case.parts)) = {})

MCLines == {Command(<< Path(<< "ws", "a1", "f" >>), Host("ark") >>),
            Changes(<< Change(<< "etc" >>, "update", TRUE) >>)}

-----------------------------------------------------------------------------
Cases ==
  [kind : {"rules"}, rules : RuleLists]
  \cup [kind : {"command"}, parts : Commands]
  \cup [kind : {"change"}, changes : SomeChanges]
  \cup [kind : {"other"}, type : {"mcp_tool_call", "agent_message"}]
  \cup [kind : {"start"}, cost : {"within budget", "over budget"}]
  \cup [kind : {"search"}, query : SeqOf({Host("ark"), Host("other"), Host("meta"), Plain}, 2)]

MCInit == Init /\ case \in Cases \cup {[kind |-> "log"]}

MCNext == case.kind = "log" /\ Next /\ UNCHANGED case

MCSpec == MCInit /\ [][MCNext]_<< vars, case >> /\ WF_<< vars, case >>(Write /\ UNCHANGED case)
=============================================================================
