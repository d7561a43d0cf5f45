----------------------------- MODULE Containment -----------------------------
(***************************************************************************)
(* AEGIS around the runner: what GuardedAgentRunner.run does for a run,    *)
(* cut at its awaits, on the state all runs share - the kill latch, the    *)
(* circuit breakers, the budget ledger, the slots, the capabilities and    *)
(* the runner's one process per agent. All of it is in memory.             *)
(*                                                                         *)
(* Amounts are whole units of cost. Clocks are left out: the cooldown of a *)
(* breaker is over at any moment.                                          *)
(***************************************************************************)
EXTENDS Naturals, FiniteSets, FiniteSetsExt, Functions

CONSTANTS
  Agents,
  Runs,             \* calls of the guarded runner
  AgentOf,          \* the agent of each
  MaxRuns,          \* maxConcurrentRuns
  AgentBudget,      \* agentBudgetUsd
  TenantBudget,     \* tenantBudgetUsd
  MinEstimate,      \* minEstimateUsd
  Costs,            \* what the usage of a run that completes may come to
  Unsafe,           \* agents whose events a rule of G3 may deny
  MaxTroubles,      \* bound: kill switch armed, vault changed, measurement failed
  None              \* null

ASSUME ContainmentAssumption ==
  /\ IsFiniteSet(Agents) /\ IsFiniteSet(Runs)
  /\ AgentOf \in [Runs -> Agents] /\ None \notin Runs
  /\ MaxRuns \in Nat /\ AgentBudget \in Nat /\ TenantBudget \in Nat
  /\ MinEstimate \in Nat /\ Costs \subseteq Nat
  /\ Unsafe \subseteq Agents /\ MaxTroubles \in Nat

VARIABLES
  latch,      \* KillLatch.armed
  breaker,    \* BreakerRegistry.entries
  ledger,     \* BudgetLedger.agents
  tenant,     \* its tenantSettledUsd and tenantReservedUsd
  slots,      \* Aegis.liveRuns: agents, not runs
  caps,       \* Aegis.capabilities: the runs whose token is worth something
  process,    \* the inner runner's active process of each agent
  cancelled,  \* runs whose process was told to stop
  safety,     \* lastSafety: the attestation of the agent's last settled run
  vault,      \* the content of the protected asset
  pep,        \* where each run is in GuardedAgentRunner.run
  lost,       \* history: reservations of runs whose measurement threw
  troubles

budget == << ledger, tenant, lost >>
pdp    == << latch, breaker >>
inner  == << process, cancelled >>
world  == << vault, troubles >>
cvars  == << pdp, budget, slots, caps, inner, safety, pep, world >>

Steps    == {"out", "measuring", "running", "settling", "failing", "over"}
Outcomes == {"none", "completed", "failed", "cancelled", "blocked", "killed"}

Pep == [at : Steps, pre : Nat, reserved : Nat, outcome : Outcomes, cost : Nat]

OutPep == [at |-> "out", pre |-> 0, reserved |-> 0, outcome |-> "none", cost |-> 0]

Breaker == [circuit : {"closed", "open", "half"}, probe : {"none", "flying"}]

Closed == [circuit |-> "closed", probe |-> "none"]

Memory(l, b, g, t) ==
  /\ l = "clear" /\ b = [a \in Agents |-> Closed]
  /\ g = [a \in Agents |-> [settled |-> 0, reserved |-> 0, runs |-> 0]]
  /\ t = [settled |-> 0, reserved |-> 0]

CInit ==
  /\ Memory(latch, breaker, ledger, tenant)
  /\ slots = {} /\ caps = {} /\ cancelled = {}
  /\ process = [a \in Agents |-> None]
  /\ safety = [a \in Agents |-> "none"]
  /\ vault = 0
  /\ pep = [r \in Runs |-> OutPep]
  /\ lost = [a \in Agents |-> 0]
  /\ troubles = 0

\* The run r is now as record p says.
Becomes(r, p) == pep' = [pep EXCEPT ![r] = p]

Ends(r, outcome) == Becomes(r, [pep[r] EXCEPT !.at = "over", !.outcome = outcome])

-----------------------------------------------------------------------------
(* The budget ledger: reserve, settle, release.                            *)

AtLeast(low, n) == IF n < low THEN low ELSE n

Minus(n, m) == IF n < m THEN 0 ELSE n - m

\* The trailing mean with the safety factor 1.5, floored.
Estimate(a) ==
  AtLeast(MinEstimate,
          IF ledger[a].runs = 0 THEN 0
          ELSE (3 * ledger[a].settled) \div (2 * ledger[a].runs))

Remaining(a) ==
  LET own    == Minus(AgentBudget, ledger[a].settled + ledger[a].reserved)
      shared == Minus(TenantBudget, tenant.settled + tenant.reserved)
  IN  IF own < shared THEN own ELSE shared

Reserve(a, amount) ==
  /\ ledger' = [ledger EXCEPT ![a].reserved = @ + amount]
  /\ tenant' = [tenant EXCEPT !.reserved = @ + amount]

Release(a, amount) ==
  /\ ledger' = [ledger EXCEPT ![a].reserved = Minus(@, amount)]
  /\ tenant' = [tenant EXCEPT !.reserved = Minus(@, amount)]

\* Mutant: the reservation of a run without usage is not given back.
SettledSpent(a, amount, cost) ==
  LET back == IF cost = 0 THEN 0 ELSE amount
  IN  /\ ledger' = [ledger EXCEPT ![a] = [settled |-> @.settled + cost,
                                          reserved |-> Minus(@.reserved, back),
                                          runs |-> @.runs + 1]]
      /\ tenant' = [settled |-> tenant.settled + cost,
                    reserved |-> Minus(tenant.reserved, back)]

Settled(a, amount, cost) ==
  /\ ledger' = [ledger EXCEPT ![a] = [settled |-> @.settled + cost,
                                      reserved |-> Minus(@.reserved, amount),
                                      runs |-> @.runs + 1]]
  /\ tenant' = [settled |-> tenant.settled + cost,
                reserved |-> Minus(tenant.reserved, amount)]

-----------------------------------------------------------------------------
(* The circuit breaker.                                                    *)

Admits(a) ==
  /\ breaker[a].circuit # "open"
  /\ breaker[a].circuit = "half" => breaker[a].probe = "none"

\* The state after an admits that answered true: a half-open breaker
\* remembers the probe.
Probed(a) ==
  [breaker EXCEPT ![a].probe = IF breaker[a].circuit = "half" THEN "flying" ELSE @]

\* recordViolation: bootstrap passes DEFAULT_BREAKER, whose threshold is 1,
\* so that one violation opens it and the window of violations never counts.
Violated(a) == [breaker EXCEPT ![a] = [circuit |-> "open", probe |-> "none"]]

-----------------------------------------------------------------------------
(* GuardedAgentRunner.run                                                  *)

\* G1 refuses: the latch, the breaker, or the policy with the budget - in
\* that order, and the breaker has marked its probe by the third.
Refuse(r) ==
  LET a == AgentOf[r]
  IN  /\ pep[r].at = "out"
      /\ \/ (latch = "armed" \/ ~Admits(a)) /\ UNCHANGED breaker
         \/ latch = "clear" /\ Admits(a) /\ Estimate(a) > Remaining(a) /\ breaker' = Probed(a)
      /\ Ends(r, "blocked")
      /\ UNCHANGED << latch, budget, slots, caps, inner, safety, world >>

\* G1 admits, and waits for the measurement of the vault.
Admit(r) ==
  LET a == AgentOf[r]
  IN  /\ pep[r].at = "out"
      /\ latch = "clear" /\ Admits(a) /\ Estimate(a) <= Remaining(a)
      /\ breaker' = Probed(a)
      /\ Reserve(a, Estimate(a))
      /\ Becomes(r, [pep[r] EXCEPT !.at = "measuring", !.reserved = Estimate(a)])
      /\ UNCHANGED << latch, lost, slots, caps, inner, safety, world >>

Trouble == troubles < MaxTroubles /\ troubles' = troubles + 1

\* attest throws: nothing has been set up that would give anything back.
MeasureFails(r) ==
  LET a == AgentOf[r]
  IN  /\ pep[r].at = "measuring" /\ Trouble
      /\ lost' = [lost EXCEPT ![a] = @ + pep[r].reserved]
      /\ Ends(r, "failed")
      /\ UNCHANGED << pdp, ledger, tenant, slots, caps, inner, safety, vault >>

HasSlot == Cardinality(slots) < MaxRuns

\* Measured, but every slot is taken - even when one is this agent's own.
NoSlot(r) ==
  /\ pep[r].at = "measuring" /\ ~HasSlot
  /\ Release(AgentOf[r], pep[r].reserved)
  /\ Ends(r, "blocked")
  /\ UNCHANGED << pdp, lost, slots, caps, inner, safety, world >>

\* Measured, but the latch was armed meanwhile. The slot stays taken.
Latched(r) ==
  LET a == AgentOf[r]
  IN  /\ pep[r].at = "measuring" /\ HasSlot /\ latch = "armed"
      /\ slots' = slots \cup {a}
      /\ Release(a, pep[r].reserved)
      /\ Ends(r, "blocked")
      /\ UNCHANGED << pdp, lost, caps, inner, safety, world >>

\* Mutant: the latch is checked at admission only.
EnterUnchecked(r) ==
  LET a == AgentOf[r]
  IN  /\ pep[r].at = "measuring" /\ HasSlot /\ process[a] = None
      /\ slots' = slots \cup {a} /\ caps' = caps \cup {r}
      /\ process' = [process EXCEPT ![a] = r]
      /\ Becomes(r, [pep[r] EXCEPT !.at = "running", !.pre = vault])
      /\ UNCHANGED << pdp, budget, cancelled, safety, world >>

\* The process starts, unless the agent has one: then inner.run throws and
\* the run is settled as an ordinary failure.
Enter(r) ==
  LET a == AgentOf[r]
  IN  /\ pep[r].at = "measuring" /\ HasSlot /\ latch = "clear"
      /\ slots' = slots \cup {a} /\ caps' = caps \cup {r}
      /\ \/ /\ process[a] = None
            /\ process' = [process EXCEPT ![a] = r]
            /\ Becomes(r, [pep[r] EXCEPT !.at = "running", !.pre = vault])
         \/ /\ process[a] # None
            /\ Becomes(r, [pep[r] EXCEPT !.at = "settling", !.pre = vault, !.outcome = "failed"])
            /\ UNCHANGED process
      /\ UNCHANGED << pdp, budget, cancelled, safety, world >>

\* The process ends by itself, by its time or output limit, because it was
\* told to, or because a rule denied one of its events.
ProcessEnds(r) ==
  LET a == AgentOf[r]
  IN  /\ pep[r].at = "running"
      /\ process' = [process EXCEPT ![a] = None]
      /\ \/ /\ r \notin cancelled
            /\ \E c \in Costs :
                 Becomes(r, [pep[r] EXCEPT !.at = "settling", !.outcome = "completed", !.cost = c])
            /\ UNCHANGED breaker
         \/ /\ r \notin cancelled
            /\ Becomes(r, [pep[r] EXCEPT !.at = "settling", !.outcome = "failed"])
            /\ UNCHANGED breaker
         \/ /\ r \in cancelled
            /\ Becomes(r, [pep[r] EXCEPT !.at = "settling", !.outcome = "cancelled"])
            /\ UNCHANGED breaker
         \/ /\ a \in Unsafe
            /\ Becomes(r, [pep[r] EXCEPT !.at = "settling", !.outcome = "killed"])
            /\ breaker' = Violated(a)
      /\ UNCHANGED << latch, budget, slots, caps, cancelled, safety, world >>

\* The finally: the agent's slot and the run's token.
Forget(r) == slots' = slots \ {AgentOf[r]} /\ caps' = caps \ {r}

(***************************************************************************)
(* finish: the vault is measured again, the ledger settled, the latch      *)
(* armed when the vault changed. Every run that was not killed and left it *)
(* intact counts as a success of the breaker, one that failed too.         *)
(***************************************************************************)
Finish(r) ==
  LET a      == AgentOf[r]
      intact == vault = pep[r].pre
  IN  /\ pep[r].at \in {"settling", "failing"}
      /\ Settled(a, pep[r].reserved, pep[r].cost)
      /\ latch' = IF intact THEN latch ELSE "armed"
      /\ breaker' = IF intact /\ pep[r].outcome # "killed"
                    THEN [breaker EXCEPT ![a] = Closed] ELSE breaker
      /\ safety' = [safety EXCEPT ![a] = IF intact THEN "intact" ELSE "changed"]
      /\ Forget(r)
      /\ Ends(r, pep[r].outcome)
      /\ UNCHANGED << lost, inner, world >>

\* Mutant: a token is revoked by a run that settles only.
FinishFailsHeld(r) ==
  LET a == AgentOf[r]
  IN  /\ pep[r].at \in {"settling", "failing"} /\ Trouble
      /\ lost' = [lost EXCEPT ![a] = @ + pep[r].reserved]
      /\ slots' = slots \ {a}
      /\ Ends(r, "failed")
      /\ UNCHANGED << pdp, ledger, tenant, caps, inner, safety, vault >>

\* The measurement throws. In the try that leads to the catch, which settles
\* again, now without the usage; in the catch nothing is settled.
FinishFails(r) ==
  LET a == AgentOf[r]
  IN  /\ pep[r].at \in {"settling", "failing"} /\ Trouble
      /\ \/ /\ pep[r].at = "settling" /\ pep[r].outcome = "completed"
            /\ Becomes(r, [pep[r] EXCEPT !.at = "failing", !.outcome = "failed", !.cost = 0])
            /\ UNCHANGED << slots, caps, lost >>
         \/ /\ pep[r].at = "failing" \/ pep[r].outcome # "completed"
            /\ lost' = [lost EXCEPT ![a] = @ + pep[r].reserved]
            /\ Forget(r)
            /\ Ends(r, "failed")
      /\ UNCHANGED << pdp, ledger, tenant, inner, safety, vault >>

\* cancel, up to its await: a run without a process is not told anything.
Cancel(a) == cancelled' = cancelled \cup ({process[a]} \ {None})

-----------------------------------------------------------------------------
(* The operator, the clock and the world.                                  *)

Arm ==
  /\ latch = "clear" /\ latch' = "armed" /\ Trouble
  /\ UNCHANGED << breaker, budget, slots, caps, inner, safety, pep, vault >>

Disarm ==
  /\ latch = "armed" /\ latch' = "clear"
  /\ UNCHANGED << breaker, budget, slots, caps, inner, safety, pep, world >>

CooldownPasses(a) ==
  /\ breaker[a].circuit = "open"
  /\ breaker' = [breaker EXCEPT ![a].circuit = "half"]
  /\ UNCHANGED << latch, budget, slots, caps, inner, safety, pep, world >>

VaultChanges ==
  /\ vault' = vault + 1 /\ Trouble
  /\ UNCHANGED << pdp, budget, slots, caps, inner, safety, pep >>

\* The server process ends and starts again: bootstrap makes a new Aegis and
\* the runner's map is empty. (Nothing reaps at boot; a container that
\* outlives the server holds a token that is worth nothing.)
Reboot ==
  /\ Memory(latch', breaker', ledger', tenant')
  /\ slots' = {} /\ caps' = {} /\ cancelled' = {}
  /\ process' = [a \in Agents |-> None]
  /\ safety' = [a \in Agents |-> "none"]
  /\ lost' = [a \in Agents |-> 0]
  /\ pep' = [r \in Runs |-> IF pep[r].at = "out" THEN OutPep
                            ELSE [OutPep EXCEPT !.at = "over"]]
  /\ UNCHANGED world

RunStep(r) ==
  \/ MeasureFails(r) \/ NoSlot(r) \/ Latched(r) \/ Enter(r)
  \/ ProcessEnds(r) \/ Finish(r) \/ FinishFails(r)

Around ==
  \/ Arm \/ Disarm \/ VaultChanges
  \/ \E a \in Agents : CooldownPasses(a)

CancelStep(a) ==
  /\ Cancel(a)
  /\ UNCHANGED << pdp, budget, slots, caps, process, safety, pep, world >>

CNext ==
  \/ \E r \in Runs : Refuse(r) \/ Admit(r) \/ RunStep(r)
  \/ \E a \in Agents : CancelStep(a)
  \/ Around \/ Reboot

CSpec == CInit /\ [][CNext]_cvars

-----------------------------------------------------------------------------
Live(r) == pep[r].at \in {"measuring", "running", "settling", "failing"}

\* What each run has reserved.
Held == [r \in Runs |-> IF Live(r) THEN pep[r].reserved ELSE 0]

\* Type correctness of everything AEGIS and the runner keep.
ContainmentTypeOK ==
  /\ latch \in {"clear", "armed"}
  /\ breaker \in [Agents -> Breaker]
  /\ ledger \in [Agents -> [settled : Nat, reserved : Nat, runs : Nat]]
  /\ tenant \in [settled : Nat, reserved : Nat]
  /\ slots \subseteq Agents /\ caps \subseteq Runs
  /\ process \in [Agents -> Runs \cup {None}]
  /\ cancelled \subseteq Runs
  /\ safety \in [Agents -> {"none", "intact", "changed"}]
  /\ vault \in Nat /\ pep \in [Runs -> Pep]
  /\ lost \in [Agents -> Nat] /\ troubles \in 0 .. MaxTroubles

(***************************************************************************)
(* A capability is worth something exactly while its run is in the try of  *)
(* run: it dies on every way out, by a result, an error, a denial, the     *)
(* kill switch, a measurement that throws in the settlement, a restart.    *)
(* And each process belongs to one run that holds one. (forgetRun;         *)
(* nothing is said of slots here, which do not keep to their runs.)        *)
(***************************************************************************)
CapabilitiesDieWithTheRun ==
  /\ caps = {r \in Runs : pep[r].at \in {"running", "settling", "failing"}}
  /\ \A a \in Agents, r \in Runs :
       process[a] = r <=> AgentOf[r] = a /\ pep[r].at = "running"

(***************************************************************************)
(* The ledger's reservations are those of the runs that are under way, in  *)
(* each agent's account and in the tenant's, after any interleaving of     *)
(* admissions, refusals and ends; but for the runs whose measurement       *)
(* threw, whose reservation no exit path gives back.                       *)
(***************************************************************************)
ReservationsAreOfLiveRuns ==
  /\ \A a \in Agents :
       ledger[a].reserved = SumFunctionOnSet(Held, {r \in Runs : AgentOf[r] = a}) + lost[a]
  /\ tenant.reserved = SumFunctionOnSet(Held, Runs) + SumFunctionOnSet(lost, Agents)

(***************************************************************************)
(* While the kill switch stays armed no process starts: not one that was   *)
(* admitted before, and waited for its measurement while it was armed.     *)
(***************************************************************************)
ArmedLatchStartsNothing ==
  [][latch = "armed" =>
       \A a \in Agents : process'[a] # process[a] => process'[a] = None]_cvars

(***************************************************************************)
(* aegis/index.ts:110 "T6 - concurrency limit. Held for the life of a      *)
(* run". Refuted in both directions. A slot can be left without a run: the *)
(* re-check of the latch comes after acquireSlot and before the try whose  *)
(* finally releases it. And a process can be left without a slot: slots    *)
(* are agents, so the first of two runs of one agent to end frees it for   *)
(* both (guarded-runner.ts:252).                                           *)
(***************************************************************************)
SlotsAreOfLiveRuns ==
  \A a \in slots : \E r \in Runs : AgentOf[r] = a /\ Live(r)

ProcessesHoldSlots == \A a \in Agents : process[a] # None => a \in slots
=============================================================================
