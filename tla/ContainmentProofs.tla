------------------------- MODULE ContainmentProofs -------------------------
(***************************************************************************)
(* For any agents, runs, budgets and number of slots: capabilities die     *)
(* with their run, processes hold slots, the ledger balances, an armed     *)
(* latch starts nothing; the agent service, whatever it does, only takes   *)
(* these steps; and with its queue of mutations, an agent is busy only     *)
(* while something works on it, and results are final.                     *)
(***************************************************************************)
EXTENDS AgentService, FiniteSetTheorems, WellFoundedInduction, TLAPS

-----------------------------------------------------------------------------
(* Sums of the values of a function, as the community modules define them. *)

LEMMA Least ==
  ASSUME NEW T, T \subseteq Nat, T # {}
  PROVE  \E m \in T : \A n \in T : m <= n
<1>1. IsWellFoundedOn(OpToRel(<, Nat), Nat)
  BY NatLessThanWellFounded
<1>2. \E m \in T : \A n \in T : ~(<<n, m>> \in OpToRel(<, Nat))
  BY <1>1, WFMin
<1>3. \A m, n \in Nat : n < m => <<n, m>> \in OpToRel(<, Nat)
  BY DEF OpToRel
<1>4. PICK m \in T : \A n \in T : ~(<<n, m>> \in OpToRel(<, Nat))
  BY <1>2
<1>5. \A n \in T : ~(n < m)
  BY <1>3, <1>4
<1> QED BY <1>5

LEMMA Induction ==
  ASSUME NEW N, 0 \in N, \A n \in Nat : n \in N => n + 1 \in N
  PROVE  Nat \subseteq N
<1> DEFINE T == Nat \ N
<1> SUFFICES ASSUME T # {}
             PROVE  FALSE
  OBVIOUS
<1>1. PICK m \in T : \A n \in T : m <= n
  BY Least
<1>2. m # 0 /\ m \in Nat
  BY <1>1
<1>3. m - 1 \in Nat /\ m - 1 \notin T
  BY <1>1, <1>2
<1> QED BY <1>1, <1>2, <1>3

\* A fact about the subsets of a finite set holds of all when it carries over
\* from the smaller subsets of s to s.
LEMMA SubsetInduction ==
  ASSUME NEW S, IsFiniteSet(S), NEW Good,
         \A s \in SUBSET S : (\A t \in SUBSET s : t # s => t \in Good) => s \in Good
  PROVE  \A s \in SUBSET S : s \in Good
<1> DEFINE N == {n \in Nat : \A s \in SUBSET S : Cardinality(s) < n => s \in Good}
<1>1. ASSUME NEW s \in SUBSET S
      PROVE  IsFiniteSet(s) /\ Cardinality(s) \in Nat
  BY FS_Subset, FS_CardinalityType
<1>2. 0 \in N
  <2>1. \A s \in SUBSET S : ~(Cardinality(s) < 0)
    BY <1>1
  <2> QED BY <2>1
<1>3. ASSUME NEW n \in Nat, n \in N
      PROVE  n + 1 \in N
  <2> SUFFICES ASSUME NEW s \in SUBSET S, Cardinality(s) < n + 1
               PROVE  s \in Good
    OBVIOUS
  <2>1. ASSUME NEW t \in SUBSET s, t # s
        PROVE  t \in Good
    <3>1. IsFiniteSet(s) /\ Cardinality(s) \in Nat
      BY <1>1
    <3>2. t \in SUBSET S
      OBVIOUS
    <3>3. Cardinality(t) \in Nat
      BY <1>1, <3>2
    <3>4. Cardinality(t) < Cardinality(s)
      BY <2>1, <3>1, <3>3, FS_Subset
    <3>5. Cardinality(t) < n
      BY <3>1, <3>3, <3>4
    <3> QED BY <1>3, <3>2, <3>5
  <2> QED BY <2>1
<1>4. Nat \subseteq N
  <2> HIDE DEF N
  <2> QED BY <1>2, <1>3, Induction
<1> SUFFICES ASSUME NEW s \in SUBSET S
             PROVE  s \in Good
  OBVIOUS
<1>5. Cardinality(s) \in Nat
  BY <1>1
<1>6. Cardinality(s) + 1 \in N
  BY <1>4, <1>5
<1> QED BY <1>5, <1>6

Chosen(s) == CHOOSE x \in s : TRUE

\* f sums the weights w over the subsets of S.
Sums(w, S, f) ==
  f = [s \in SUBSET S |-> IF s = {} THEN 0 ELSE w[Chosen(s)] + f[s \ {Chosen(s)}]]

LEMMA SumIs ==
  ASSUME NEW w, NEW S
  PROVE  SumFunctionOnSet(w, S) = (CHOOSE f : Sums(w, S, f))[S]
BY DEF SumFunctionOnSet, FoldFunctionOnSet, MapThenFoldSet, Chosen, Sums

\* There is one such function.
LEMMA SumsExist ==
  ASSUME NEW w, NEW S, IsFiniteSet(S)
  PROVE  \E f : Sums(w, S, f)
<1> DEFINE Few(n)     == {s \in SUBSET S : Cardinality(s) <= n}
           Val(s, f)  == IF s = {} THEN 0 ELSE w[Chosen(s)] + f[s \ {Chosen(s)}]
           N          == {n \in Nat : \E f : f = [s \in Few(n) |-> Val(s, f)]}
<1>1. ASSUME NEW s \in SUBSET S
      PROVE  IsFiniteSet(s) /\ Cardinality(s) \in Nat
  BY FS_Subset, FS_CardinalityType
<1>2. ASSUME NEW s \in SUBSET S, s # {}
      PROVE  /\ Chosen(s) \in s
             /\ s \ {Chosen(s)} \in SUBSET S
             /\ Cardinality(s \ {Chosen(s)}) = Cardinality(s) - 1
  <2>1. Chosen(s) \in s
    BY <1>2 DEF Chosen
  <2>2. IsFiniteSet(s)
    BY <1>1
  <2> QED BY <2>1, <2>2, FS_RemoveElement
<1>3. 0 \in N
  <2> DEFINE f == [s \in Few(0) |-> 0]
  <2>1. ASSUME NEW s \in Few(0)
        PROVE  s = {}
    BY <1>1, FS_EmptySet
  <2>2. f = [s \in Few(0) |-> Val(s, f)]
    BY <2>1
  <2> HIDE DEF f, Few, Val
  <2> QED BY <2>2
<1>4. ASSUME NEW n \in Nat, n \in N
      PROVE  n + 1 \in N
  <2>1. PICK f : f = [s \in Few(n) |-> Val(s, f)]
    BY <1>4
  <2> DEFINE g == [s \in Few(n + 1) |-> Val(s, f)]
  <2>2. ASSUME NEW s \in Few(n)
        PROVE  s \in Few(n + 1)
    BY <1>1
  <2>3. ASSUME NEW s \in Few(n)
        PROVE  g[s] = f[s]
    <3> HIDE DEF Few, Val
    <3> QED BY <2>1, <2>2
  <2>4. ASSUME NEW s \in Few(n + 1), s # {}
        PROVE  s \ {Chosen(s)} \in Few(n)
    <3>1. Cardinality(s) \in Nat /\ Cardinality(s) <= n + 1 /\ s \in SUBSET S
      BY <1>1
    <3> QED BY <1>2, <2>4, <3>1
  <2>5. ASSUME NEW s \in Few(n + 1)
        PROVE  Val(s, f) = Val(s, g)
    <3> HIDE DEF Few, g
    <3> QED BY <2>3, <2>4
  <2>6. g = [s \in Few(n + 1) |-> Val(s, g)]
    <3>1. [s \in Few(n + 1) |-> Val(s, f)] = [s \in Few(n + 1) |-> Val(s, g)]
      <4> HIDE DEF Few, g, Val
      <4> QED BY <2>5
    <3>2. g = [s \in Few(n + 1) |-> Val(s, f)]
      OBVIOUS
    <3> HIDE DEF Few, g, Val
    <3> QED BY <3>1, <3>2
  <2> HIDE DEF Few, g, Val
  <2> QED BY <2>6
<1>5. Nat \subseteq N
  <2> HIDE DEF N
  <2> QED BY <1>3, <1>4, Induction
<1>6. Cardinality(S) \in Nat /\ Few(Cardinality(S)) = SUBSET S
  <2>1. ASSUME NEW s \in SUBSET S
        PROVE  Cardinality(s) <= Cardinality(S)
    BY FS_Subset
  <2>2. Cardinality(S) \in Nat
    BY FS_CardinalityType
  <2> QED BY <2>1, <2>2
<1>7. PICK f : f = [s \in SUBSET S |-> Val(s, f)]
  <2> HIDE DEF Few, Val
  <2> QED BY <1>5, <1>6
<1>8. Sums(w, S, f)
  BY <1>7 DEF Sums
<1> QED BY <1>8

LEMMA SumsAgree ==
  ASSUME NEW w, NEW v, NEW S, NEW T, T \subseteq S, IsFiniteSet(T), NEW f, NEW g,
         Sums(w, S, f), Sums(v, T, g), \A x \in T : w[x] = v[x]
  PROVE  \A s \in SUBSET T : f[s] = g[s]
<1> DEFINE Good == {s \in SUBSET T : f[s] = g[s]}
<1>2. ASSUME NEW s \in SUBSET T, \A t \in SUBSET s : t # s => t \in Good
      PROVE  s \in Good
  <2>1. CASE s = {}
    BY <2>1 DEF Sums
  <2>2. CASE s # {}
    <3>1. Chosen(s) \in s
      BY <2>2 DEF Chosen
    <3>2. /\ f[s] = w[Chosen(s)] + f[s \ {Chosen(s)}]
          /\ g[s] = v[Chosen(s)] + g[s \ {Chosen(s)}]
      BY <2>2 DEF Sums
    <3>3. s \ {Chosen(s)} \in Good
      BY <1>2, <3>1
    <3> QED BY <3>1, <3>2, <3>3
  <2> QED BY <2>1, <2>2
<1> HIDE DEF Good
<1>3. \A s \in SUBSET T : s \in Good
  BY <1>2, SubsetInduction
<1> QED BY <1>3 DEF Good

\* What a sum is: nothing over the empty set, and element by element.
LEMMA SumEmpty ==
  ASSUME NEW w
  PROVE  SumFunctionOnSet(w, {}) = 0
<1>1. PICK f : Sums(w, {}, f)
  BY SumsExist, FS_EmptySet
<1>2. Sums(w, {}, CHOOSE g : Sums(w, {}, g))
  BY <1>1
<1> QED BY <1>2, SumIs DEF Sums

LEMMA SumSame ==
  ASSUME NEW w, NEW v, NEW S, IsFiniteSet(S), \A x \in S : w[x] = v[x]
  PROVE  SumFunctionOnSet(w, S) = SumFunctionOnSet(v, S)
<1>1. /\ Sums(w, S, CHOOSE f : Sums(w, S, f))
      /\ Sums(v, S, CHOOSE f : Sums(v, S, f))
  BY SumsExist
<1>2. \A s \in SUBSET S : (CHOOSE f : Sums(w, S, f))[s] = (CHOOSE f : Sums(v, S, f))[s]
  BY <1>1, SumsAgree
<1> QED BY <1>2, SumIs

LEMMA SumChosen ==
  ASSUME NEW w, NEW S, IsFiniteSet(S), S # {}
  PROVE  SumFunctionOnSet(w, S) = w[Chosen(S)] + SumFunctionOnSet(w, S \ {Chosen(S)})
<1> DEFINE T == S \ {Chosen(S)}
           f == CHOOSE h : Sums(w, S, h)
           g == CHOOSE h : Sums(w, T, h)
<1>1. IsFiniteSet(T) /\ T \subseteq S
  BY FS_Subset
<1>2. Sums(w, S, f) /\ Sums(w, T, g)
  BY <1>1, SumsExist
<1>3. f[S] = w[Chosen(S)] + f[T]
  <2> HIDE DEF f
  <2> QED BY <1>2 DEF Sums
<1>4. f[T] = g[T]
  <2> HIDE DEF f, g
  <2> QED BY <1>1, <1>2, SumsAgree
<1> QED BY <1>3, <1>4, SumIs

LEMMA SumTyped ==
  ASSUME NEW S, IsFiniteSet(S), NEW w, \A x \in S : w[x] \in Nat
  PROVE  \A s \in SUBSET S : SumFunctionOnSet(w, s) \in Nat
<1> DEFINE Good == {s \in SUBSET S : SumFunctionOnSet(w, s) \in Nat}
<1>1. ASSUME NEW s \in SUBSET S, \A t \in SUBSET s : t # s => t \in Good
      PROVE  s \in Good
  <2>1. CASE s = {}
    BY <2>1, SumEmpty
  <2>2. CASE s # {}
    <3>1. Chosen(s) \in s /\ IsFiniteSet(s)
      BY <2>2, FS_Subset DEF Chosen
    <3>2. SumFunctionOnSet(w, s) = w[Chosen(s)] + SumFunctionOnSet(w, s \ {Chosen(s)})
      BY <2>2, <3>1, SumChosen
    <3>3. SumFunctionOnSet(w, s \ {Chosen(s)}) \in Nat
      BY <1>1, <3>1
    <3> QED BY <3>1, <3>2, <3>3
  <2> QED BY <2>1, <2>2
<1> HIDE DEF Good
<1>3. \A s \in SUBSET S : s \in Good
  BY <1>1, SubsetInduction
<1> QED BY <1>3 DEF Good

\* Any element may be taken out.
LEMMA SumWithout ==
  ASSUME NEW S, IsFiniteSet(S), NEW w, \A x \in S : w[x] \in Nat
  PROVE  \A s \in SUBSET S : \A x \in s :
           SumFunctionOnSet(w, s) = w[x] + SumFunctionOnSet(w, s \ {x})
<1> DEFINE Good == {s \in SUBSET S : \A x \in s :
                      SumFunctionOnSet(w, s) = w[x] + SumFunctionOnSet(w, s \ {x})}
<1>1. ASSUME NEW s \in SUBSET S, \A t \in SUBSET s : t # s => t \in Good
      PROVE  s \in Good
  <2> SUFFICES ASSUME NEW x \in s
               PROVE  SumFunctionOnSet(w, s) = w[x] + SumFunctionOnSet(w, s \ {x})
    OBVIOUS
  <2> DEFINE c == Chosen(s)
  <2>1. c \in s /\ IsFiniteSet(s)
    BY FS_Subset DEF Chosen
  <2>2. SumFunctionOnSet(w, s) = w[c] + SumFunctionOnSet(w, s \ {c})
    BY <2>1, SumChosen
  <2> HIDE DEF c
  <2>3. CASE x = c
    BY <2>2, <2>3
  <2>4. CASE x # c
    <3>1. s \ {c} \in Good /\ s \ {x} \in Good
      <4> HIDE DEF Good
      <4> QED BY <1>1, <2>1
    <3>2. SumFunctionOnSet(w, s \ {c}) = w[x] + SumFunctionOnSet(w, (s \ {c}) \ {x})
      BY <2>4, <3>1
    <3>3. SumFunctionOnSet(w, s \ {x}) = w[c] + SumFunctionOnSet(w, (s \ {x}) \ {c})
      BY <2>1, <2>4, <3>1
    <3>4. (s \ {c}) \ {x} = (s \ {x}) \ {c}
      OBVIOUS
    <3>5. w[x] \in Nat /\ w[c] \in Nat /\ SumFunctionOnSet(w, (s \ {x}) \ {c}) \in Nat
      BY <2>1, SumTyped
    <3> HIDE DEF Good
    <3> QED BY <2>2, <3>2, <3>3, <3>4, <3>5
  <2> QED BY <2>3, <2>4
<1> HIDE DEF Good
<1>3. \A s \in SUBSET S : s \in Good
  BY <1>1, SubsetInduction
<1> QED BY <1>3 DEF Good

\* What one element more or less weighs, the sum does.
LEMMA SumChanges ==
  ASSUME NEW S, IsFiniteSet(S), NEW w, NEW v, NEW r \in S,
         \A x \in S : w[x] \in Nat, \A x \in S : v[x] \in Nat,
         \A x \in S : x # r => v[x] = w[x]
  PROVE  \E rest \in Nat : /\ SumFunctionOnSet(w, S) = w[r] + rest
                           /\ SumFunctionOnSet(v, S) = v[r] + rest
<1> DEFINE rest == SumFunctionOnSet(w, S \ {r})
<1>1. rest \in Nat
  BY SumTyped
<1>2. SumFunctionOnSet(w, S) = w[r] + rest
  BY SumWithout
<1>3. SumFunctionOnSet(v, S) = v[r] + SumFunctionOnSet(v, S \ {r})
  BY SumWithout
<1>4. IsFiniteSet(S \ {r})
  BY FS_Subset
<1>5. SumFunctionOnSet(v, S \ {r}) = rest
  BY <1>4, SumSame
<1> QED BY <1>1, <1>2, <1>3, <1>5

LEMMA SumOfZeros ==
  ASSUME NEW S, IsFiniteSet(S), NEW w, \A x \in S : w[x] = 0
  PROVE  SumFunctionOnSet(w, S) = 0
<1> DEFINE Good == {s \in SUBSET S : SumFunctionOnSet(w, s) = 0}
<1>1. ASSUME NEW s \in SUBSET S, \A t \in SUBSET s : t # s => t \in Good
      PROVE  s \in Good
  <2>1. CASE s = {}
    BY <2>1, SumEmpty
  <2>2. CASE s # {}
    <3>1. Chosen(s) \in s /\ IsFiniteSet(s)
      BY <2>2, FS_Subset DEF Chosen
    <3>2. SumFunctionOnSet(w, s) = w[Chosen(s)] + SumFunctionOnSet(w, s \ {Chosen(s)})
      BY <2>2, <3>1, SumChosen
    <3>3. SumFunctionOnSet(w, s \ {Chosen(s)}) = 0
      BY <1>1, <3>1
    <3> QED BY <3>1, <3>2, <3>3
  <2> QED BY <2>1, <2>2
<1> HIDE DEF Good
<1>3. \A s \in SUBSET S : s \in Good
  BY <1>1, SubsetInduction
<1> QED BY <1>3 DEF Good

-----------------------------------------------------------------------------
USE ContainmentAssumption

LEMMA BecomesOne ==
  ASSUME ContainmentTypeOK, NEW r \in Runs, NEW p \in Pep, Becomes(r, p)
  PROVE  /\ pep' \in [Runs -> Pep] /\ pep'[r] = p
         /\ \A q \in Runs \ {r} : pep'[q] = pep[q]
BY DEF ContainmentTypeOK, Becomes

LEMMA EndsOne ==
  ASSUME ContainmentTypeOK, NEW r \in Runs, NEW o \in Outcomes, Ends(r, o)
  PROVE  /\ pep' \in [Runs -> Pep] /\ pep'[r].at = "over"
         /\ \A q \in Runs \ {r} : pep'[q] = pep[q]
<1>1. pep[r] \in Pep
  BY DEF ContainmentTypeOK
<1>2. /\ [pep[r] EXCEPT !.at = "over", !.outcome = o] \in Pep
      /\ [pep[r] EXCEPT !.at = "over", !.outcome = o].at = "over"
  BY <1>1 DEF Pep, Steps
<1> QED BY <1>2, BecomesOne DEF Ends

LEMMA MovesTo ==
  ASSUME ContainmentTypeOK, NEW r \in Runs, NEW at \in Steps, NEW o \in Outcomes,
         NEW n \in Nat
  PROVE  LET p == pep[r]
         IN  /\ [p EXCEPT !.at = at, !.reserved = n] \in Pep
             /\ [p EXCEPT !.at = at, !.reserved = n].at = at
             /\ [p EXCEPT !.at = at, !.pre = n] \in Pep
             /\ [p EXCEPT !.at = at, !.pre = n].at = at
             /\ [p EXCEPT !.at = at, !.pre = n, !.outcome = o] \in Pep
             /\ [p EXCEPT !.at = at, !.pre = n, !.outcome = o].at = at
             /\ [p EXCEPT !.at = at, !.outcome = o] \in Pep
             /\ [p EXCEPT !.at = at, !.outcome = o].at = at
<1>1. pep[r] \in Pep
  BY DEF ContainmentTypeOK
<1> QED BY <1>1 DEF Pep

Account == [settled : Nat, reserved : Nat, runs : Nat]

LEMMA EstimateIsAmount ==
  ASSUME ContainmentTypeOK, NEW a \in Agents
  PROVE  Estimate(a) \in Nat
<1>1. ledger[a] \in Account
  BY DEF ContainmentTypeOK, Account
<1> DEFINE s == ledger[a].settled
           n == ledger[a].runs
<1>2. s \in Nat /\ n \in Nat
  BY <1>1 DEF Account
<1>3. CASE n = 0
  BY <1>3 DEF Estimate, AtLeast
<1>4. CASE n # 0
  <2>1. 3 * s \in Nat /\ 2 * n \in Nat /\ 2 * n > 0
    BY <1>2, <1>4
  <2>2. (3 * s) \div (2 * n) \in Nat
    BY <2>1
  <2> QED BY <1>4, <2>2 DEF Estimate, AtLeast
<1> QED BY <1>3, <1>4

LEMMA AccountsTyped ==
  ASSUME ContainmentTypeOK, NEW a \in Agents, NEW n \in Nat, NEW c \in Nat,
         Reserve(a, n) \/ Release(a, n) \/ Settled(a, n, c)
  PROVE  /\ ledger' \in [Agents -> [settled : Nat, reserved : Nat, runs : Nat]]
         /\ tenant' \in [settled : Nat, reserved : Nat]
<1>1. ledger[a] \in Account /\ tenant \in [settled : Nat, reserved : Nat]
  BY DEF ContainmentTypeOK, Account
<1>2. /\ ledger[a].settled \in Nat /\ ledger[a].reserved \in Nat /\ ledger[a].runs \in Nat
      /\ tenant.settled \in Nat /\ tenant.reserved \in Nat
  BY <1>1 DEF Account
<1>3. /\ Minus(ledger[a].reserved, n) \in Nat /\ Minus(tenant.reserved, n) \in Nat
  BY <1>2 DEF Minus
<1>4. CASE Reserve(a, n)
  <2>1. [ledger[a] EXCEPT !.reserved = @ + n] \in Account
    BY <1>1, <1>2 DEF Account
  <2>2. [tenant EXCEPT !.reserved = @ + n] \in [settled : Nat, reserved : Nat]
    BY <1>1, <1>2
  <2> QED BY <1>4, <2>1, <2>2 DEF Reserve, Account, ContainmentTypeOK
<1>5. CASE Release(a, n)
  <2>1. [ledger[a] EXCEPT !.reserved = Minus(@, n)] \in Account
    BY <1>1, <1>3 DEF Account
  <2>2. [tenant EXCEPT !.reserved = Minus(@, n)] \in [settled : Nat, reserved : Nat]
    BY <1>1, <1>3
  <2> QED BY <1>5, <2>1, <2>2 DEF Release, Account, ContainmentTypeOK
<1>6. CASE Settled(a, n, c)
  <2>1. [settled |-> ledger[a].settled + c, reserved |-> Minus(ledger[a].reserved, n),
         runs |-> ledger[a].runs + 1] \in Account
    BY <1>2, <1>3 DEF Account
  <2>2. [settled |-> tenant.settled + c, reserved |-> Minus(tenant.reserved, n)]
          \in [settled : Nat, reserved : Nat]
    BY <1>2, <1>3
  <2> QED BY <1>6, <2>1, <2>2 DEF Settled, Account, ContainmentTypeOK
<1> QED BY <1>4, <1>5, <1>6

LEMMA BreakersTyped ==
  ASSUME ContainmentTypeOK, NEW a \in Agents
  PROVE  /\ Probed(a) \in [Agents -> Breaker] /\ Violated(a) \in [Agents -> Breaker]
         /\ [breaker EXCEPT ![a] = Closed] \in [Agents -> Breaker]
         /\ [breaker EXCEPT ![a].circuit = "half"] \in [Agents -> Breaker]
<1>1. breaker[a] \in Breaker
  BY DEF ContainmentTypeOK
<1>2. /\ [breaker[a] EXCEPT !.probe = IF breaker[a].circuit = "half" THEN "flying" ELSE @]
           \in Breaker
      /\ [breaker[a] EXCEPT !.circuit = "half"] \in Breaker
      /\ [circuit |-> "open", probe |-> "none"] \in Breaker /\ Closed \in Breaker
  BY <1>1 DEF Breaker, Closed
<1> QED BY <1>2 DEF Probed, Violated, ContainmentTypeOK

LEMMA TypeInit == CInit => ContainmentTypeOK
<1> SUFFICES ASSUME CInit PROVE ContainmentTypeOK
  OBVIOUS
<1>1. OutPep \in Pep /\ Closed \in Breaker
  BY DEF OutPep, Pep, Steps, Outcomes, Closed, Breaker
<1> QED BY <1>1 DEF CInit, Memory, ContainmentTypeOK

\* What the amounts and the places of a run are.
LEMMA RunTyped ==
  ASSUME ContainmentTypeOK, NEW r \in Runs
  PROVE  /\ AgentOf[r] \in Agents /\ pep[r] \in Pep
         /\ pep[r].reserved \in Nat /\ pep[r].cost \in Nat /\ pep[r].outcome \in Outcomes
         /\ lost[AgentOf[r]] + pep[r].reserved \in Nat
<1>1. pep[r] \in Pep /\ AgentOf[r] \in Agents /\ lost[AgentOf[r]] \in Nat
  BY DEF ContainmentTypeOK
<1> QED BY <1>1 DEF Pep

LEMMA AdmissionTyped ==
  ASSUME ContainmentTypeOK, NEW r \in Runs, Refuse(r) \/ Admit(r)
  PROVE  ContainmentTypeOK'
<1>1. AgentOf[r] \in Agents /\ "blocked" \in Outcomes /\ "measuring" \in Steps
  BY DEF Outcomes, Steps
<1>2. breaker' \in [Agents -> Breaker]
  <2>1. breaker \in [Agents -> Breaker] /\ Probed(AgentOf[r]) \in [Agents -> Breaker]
    BY <1>1, BreakersTyped DEF ContainmentTypeOK
  <2>2. breaker' = breaker \/ breaker' = Probed(AgentOf[r])
    BY DEF Refuse, Admit
  <2> QED BY <2>1, <2>2
<1>3. CASE Refuse(r)
  <2>1. pep' \in [Runs -> Pep]
    BY <1>1, <1>3, EndsOne DEF Refuse
  <2> QED BY <1>2, <1>3, <2>1 DEF Refuse, budget, inner, world, ContainmentTypeOK
<1>4. CASE Admit(r)
  <2>1. Estimate(AgentOf[r]) \in Nat
    BY <1>1, EstimateIsAmount
  <2>2. pep' \in [Runs -> Pep]
    <3>1. [pep[r] EXCEPT !.at = "measuring", !.reserved = Estimate(AgentOf[r])] \in Pep
      BY <1>1, <2>1, MovesTo DEF Outcomes
    <3>2. Becomes(r, [pep[r] EXCEPT !.at = "measuring", !.reserved = Estimate(AgentOf[r])])
      BY <1>4 DEF Admit
    <3> QED BY <3>1, <3>2, BecomesOne
  <2>3. /\ ledger' \in [Agents -> [settled : Nat, reserved : Nat, runs : Nat]]
        /\ tenant' \in [settled : Nat, reserved : Nat]
    <3>1. 0 \in Nat /\ Reserve(AgentOf[r], Estimate(AgentOf[r]))
      BY <1>4 DEF Admit
    <3> QED BY <1>1, <2>1, <3>1, AccountsTyped
  <2> QED BY <1>2, <1>4, <2>2, <2>3 DEF Admit, inner, world, ContainmentTypeOK
<1> QED BY <1>3, <1>4

LEMMA RunStepTyped ==
  ASSUME ContainmentTypeOK, NEW r \in Runs, RunStep(r)
  PROVE  ContainmentTypeOK'
<1> DEFINE a == AgentOf[r]
<1>1. /\ a \in Agents /\ pep[r].reserved \in Nat /\ pep[r].cost \in Nat
      /\ pep[r].outcome \in Outcomes /\ lost[a] + pep[r].reserved \in Nat
  BY RunTyped
<1>2. {"blocked", "failed", "completed", "cancelled", "killed"} \subseteq Outcomes
  BY DEF Outcomes
<1>3. {"running", "settling", "failing"} \subseteq Steps
  BY DEF Steps
<1>4. 0 \in Nat /\ vault \in Nat
  BY DEF ContainmentTypeOK
<1>5. [lost EXCEPT ![a] = @ + pep[r].reserved] \in [Agents -> Nat]
  BY <1>1 DEF ContainmentTypeOK
<1>6. troubles' \in 0 .. MaxTroubles
  <2>1. Trouble \/ troubles' = troubles
    BY DEF RunStep, MeasureFails, NoSlot, Latched, Enter, ProcessEnds, Finish, FinishFails, world
  <2> QED BY <2>1 DEF Trouble, ContainmentTypeOK
<1>7. CASE MeasureFails(r)
  <2>1. pep' \in [Runs -> Pep]
    BY <1>2, <1>7, EndsOne DEF MeasureFails
  <2> QED BY <1>5, <1>6, <1>7, <2>1 DEF MeasureFails, pdp, inner, ContainmentTypeOK
<1>8. CASE NoSlot(r) \/ Latched(r)
  <2>1. pep' \in [Runs -> Pep]
    BY <1>2, <1>8, EndsOne DEF NoSlot, Latched
  <2>2. Release(a, pep[r].reserved)
    BY <1>8 DEF NoSlot, Latched
  <2>3. /\ ledger' \in [Agents -> [settled : Nat, reserved : Nat, runs : Nat]]
        /\ tenant' \in [settled : Nat, reserved : Nat]
    BY <1>1, <1>4, <2>2, AccountsTyped
  <2> QED BY <1>1, <1>6, <1>8, <2>1, <2>3 DEF NoSlot, Latched, pdp, inner, world, ContainmentTypeOK
<1>9. CASE Enter(r)
  <2>1. pep' \in [Runs -> Pep]
    <3>1. /\ [pep[r] EXCEPT !.at = "running", !.pre = vault] \in Pep
          /\ [pep[r] EXCEPT !.at = "settling", !.pre = vault, !.outcome = "failed"] \in Pep
      BY <1>2, <1>3, <1>4, MovesTo
    <3>2. \/ Becomes(r, [pep[r] EXCEPT !.at = "running", !.pre = vault])
          \/ Becomes(r, [pep[r] EXCEPT !.at = "settling", !.pre = vault, !.outcome = "failed"])
      BY <1>9 DEF Enter
    <3> QED BY <3>1, <3>2, BecomesOne
  <2> QED BY <1>1, <1>6, <1>9, <2>1 DEF Enter, pdp, budget, world, ContainmentTypeOK
<1>10. CASE ProcessEnds(r)
  <2>1. pep' \in [Runs -> Pep]
    <3>2. \A c \in Costs : [pep[r] EXCEPT !.at = "settling", !.outcome = "completed", !.cost = c] \in Pep
      <4> TAKE c \in Costs
      <4>1. c \in Nat /\ "settling" \in Steps /\ "completed" \in Outcomes
        BY <1>2, <1>3
      <4>2. pep[r] \in Pep
        BY RunTyped
      <4> QED BY <4>1, <4>2 DEF Pep
    <3>3. \A o \in Outcomes : [pep[r] EXCEPT !.at = "settling", !.outcome = o] \in Pep
      BY <1>3, <1>4, MovesTo
    <3> QED BY <1>2, <1>10, <3>2, <3>3, BecomesOne DEF ProcessEnds
  <2>2. breaker' \in [Agents -> Breaker]
    <3>1. breaker \in [Agents -> Breaker] /\ Violated(a) \in [Agents -> Breaker]
      BY <1>1, BreakersTyped DEF ContainmentTypeOK
    <3>2. breaker' = breaker \/ breaker' = Violated(a)
      BY <1>10 DEF ProcessEnds
    <3> QED BY <3>1, <3>2
  <2> QED BY <1>1, <1>6, <1>10, <2>1, <2>2 DEF ProcessEnds, budget, world, ContainmentTypeOK
<1>11. CASE Finish(r)
  <2>1. pep' \in [Runs -> Pep]
    BY <1>1, <1>11, EndsOne DEF Finish
  <2>2. breaker' \in [Agents -> Breaker]
    BY <1>1, <1>11, BreakersTyped DEF Finish, ContainmentTypeOK
  <2>3. /\ ledger' \in [Agents -> [settled : Nat, reserved : Nat, runs : Nat]]
        /\ tenant' \in [settled : Nat, reserved : Nat]
    <3>1. Settled(a, pep[r].reserved, pep[r].cost)
      BY <1>11 DEF Finish
    <3> QED BY <1>1, <3>1, AccountsTyped
  <2> QED BY <1>1, <1>6, <1>11, <2>1, <2>2, <2>3
          DEF Finish, Forget, inner, world, ContainmentTypeOK
<1>12. CASE FinishFails(r)
  <2>1. pep' \in [Runs -> Pep]
    <3>1. [pep[r] EXCEPT !.at = "failing", !.outcome = "failed", !.cost = 0] \in Pep
      <4>1. pep[r] \in Pep /\ "failing" \in Steps /\ "failed" \in Outcomes
        BY <1>2, <1>3, RunTyped
      <4> QED BY <4>1 DEF Pep
    <3>2. \/ Becomes(r, [pep[r] EXCEPT !.at = "failing", !.outcome = "failed", !.cost = 0])
          \/ Ends(r, "failed")
      BY <1>12 DEF FinishFails
    <3> QED BY <1>2, <3>1, <3>2, BecomesOne, EndsOne
  <2>2. lost' \in [Agents -> Nat]
    BY <1>5, <1>12 DEF FinishFails, ContainmentTypeOK
  <2> QED BY <1>1, <1>6, <1>12, <2>1, <2>2 DEF FinishFails, Forget, pdp, inner, ContainmentTypeOK
<1> QED BY <1>7, <1>8, <1>9, <1>10, <1>11, <1>12 DEF RunStep

LEMMA AroundTyped ==
  ASSUME ContainmentTypeOK, Around \/ (\E a \in Agents : CancelStep(a)) \/ Reboot
  PROVE  ContainmentTypeOK'
<1>1. CASE Arm \/ Disarm \/ VaultChanges
  BY <1>1 DEF Arm, Disarm, VaultChanges, Trouble, pdp, budget, inner, world, ContainmentTypeOK
<1>2. ASSUME NEW a \in Agents, CooldownPasses(a) PROVE ContainmentTypeOK'
  <2>1. breaker' \in [Agents -> Breaker]
    BY <1>2, BreakersTyped DEF CooldownPasses
  <2> QED BY <1>2, <2>1 DEF CooldownPasses, budget, inner, world, ContainmentTypeOK
<1>3. ASSUME NEW a \in Agents, CancelStep(a) PROVE ContainmentTypeOK'
  BY <1>3 DEF CancelStep, Cancel, pdp, budget, world, ContainmentTypeOK
<1>4. CASE Reboot
  <2>1. OutPep \in Pep /\ [OutPep EXCEPT !.at = "over"] \in Pep /\ Closed \in Breaker
    BY DEF OutPep, Pep, Steps, Outcomes, Closed, Breaker
  <2> QED BY <1>4, <2>1 DEF Reboot, Memory, world, ContainmentTypeOK
<1> QED BY <1>1, <1>2, <1>3, <1>4 DEF Around

LEMMA TypeStep == ContainmentTypeOK /\ [CNext]_cvars => ContainmentTypeOK'
<1> SUFFICES ASSUME ContainmentTypeOK, [CNext]_cvars PROVE ContainmentTypeOK'
  OBVIOUS
<1>1. CASE UNCHANGED cvars
  BY <1>1 DEF cvars, pdp, budget, inner, world, ContainmentTypeOK
<1> QED BY <1>1, AdmissionTyped, RunStepTyped, AroundTyped DEF CNext

-----------------------------------------------------------------------------
Inside == {"running", "settling", "failing"}

ContainmentInv ==
  ContainmentTypeOK /\ CapabilitiesDieWithTheRun

Others(r) == \A q \in Runs \ {r} : pep'[q].at = pep[q].at

\* Where a step of a run leaves it.
LEMMA BecomesAt ==
  ASSUME ContainmentTypeOK, NEW r \in Runs
  PROVE  /\ \A p : Becomes(r, p) => pep'[r] = p /\ Others(r)
         /\ \A o : Ends(r, o) => pep'[r].at = "over" /\ Others(r)
<1>1. pep[r] \in Pep /\ pep \in [Runs -> Pep]
  BY DEF ContainmentTypeOK
<1>2. \A p : Becomes(r, p) => pep'[r] = p /\ Others(r)
  BY <1>1 DEF Becomes, Others
<1>3. \A o : [pep[r] EXCEPT !.at = "over", !.outcome = o].at = "over"
  BY <1>1 DEF Pep
<1> QED BY <1>2, <1>3 DEF Ends

LEMMA AdmitAt ==
  ASSUME ContainmentTypeOK, NEW r \in Runs, Admit(r)
  PROVE  pep'[r].at = "measuring" /\ Others(r)
<1>1. pep[r] \in Pep
  BY DEF ContainmentTypeOK
<1>2. \A n : [pep[r] EXCEPT !.at = "measuring", !.reserved = n].at = "measuring"
  BY <1>1 DEF Pep
<1> QED BY <1>2, BecomesAt DEF Admit

LEMMA EnterAt ==
  ASSUME ContainmentTypeOK, NEW r \in Runs, Enter(r)
  PROVE  /\ Others(r)
         /\ \/ /\ process[AgentOf[r]] = None /\ pep'[r].at = "running"
               /\ process' = [process EXCEPT ![AgentOf[r]] = r]
            \/ /\ process[AgentOf[r]] # None /\ pep'[r].at = "settling"
               /\ process' = process
<1>1. pep[r] \in Pep
  BY DEF ContainmentTypeOK
<1>2. /\ [pep[r] EXCEPT !.at = "running", !.pre = vault].at = "running"
      /\ [pep[r] EXCEPT !.at = "settling", !.pre = vault, !.outcome = "failed"].at = "settling"
  BY <1>1 DEF Pep
<1> QED BY <1>2, BecomesAt DEF Enter

LEMMA ProcessEndsAt ==
  ASSUME ContainmentTypeOK, NEW r \in Runs, ProcessEnds(r)
  PROVE  pep'[r].at = "settling" /\ Others(r)
<1>1. pep[r] \in Pep
  BY DEF ContainmentTypeOK
<1>2. /\ \A c : [pep[r] EXCEPT !.at = "settling", !.outcome = "completed", !.cost = c].at = "settling"
      /\ \A o : [pep[r] EXCEPT !.at = "settling", !.outcome = o].at = "settling"
  BY <1>1 DEF Pep
<1> QED BY <1>2, BecomesAt, ZenonT(40) DEF ProcessEnds

LEMMA FinishFailsAt ==
  ASSUME ContainmentTypeOK, NEW r \in Runs, FinishFails(r)
  PROVE  /\ Others(r)
         /\ \/ pep'[r].at = "failing" /\ slots' = slots /\ caps' = caps
            \/ pep'[r].at = "over" /\ Forget(r)
<1>1. pep[r] \in Pep
  BY DEF ContainmentTypeOK
<1>2. [pep[r] EXCEPT !.at = "failing", !.outcome = "failed", !.cost = 0].at = "failing"
  BY <1>1 DEF Pep
<1> QED BY <1>2, BecomesAt DEF FinishFails

\* The steps of a run, by what they do to its place, the slots, the
\* capabilities and the processes.
LEMMA StepKinds ==
  ASSUME ContainmentTypeOK, NEW r \in Runs, Refuse(r) \/ Admit(r) \/ RunStep(r)
  PROVE  /\ Others(r)
         /\ \/ /\ pep[r].at \notin Inside /\ pep'[r].at \notin Inside
               /\ slots' = slots \/ (HasSlot /\ slots' = slots \cup {AgentOf[r]})
               /\ UNCHANGED << caps, process >>
            \/ /\ pep[r].at \notin Inside /\ HasSlot /\ slots' = slots \cup {AgentOf[r]}
               /\ caps' = caps \cup {r}
               /\ \/ /\ process[AgentOf[r]] = None /\ pep'[r].at = "running"
                     /\ process' = [process EXCEPT ![AgentOf[r]] = r]
                  \/ /\ process[AgentOf[r]] # None /\ pep'[r].at = "settling"
                     /\ process' = process
            \/ /\ pep[r].at = "running" /\ pep'[r].at = "settling"
               /\ process' = [process EXCEPT ![AgentOf[r]] = None]
               /\ UNCHANGED << caps, slots >>
            \/ /\ pep[r].at \in {"settling", "failing"} /\ pep'[r].at = "failing"
               /\ UNCHANGED << caps, slots, process >>
            \/ /\ pep[r].at \in {"settling", "failing"} /\ pep'[r].at = "over"
               /\ Forget(r) /\ UNCHANGED << process >>
<1>1. CASE Refuse(r) \/ MeasureFails(r) \/ NoSlot(r) \/ Latched(r)
  <2>1. pep'[r].at = "over" /\ Others(r)
    BY <1>1, BecomesAt DEF Refuse, MeasureFails, NoSlot, Latched
  <2> QED BY <1>1, <2>1 DEF Refuse, MeasureFails, NoSlot, Latched, Inside, inner
<1>2. CASE Admit(r)
  BY <1>2, AdmitAt DEF Admit, Inside, inner
<1>3. CASE Enter(r)
  BY <1>3, EnterAt DEF Enter, Inside
<1>4. CASE ProcessEnds(r)
  BY <1>4, ProcessEndsAt DEF ProcessEnds
<1>5. CASE Finish(r)
  <2>1. pep'[r].at = "over" /\ Others(r)
    BY <1>5, BecomesAt DEF Finish
  <2> QED BY <1>5, <2>1 DEF Finish, inner
<1>6. CASE FinishFails(r)
  <2>1. pep[r].at \in {"settling", "failing"} /\ UNCHANGED << process >>
    BY <1>6 DEF FinishFails, inner
  <2> QED BY <1>6, <2>1, FinishFailsAt
<1> QED BY <1>1, <1>2, <1>3, <1>4, <1>5, <1>6 DEF RunStep

LEMMA CapabilitiesStep ==
  ASSUME ContainmentTypeOK, CapabilitiesDieWithTheRun,
         NEW r \in Runs, Refuse(r) \/ Admit(r) \/ RunStep(r)
  PROVE  CapabilitiesDieWithTheRun'
<1> DEFINE a == AgentOf[r]
<1>1. a \in Agents /\ r # None /\ process \in [Agents -> Runs \cup {None}]
  BY DEF ContainmentTypeOK
<1>2. \A q \in Runs : q # r => pep'[q].at = pep[q].at
  BY StepKinds DEF Others
<1>3. caps' = {q \in Runs : pep'[q].at \in Inside}
  BY <1>2, StepKinds DEF CapabilitiesDieWithTheRun, Inside, Forget
<1>4. \A b \in Agents, q \in Runs :
        process'[b] = q <=> AgentOf[q] = b /\ pep'[q].at = "running"
  <2> SUFFICES ASSUME NEW b \in Agents, NEW q \in Runs
               PROVE  process'[b] = q <=> AgentOf[q] = b /\ pep'[q].at = "running"
    OBVIOUS
  <2>1. /\ process[b] = q <=> AgentOf[q] = b /\ pep[q].at = "running"
        /\ process[a] = r <=> pep[r].at = "running"
        /\ process[a] = q <=> AgentOf[q] = a /\ pep[q].at = "running"
    BY <1>1 DEF CapabilitiesDieWithTheRun
  <2> QED BY <1>1, <1>2, <2>1, StepKinds DEF Inside
<1> QED BY <1>3, <1>4 DEF CapabilitiesDieWithTheRun, Inside

LEMMA InvInit == CInit => ContainmentInv
<1> SUFFICES ASSUME CInit PROVE ContainmentInv
  OBVIOUS
<1>1. ContainmentTypeOK
  BY TypeInit
<1>2. \A r \in Runs : pep[r].at = "out"
  BY DEF CInit, OutPep
<1>3. CapabilitiesDieWithTheRun
  BY <1>2 DEF CInit, CapabilitiesDieWithTheRun, Inside
<1> QED BY <1>1, <1>3 DEF ContainmentInv

LEMMA InvStep == ContainmentInv /\ [CNext]_cvars => ContainmentInv'
<1> SUFFICES ASSUME ContainmentInv, [CNext]_cvars PROVE ContainmentInv'
  OBVIOUS
<1> USE DEF ContainmentInv
<1>1. ContainmentTypeOK'
  BY TypeStep
<1>2. ASSUME NEW r \in Runs, Refuse(r) \/ Admit(r) \/ RunStep(r) PROVE ContainmentInv'
  BY <1>1, <1>2, CapabilitiesStep
<1>3. CASE UNCHANGED << slots, caps, process, pep >>
  BY <1>1, <1>3 DEF CapabilitiesDieWithTheRun
<1>4. CASE Reboot
  <2>1. \A r \in Runs : pep'[r].at \in {"out", "over"}
    BY <1>4 DEF Reboot, OutPep
  <2>2. CapabilitiesDieWithTheRun'
    BY <1>4, <2>1 DEF Reboot, CapabilitiesDieWithTheRun, Inside
  <2> QED BY <1>1, <2>2
<1>5. CASE Around \/ (\E a \in Agents : CancelStep(a)) \/ UNCHANGED cvars
  <2>1. UNCHANGED << slots, caps, process, pep >>
    BY <1>5 DEF Around, Arm, Disarm, VaultChanges, CooldownPasses, CancelStep, cvars, inner
  <2> QED BY <1>3, <2>1
<1> QED BY <1>2, <1>4, <1>5 DEF CNext

LEMMA InvHolds == CSpec => []ContainmentInv
BY InvInit, InvStep, PTL DEF CSpec

\* A process starts in Enter only, which tests the latch.
LEMMA StartsAreUnlatched ==
  ASSUME ContainmentTypeOK, [CNext]_cvars, latch = "armed",
         NEW a \in Agents, process'[a] # process[a]
  PROVE  process'[a] = None
<1>1. ASSUME NEW r \in Runs, Refuse(r) \/ Admit(r) \/ RunStep(r) PROVE process'[a] = None
  <2>1. ~Enter(r)
    BY DEF Enter
  <2>2. CASE ProcessEnds(r)
    BY <2>2 DEF ProcessEnds, ContainmentTypeOK
  <2> QED BY <1>1, <2>1, <2>2
          DEF RunStep, Refuse, Admit, MeasureFails, NoSlot, Latched, Finish, FinishFails, inner
<1>2. CASE Reboot
  BY <1>2 DEF Reboot
<1>3. CASE Around \/ (\E b \in Agents : CancelStep(b)) \/ UNCHANGED cvars
  <2>1. process' = process
    BY <1>3 DEF Around, Arm, Disarm, VaultChanges, CooldownPasses, CancelStep, cvars, inner
  <2> QED BY <2>1
<1> QED BY <1>1, <1>2, <1>3 DEF CNext

-----------------------------------------------------------------------------
(* The accounts: what each step of a run does to what it has reserved.     *)

Reserved(a) == ledger[a].reserved

\* Held changes at r only, and what r gives up or takes is booked once.
Booked(r) ==
  LET a == AgentOf[r]
  IN  /\ \A q \in Runs \ {r} : Held'[q] = Held[q]
      /\ \A b \in Agents \ {a} : Reserved(b)' = Reserved(b) /\ lost'[b] = lost[b]
      /\ \/ /\ Held'[r] = Held[r] /\ lost'[a] = lost[a]
            /\ Reserved(a)' = Reserved(a) /\ tenant'.reserved = tenant.reserved
         \/ \E n \in Nat :
              /\ Held[r] = 0 /\ Held'[r] = n /\ lost'[a] = lost[a]
              /\ Reserved(a)' = Reserved(a) + n /\ tenant'.reserved = tenant.reserved + n
         \/ /\ Held'[r] = 0 /\ lost'[a] = lost[a]
            /\ Reserved(a)' = Minus(Reserved(a), Held[r])
            /\ tenant'.reserved = Minus(tenant.reserved, Held[r])
         \/ /\ Held'[r] = 0 /\ lost'[a] = lost[a] + Held[r]
            /\ Reserved(a)' = Reserved(a) /\ tenant'.reserved = tenant.reserved

\* What Becomes does to Held.
LEMMA BecomesHeld ==
  ASSUME ContainmentTypeOK, NEW r \in Runs, NEW p, Becomes(r, p)
  PROVE  /\ \A q \in Runs \ {r} : Held'[q] = Held[q]
         /\ Held'[r] = IF p.at \in {"measuring", "running", "settling", "failing"}
                       THEN p.reserved ELSE 0
<1>1. pep'[r] = p /\ \A q \in Runs \ {r} : pep'[q] = pep[q]
  BY DEF Becomes, ContainmentTypeOK
<1> QED BY <1>1 DEF Held, Live

LEMMA EndsHeld ==
  ASSUME ContainmentTypeOK, NEW r \in Runs, NEW o, Ends(r, o)
  PROVE  /\ \A q \in Runs \ {r} : Held'[q] = Held[q]
         /\ Held'[r] = 0
<1>1. [pep[r] EXCEPT !.at = "over", !.outcome = o].at = "over"
  BY DEF Pep, ContainmentTypeOK
<1> QED BY <1>1, BecomesHeld DEF Ends

\* The accounts after reserve, release and settle.
LEMMA AccountsMove ==
  ASSUME ContainmentTypeOK, NEW a \in Agents, NEW n \in Nat, NEW c \in Nat
  PROVE  /\ Reserve(a, n) => /\ Reserved(a)' = Reserved(a) + n
                             /\ tenant'.reserved = tenant.reserved + n
                             /\ \A b \in Agents \ {a} : Reserved(b)' = Reserved(b)
         /\ Release(a, n) \/ Settled(a, n, c) =>
              /\ Reserved(a)' = Minus(Reserved(a), n)
              /\ tenant'.reserved = Minus(tenant.reserved, n)
              /\ \A b \in Agents \ {a} : Reserved(b)' = Reserved(b)
<1>1. /\ ledger \in [Agents -> Account] /\ ledger[a] \in Account
      /\ tenant \in [settled : Nat, reserved : Nat]
  BY DEF ContainmentTypeOK, Account
<1>2. ASSUME Reserve(a, n)
      PROVE  /\ Reserved(a)' = Reserved(a) + n
             /\ tenant'.reserved = tenant.reserved + n
             /\ \A b \in Agents \ {a} : Reserved(b)' = Reserved(b)
  BY <1>1, <1>2 DEF Reserve, Reserved, Account
<1>3. ASSUME Release(a, n)
      PROVE  /\ Reserved(a)' = Minus(Reserved(a), n)
             /\ tenant'.reserved = Minus(tenant.reserved, n)
             /\ \A b \in Agents \ {a} : Reserved(b)' = Reserved(b)
  BY <1>1, <1>3 DEF Release, Reserved, Account
<1>4. ASSUME Settled(a, n, c)
      PROVE  /\ Reserved(a)' = Minus(Reserved(a), n)
             /\ tenant'.reserved = Minus(tenant.reserved, n)
             /\ \A b \in Agents \ {a} : Reserved(b)' = Reserved(b)
  BY <1>1, <1>4 DEF Settled, Reserved, Account
<1> QED BY <1>2, <1>3, <1>4

LEMMA StepsBook ==
  ASSUME ContainmentTypeOK, NEW r \in Runs, Refuse(r) \/ Admit(r) \/ RunStep(r)
  PROVE  Booked(r)
<1> DEFINE a == AgentOf[r]
<1>1. /\ a \in Agents /\ pep[r] \in Pep /\ pep[r].reserved \in Nat
      /\ pep[r].cost \in Nat
  BY RunTyped
<1>2. Held[r] = IF Live(r) THEN pep[r].reserved ELSE 0
  BY DEF Held
<1>3. CASE Refuse(r)
  <2>1. Held[r] = 0
    BY <1>2, <1>3 DEF Refuse, Live
  <2>2. Held'[r] = 0 /\ \A q \in Runs \ {r} : Held'[q] = Held[q]
    BY <1>3, EndsHeld DEF Refuse
  <2> QED BY <1>3, <2>1, <2>2 DEF Refuse, budget, Booked, Reserved
<1>4. CASE Admit(r)
  <2>1. Held[r] = 0
    BY <1>2, <1>4 DEF Admit, Live
  <2> DEFINE n == Estimate(a)
  <2>2. n \in Nat
    BY <1>1, EstimateIsAmount
  <2>3. Reserve(a, n) /\ Becomes(r, [pep[r] EXCEPT !.at = "measuring", !.reserved = n]) /\ lost' = lost
    BY <1>4 DEF Admit
  <2> HIDE DEF n
  <2>4. /\ [pep[r] EXCEPT !.at = "measuring", !.reserved = n].at = "measuring"
        /\ [pep[r] EXCEPT !.at = "measuring", !.reserved = n].reserved = n
    BY <1>1 DEF Pep
  <2>5. Held'[r] = n /\ \A q \in Runs \ {r} : Held'[q] = Held[q]
    BY <2>3, <2>4, BecomesHeld
  <2>6. /\ Reserved(a)' = Reserved(a) + n /\ tenant'.reserved = tenant.reserved + n
        /\ \A b \in Agents \ {a} : Reserved(b)' = Reserved(b)
    BY <1>1, <2>2, <2>3, AccountsMove
  <2> QED BY <2>1, <2>2, <2>3, <2>5, <2>6 DEF Booked
<1>5. CASE MeasureFails(r)
  <2>1. Held[r] = pep[r].reserved
    BY <1>2, <1>5 DEF MeasureFails, Live
  <2>2. Held'[r] = 0 /\ \A q \in Runs \ {r} : Held'[q] = Held[q]
    BY <1>5, EndsHeld DEF MeasureFails
  <2>3. lost'[a] = lost[a] + pep[r].reserved /\ \A b \in Agents \ {a} : lost'[b] = lost[b]
    BY <1>1, <1>5 DEF MeasureFails, ContainmentTypeOK
  <2> QED BY <1>5, <2>1, <2>2, <2>3 DEF MeasureFails, Booked, Reserved
<1>6. CASE NoSlot(r) \/ Latched(r) \/ Finish(r)
  <2>1. Held[r] = pep[r].reserved
    BY <1>2, <1>6 DEF NoSlot, Latched, Finish, Live
  <2>2. Held'[r] = 0 /\ \A q \in Runs \ {r} : Held'[q] = Held[q]
    BY <1>6, EndsHeld DEF NoSlot, Latched, Finish
  <2>3. lost' = lost
    BY <1>6 DEF NoSlot, Latched, Finish
  <2>4. /\ Reserved(a)' = Minus(Reserved(a), pep[r].reserved)
        /\ tenant'.reserved = Minus(tenant.reserved, pep[r].reserved)
        /\ \A b \in Agents \ {a} : Reserved(b)' = Reserved(b)
    <3>1. Release(a, pep[r].reserved) \/ Settled(a, pep[r].reserved, pep[r].cost)
      BY <1>6 DEF NoSlot, Latched, Finish
    <3> QED BY <1>1, <3>1, AccountsMove
  <2> QED BY <2>1, <2>2, <2>3, <2>4 DEF Booked
<1>7. CASE Enter(r) \/ ProcessEnds(r)
  <2>1. Held[r] = pep[r].reserved
    BY <1>2, <1>7 DEF Enter, ProcessEnds, Live
  <2>2. \E p : /\ Becomes(r, p) /\ p.reserved = pep[r].reserved
               /\ p.at \in {"running", "settling"}
    <3>1. /\ [pep[r] EXCEPT !.at = "running", !.pre = vault].at = "running"
          /\ [pep[r] EXCEPT !.at = "running", !.pre = vault].reserved = pep[r].reserved
          /\ [pep[r] EXCEPT !.at = "settling", !.pre = vault, !.outcome = "failed"].at = "settling"
          /\ [pep[r] EXCEPT !.at = "settling", !.pre = vault, !.outcome = "failed"].reserved
               = pep[r].reserved
      BY <1>1 DEF Pep
    <3>2. \A o, c : /\ [pep[r] EXCEPT !.at = "settling", !.outcome = o, !.cost = c].at = "settling"
                    /\ [pep[r] EXCEPT !.at = "settling", !.outcome = o, !.cost = c].reserved
                         = pep[r].reserved
      BY <1>1 DEF Pep
    <3>3. \A o : /\ [pep[r] EXCEPT !.at = "settling", !.outcome = o].at = "settling"
                 /\ [pep[r] EXCEPT !.at = "settling", !.outcome = o].reserved = pep[r].reserved
      BY <1>1 DEF Pep
    <3>4. CASE Enter(r)
      BY <3>1, <3>4 DEF Enter
    <3>5. CASE ProcessEnds(r)
      <4>1. \/ \E k \in Costs :
                 Becomes(r, [pep[r] EXCEPT !.at = "settling", !.outcome = "completed", !.cost = k])
            \/ \E o \in Outcomes : Becomes(r, [pep[r] EXCEPT !.at = "settling", !.outcome = o])
        BY <3>5 DEF ProcessEnds, Outcomes
      <4>2. ASSUME NEW k \in Costs,
                   Becomes(r, [pep[r] EXCEPT !.at = "settling", !.outcome = "completed", !.cost = k])
            PROVE  \E p : /\ Becomes(r, p) /\ p.reserved = pep[r].reserved
                          /\ p.at \in {"running", "settling"}
        <5> DEFINE p == [pep[r] EXCEPT !.at = "settling", !.outcome = "completed", !.cost = k]
        <5>1. p.at = "settling" /\ p.reserved = pep[r].reserved
          BY <3>2
        <5>2. Becomes(r, p)
          BY <4>2
        <5> HIDE DEF p
        <5> QED BY <5>1, <5>2
      <4>3. ASSUME NEW o \in Outcomes, Becomes(r, [pep[r] EXCEPT !.at = "settling", !.outcome = o])
            PROVE  \E p : /\ Becomes(r, p) /\ p.reserved = pep[r].reserved
                          /\ p.at \in {"running", "settling"}
        <5> DEFINE p == [pep[r] EXCEPT !.at = "settling", !.outcome = o]
        <5>1. p.at = "settling" /\ p.reserved = pep[r].reserved
          BY <3>3
        <5>2. Becomes(r, p)
          BY <4>3
        <5> HIDE DEF p
        <5> QED BY <5>1, <5>2
      <4> QED BY <4>1, <4>2, <4>3
    <3> QED BY <1>7, <3>4, <3>5
  <2>3. Held'[r] = Held[r] /\ \A q \in Runs \ {r} : Held'[q] = Held[q]
    BY <2>1, <2>2, BecomesHeld
  <2>4. UNCHANGED << ledger, tenant, lost >>
    BY <1>7 DEF Enter, ProcessEnds, budget
  <2> QED BY <2>3, <2>4 DEF Booked, Reserved
<1>8. CASE FinishFails(r)
  <2>1. Held[r] = pep[r].reserved
    BY <1>2, <1>8 DEF FinishFails, Live
  <2>2. UNCHANGED << ledger, tenant >>
    BY <1>8 DEF FinishFails
  <2> DEFINE p == [pep[r] EXCEPT !.at = "failing", !.outcome = "failed", !.cost = 0]
  <2>3. CASE Becomes(r, p) /\ lost' = lost
    <3>1. p.at = "failing" /\ p.reserved = pep[r].reserved
      BY <1>1 DEF Pep
    <3> HIDE DEF p
    <3>2. Held'[r] = Held[r] /\ \A q \in Runs \ {r} : Held'[q] = Held[q]
      BY <2>1, <2>3, <3>1, BecomesHeld
    <3> QED BY <2>2, <2>3, <3>2 DEF Booked, Reserved
  <2>4. CASE Ends(r, "failed") /\ lost' = [lost EXCEPT ![a] = @ + pep[r].reserved]
    <3>1. Held'[r] = 0 /\ \A q \in Runs \ {r} : Held'[q] = Held[q]
      BY <2>4, EndsHeld
    <3>2. lost'[a] = lost[a] + pep[r].reserved /\ \A b \in Agents \ {a} : lost'[b] = lost[b]
      BY <1>1, <2>4 DEF ContainmentTypeOK
    <3> QED BY <2>1, <2>2, <3>1, <3>2 DEF Booked, Reserved
  <2> QED BY <1>8, <2>3, <2>4 DEF FinishFails
<1> QED BY <1>3, <1>4, <1>5, <1>6, <1>7, <1>8 DEF RunStep

Of(a) == {r \in Runs : AgentOf[r] = a}

LEMMA HeldTyped ==
  ASSUME ContainmentTypeOK
  PROVE  \A r \in Runs : Held[r] \in Nat
BY RunTyped DEF Held

\* A booking keeps both balances.
LEMMA BooksBalance ==
  ASSUME ContainmentTypeOK, ContainmentTypeOK', ReservationsAreOfLiveRuns,
         NEW r \in Runs, Booked(r)
  PROVE  ReservationsAreOfLiveRuns'
<1> DEFINE a == AgentOf[r]
           n == Held[r]
           m == Held'[r]
<1>0. \A q \in Runs : Held'[q] \in Nat
  <2>1. \A q \in Runs : pep'[q].reserved \in Nat
    BY DEF ContainmentTypeOK, Pep
  <2> QED BY <2>1 DEF Held
<1>1. a \in Agents /\ n \in Nat /\ m \in Nat
  BY <1>0, HeldTyped
<1>2. /\ \A q \in Runs : Held[q] \in Nat /\ Held'[q] \in Nat
      /\ \A b \in Agents : lost[b] \in Nat /\ lost'[b] \in Nat
      /\ \A b \in Agents : Reserved(b) \in Nat
      /\ tenant.reserved \in Nat
  BY <1>0, HeldTyped DEF ContainmentTypeOK, Reserved
<1>3. ASSUME NEW b \in Agents, b # a
      PROVE  Reserved(b)' = SumFunctionOnSet(Held', Of(b)) + lost'[b]
  <2>1. IsFiniteSet(Of(b)) /\ \A q \in Of(b) : Held[q] = Held'[q]
    <3>1. Of(b) \subseteq Runs
      BY DEF Of
    <3>2. IsFiniteSet(Of(b))
      BY <3>1, FS_Subset
    <3> QED BY <1>3, <3>2 DEF Of, Booked
  <2>2. SumFunctionOnSet(Held, Of(b)) = SumFunctionOnSet(Held', Of(b))
    BY <2>1, SumSame
  <2>3. Reserved(b)' = Reserved(b) /\ lost'[b] = lost[b]
    BY <1>3 DEF Booked
  <2>4. Reserved(b) = SumFunctionOnSet(Held, Of(b)) + lost[b]
    BY DEF ReservationsAreOfLiveRuns, Reserved, Of
  <2> QED BY <2>2, <2>3, <2>4
<1>4. PICK own \in Nat : /\ SumFunctionOnSet(Held, Of(a)) = n + own
                         /\ SumFunctionOnSet(Held', Of(a)) = m + own
  <2>1. Of(a) \subseteq Runs /\ r \in Of(a)
    BY DEF Of
  <2>2. IsFiniteSet(Of(a))
    BY <2>1, FS_Subset
  <2>3. /\ \A q \in Of(a) : Held[q] \in Nat
        /\ \A q \in Of(a) : Held'[q] \in Nat
        /\ \A q \in Of(a) : q # r => Held'[q] = Held[q]
    BY <1>2, <2>1 DEF Booked
  <2> HIDE DEF a, n, m
  <2>4. \E rest \in Nat : /\ SumFunctionOnSet(Held, Of(a)) = Held[r] + rest
                           /\ SumFunctionOnSet(Held', Of(a)) = Held'[r] + rest
    BY ONLY <2>1, <2>2, <2>3, SumChanges, SMTT(60)
  <2> QED BY <2>4 DEF n, m
<1>5. PICK all \in Nat : /\ SumFunctionOnSet(Held, Runs) = n + all
                         /\ SumFunctionOnSet(Held', Runs) = m + all
  <2>1. \A q \in Runs : q # r => Held'[q] = Held[q]
    BY DEF Booked
  <2>2. IsFiniteSet(Runs) /\ r \in Runs
    OBVIOUS
  <2>3. /\ \A q \in Runs : Held[q] \in Nat
        /\ \A q \in Runs : Held'[q] \in Nat
    BY <1>2
  <2>4. \E rest \in Nat : /\ SumFunctionOnSet(Held, Runs) = Held[r] + rest
                           /\ SumFunctionOnSet(Held', Runs) = Held'[r] + rest
    BY ONLY <2>1, <2>2, <2>3, SumChanges, SMTT(60)
  <2> QED BY <2>4 DEF n, m
<1>6. PICK gone \in Nat : /\ SumFunctionOnSet(lost, Agents) = lost[a] + gone
                          /\ SumFunctionOnSet(lost', Agents) = lost'[a] + gone
  <2>1. \A b \in Agents : b # a => lost'[b] = lost[b]
    BY DEF Booked
  <2>2. IsFiniteSet(Agents) /\ a \in Agents
    BY <1>1
  <2>3. /\ \A b \in Agents : lost[b] \in Nat
        /\ \A b \in Agents : lost'[b] \in Nat
    BY <1>2
  <2> HIDE DEF a
  <2> QED BY ONLY <2>1, <2>2, <2>3, SumChanges, SMTT(60)
<1>7. /\ Reserved(a) = n + own + lost[a]
      /\ tenant.reserved = n + all + (lost[a] + gone)
  BY <1>1, <1>4, <1>5, <1>6 DEF ReservationsAreOfLiveRuns, Reserved, Of
<1>8. /\ lost[a] \in Nat /\ lost'[a] \in Nat /\ Reserved(a) \in Nat /\ tenant.reserved \in Nat
  BY <1>1, <1>2
<1>9. \/ /\ m = n /\ lost'[a] = lost[a]
         /\ Reserved(a)' = Reserved(a) /\ tenant'.reserved = tenant.reserved
      \/ /\ n = 0 /\ lost'[a] = lost[a]
         /\ Reserved(a)' = Reserved(a) + m /\ tenant'.reserved = tenant.reserved + m
      \/ /\ m = 0 /\ lost'[a] = lost[a]
         /\ Reserved(a)' = Minus(Reserved(a), n)
         /\ tenant'.reserved = Minus(tenant.reserved, n)
      \/ /\ m = 0 /\ lost'[a] = lost[a] + n
         /\ Reserved(a)' = Reserved(a) /\ tenant'.reserved = tenant.reserved
  BY DEF Booked
<1>10. /\ Reserved(a)' = m + own + lost'[a]
       /\ tenant'.reserved = m + all + (lost'[a] + gone)
  <2> HIDE DEF a, n, m
  <2> QED BY <1>1, <1>7, <1>8, <1>9 DEF Minus
<1>11. \A b \in Agents : Reserved(b)' = SumFunctionOnSet(Held', Of(b)) + lost'[b]
  BY <1>3, <1>4, <1>10
<1>12. tenant'.reserved = SumFunctionOnSet(Held', Runs) + SumFunctionOnSet(lost', Agents)
  BY <1>5, <1>6, <1>10
<1> QED BY <1>11, <1>12 DEF ReservationsAreOfLiveRuns, Reserved, Of

\* The sums of nothing.
LEMMA BooksStart ==
  ASSUME NEW h, \A r \in Runs : h[r] = 0, NEW l, \A a \in Agents : l[a] = 0
  PROVE  /\ \A a \in Agents : SumFunctionOnSet(h, Of(a)) = 0
         /\ SumFunctionOnSet(h, Runs) = 0 /\ SumFunctionOnSet(l, Agents) = 0
<1>1. ASSUME NEW a \in Agents
      PROVE  SumFunctionOnSet(h, Of(a)) = 0
  <2>1. Of(a) \subseteq Runs
    BY DEF Of
  <2>2. IsFiniteSet(Of(a)) /\ \A r \in Of(a) : h[r] = 0
    BY <2>1, FS_Subset
  <2> QED BY <2>2, SumOfZeros
<1>2. SumFunctionOnSet(h, Runs) = 0 /\ SumFunctionOnSet(l, Agents) = 0
  BY SumOfZeros
<1> QED BY <1>1, <1>2

LEMMA BooksInit == CInit => ReservationsAreOfLiveRuns
<1> SUFFICES ASSUME CInit PROVE ReservationsAreOfLiveRuns
  OBVIOUS
<1>1. \A r \in Runs : Held[r] = 0
  BY DEF CInit, OutPep, Held, Live
<1>2. /\ \A a \in Agents : lost[a] = 0 /\ ledger[a].reserved = 0
      /\ tenant.reserved = 0
  BY DEF CInit, Memory
<1>3. /\ \A a \in Agents : SumFunctionOnSet(Held, Of(a)) = 0
      /\ SumFunctionOnSet(Held, Runs) = 0 /\ SumFunctionOnSet(lost, Agents) = 0
  BY <1>1, <1>2, BooksStart
<1> QED BY <1>2, <1>3 DEF ReservationsAreOfLiveRuns, Of

LEMMA BooksStep ==
  ContainmentTypeOK /\ ReservationsAreOfLiveRuns /\ [CNext]_cvars => ReservationsAreOfLiveRuns'
<1> SUFFICES ASSUME ContainmentTypeOK, ReservationsAreOfLiveRuns, [CNext]_cvars
             PROVE  ReservationsAreOfLiveRuns'
  OBVIOUS
<1>1. ContainmentTypeOK'
  BY TypeStep
<1>2. ASSUME NEW r \in Runs, Refuse(r) \/ Admit(r) \/ RunStep(r)
      PROVE  ReservationsAreOfLiveRuns'
  BY <1>1, <1>2, StepsBook, BooksBalance
<1>3. CASE Reboot
  <2>1. \A r \in Runs : ~Live(r)'
    BY <1>3 DEF Reboot, OutPep, Live
  <2>2. \A r \in Runs : Held'[r] = 0
    BY <2>1 DEF Held
  <2>3. /\ \A a \in Agents : lost'[a] = 0 /\ ledger'[a].reserved = 0
        /\ tenant'.reserved = 0
    BY <1>3 DEF Reboot, Memory
  <2>4. /\ \A a \in Agents : SumFunctionOnSet(Held', Of(a)) = 0
        /\ SumFunctionOnSet(Held', Runs) = 0 /\ SumFunctionOnSet(lost', Agents) = 0
    BY <2>2, <2>3, BooksStart
  <2> QED BY <2>3, <2>4 DEF ReservationsAreOfLiveRuns, Of
<1>4. CASE Around \/ (\E a \in Agents : CancelStep(a)) \/ UNCHANGED cvars
  <2>1. UNCHANGED << ledger, tenant, lost, pep >>
    BY <1>4 DEF Around, Arm, Disarm, VaultChanges, CooldownPasses, CancelStep, cvars, budget
  <2> QED BY <2>1 DEF ReservationsAreOfLiveRuns, Held, Live
<1> QED BY <1>2, <1>3, <1>4 DEF CNext

LEMMA BooksHold == CSpec => []ReservationsAreOfLiveRuns
<1>1. CSpec => []ContainmentTypeOK
  <2>1. ContainmentInv => ContainmentTypeOK
    BY DEF ContainmentInv
  <2> QED BY <2>1, InvHolds, PTL
<1> QED BY <1>1, BooksInit, BooksStep, PTL DEF CSpec

-----------------------------------------------------------------------------
(***************************************************************************)
(* The agent service, with its queue, its stops and its restarts, and the  *)
(* turns beside it, take no step of the guarded runner and of AEGIS that   *)
(* Containment does not allow: it implements CSpec, so that everything     *)
(* proved of CSpec holds of it.                                            *)
(***************************************************************************)
THEOREM ServiceIsContained == Spec => CSpec
<1>1. Init => CInit
  BY DEF Init
<1>2. [Next]_vars => [CNext]_cvars
  <2> SUFFICES ASSUME [Next]_vars PROVE [CNext]_cvars
    OBVIOUS
  <2>1. CASE UNCHANGED vars
    BY <2>1 DEF vars
  <2>2. ASSUME NEW s \in Stops, RequestStop(s) PROVE CNext
    <3>1. PICK a \in ServiceAgents : CancelStep(a)
      BY <2>2 DEF RequestStop
    <3>2. a \in Agents
      BY ServiceAssumption DEF ServiceAgents
    <3> QED BY <3>1, <3>2 DEF CNext
  <2>3. ASSUME NEW s \in Stops, StopWakes(s) \/ Archived(s) PROVE UNCHANGED cvars
    BY <2>3 DEF StopWakes, Archived
  <2>4. ASSUME NEW r \in ServiceRuns, Send(r) PROVE UNCHANGED cvars
    BY <2>4 DEF Send
  <2>5. ASSUME NEW a \in ServiceAgents, StartAgent(a) PROVE UNCHANGED cvars
    BY <2>5 DEF StartAgent
  <2>6. ASSUME NEW r \in Runs, TurnRun(r) \/ Step(r) PROVE CNext
    BY <2>6 DEF TurnRun, Step, CNext
  <2>7. CASE CommitSend \/ CommitEnd \/ CommitReady \/ CommitStopped \/ CommitDelete \/ WriteFails
    BY <2>7 DEF CommitSend, CommitEnd, CommitReady, CommitStopped, CommitDelete, WriteFails
  <2>8. CASE CommitStart
    <3>1. PICK r \in ServiceRuns : UNCHANGED cvars \/ Admit(r) \/ Refuse(r)
      BY <2>8 DEF CommitStart
    <3>2. r \in Runs
      BY ServiceAssumption
    <3> QED BY <3>1, <3>2 DEF CNext
  <2>9. CASE Restart \/ (Quiet /\ Around /\ UNCHANGED svars)
    BY <2>9 DEF Restart, CNext
  <2> QED BY <2>1, <2>2, <2>3, <2>4, <2>5, <2>6, <2>7, <2>8, <2>9 DEF Next, Serve
<1> QED BY <1>1, <1>2, PTL DEF Spec, CSpec

\* Type correctness of AEGIS and the runner under the agent service.
THEOREM ContainmentTypeCorrect == Spec => []ContainmentTypeOK
<1>1. ContainmentInv => ContainmentTypeOK
  BY DEF ContainmentInv
<1> QED BY <1>1, InvHolds, ServiceIsContained, PTL

\* A capability is worth something exactly while its run is inside, on
\* whichever way the run leaves; and each process is of one such run.
THEOREM CapabilitiesAreOfRuns == Spec => []CapabilitiesDieWithTheRun
<1>1. ContainmentInv => CapabilitiesDieWithTheRun
  BY DEF ContainmentInv
<1> QED BY <1>1, InvHolds, ServiceIsContained, PTL

\* KS-9: while the kill switch is armed no process starts.
THEOREM ArmedMeansNoStart == Spec => ArmedLatchStartsNothing
<1>1. ContainmentInv /\ [CNext]_cvars =>
        [latch = "armed" => \A a \in Agents : process'[a] # process[a] => process'[a] = None]_cvars
  BY StartsAreUnlatched DEF ContainmentInv
<1> QED BY <1>1, InvHolds, ServiceIsContained, PTL DEF ArmedLatchStartsNothing, CSpec

\* The ledger's reservations are those of the runs under way, and the lost.
THEOREM ReservationsAreBalanced == Spec => []ReservationsAreOfLiveRuns
BY BooksHold, ServiceIsContained, PTL

-----------------------------------------------------------------------------
(* The agent service: its queue of mutations.                              *)

Statuses   == {"ready", "busy", "stopped", "error", "gone"}
Records    == {"none", "queued", "running", "gone"} \cup Terminal
Executions == {"none", "asked", "begun", "over", "rejected"}

\* A run that is to be settled has an outcome.
OutcomesSet ==
  \A r \in Runs : pep[r].at \in {"settling", "failing"} => pep[r].outcome # "none"

LEMMA OutcomesStep ==
  ASSUME ContainmentTypeOK, OutcomesSet, NEW r \in Runs, Refuse(r) \/ Admit(r) \/ RunStep(r)
  PROVE  /\ OutcomesSet'
         /\ pep'[r].at = "over" => pep'[r].outcome \in Terminal
<1> DEFINE Ok(p) == /\ p.at \in {"settling", "failing"} => p.outcome # "none"
                    /\ p.at = "over" => p.outcome \in Terminal
<1>1. pep[r] \in Pep /\ pep \in [Runs -> Pep]
  BY DEF ContainmentTypeOK
<1>2. ASSUME NEW p, Becomes(r, p), Ok(p)
      PROVE  /\ OutcomesSet'
             /\ pep'[r].at = "over" => pep'[r].outcome \in Terminal
  <2>1. pep'[r] = p /\ \A q \in Runs \ {r} : pep'[q] = pep[q]
    BY <1>1, <1>2 DEF Becomes
  <2> QED BY <1>2, <2>1 DEF OutcomesSet
<1>3. \A o \in Terminal : Ok([pep[r] EXCEPT !.at = "over", !.outcome = o])
  BY <1>1 DEF Pep
<1>4. /\ \A n : Ok([pep[r] EXCEPT !.at = "measuring", !.reserved = n])
      /\ Ok([pep[r] EXCEPT !.at = "running", !.pre = vault])
  BY <1>1 DEF Pep
<1>5. \A o \in Outcomes \ {"none"} : Ok([pep[r] EXCEPT !.at = "settling", !.outcome = o])
  BY <1>1 DEF Pep
<1>6. Ok([pep[r] EXCEPT !.at = "settling", !.pre = vault, !.outcome = "failed"])
  BY <1>1 DEF Pep
<1>7. \A k : Ok([pep[r] EXCEPT !.at = "settling", !.outcome = "completed", !.cost = k])
  BY <1>1 DEF Pep
<1>8. Ok([pep[r] EXCEPT !.at = "failing", !.outcome = "failed", !.cost = 0])
  BY <1>1 DEF Pep
<1>9. {"blocked", "failed"} \subseteq Terminal /\ {"failed", "cancelled", "killed"} \subseteq Outcomes \ {"none"}
  BY DEF Terminal, Outcomes
<1> HIDE DEF Ok
<1>10. CASE Refuse(r) \/ MeasureFails(r) \/ NoSlot(r) \/ Latched(r)
  BY <1>2, <1>3, <1>9, <1>10 DEF Refuse, MeasureFails, NoSlot, Latched, Ends
<1>11. CASE Admit(r) \/ Enter(r)
  <2>1. \/ Becomes(r, [pep[r] EXCEPT !.at = "measuring", !.reserved = Estimate(AgentOf[r])])
        \/ Becomes(r, [pep[r] EXCEPT !.at = "running", !.pre = vault])
        \/ Becomes(r, [pep[r] EXCEPT !.at = "settling", !.pre = vault, !.outcome = "failed"])
    BY <1>11 DEF Admit, Enter
  <2>2. Ok([pep[r] EXCEPT !.at = "measuring", !.reserved = Estimate(AgentOf[r])])
    BY <1>4
  <2> QED BY <1>2, <1>4, <1>6, <2>1, <2>2
<1>12. CASE ProcessEnds(r)
  BY <1>2, <1>5, <1>7, <1>9, <1>12 DEF ProcessEnds
<1>13. CASE Finish(r)
  <2>1. pep[r].outcome \in Terminal
    BY <1>1, <1>13 DEF Finish, OutcomesSet, Pep, Outcomes, Terminal
  <2> QED BY <1>2, <1>3, <1>13, <2>1 DEF Finish, Ends
<1>14. CASE FinishFails(r)
  BY <1>2, <1>3, <1>8, <1>9, <1>14 DEF FinishFails, Ends
<1> QED BY <1>10, <1>11, <1>12, <1>13, <1>14 DEF RunStep

LEMMA OutcomesHold == CSpec => []OutcomesSet
<1>1. CInit => OutcomesSet
  BY DEF CInit, OutPep, OutcomesSet
<1>2. ContainmentTypeOK /\ OutcomesSet /\ [CNext]_cvars => OutcomesSet'
  <2> SUFFICES ASSUME ContainmentTypeOK, OutcomesSet, [CNext]_cvars PROVE OutcomesSet'
    OBVIOUS
  <2>1. ASSUME NEW r \in Runs, Refuse(r) \/ Admit(r) \/ RunStep(r) PROVE OutcomesSet'
    BY <2>1, OutcomesStep
  <2>2. CASE Reboot
    <3>1. \A r \in Runs : pep'[r].at \in {"out", "over"}
      BY <2>2 DEF Reboot, OutPep
    <3> QED BY <3>1 DEF OutcomesSet
  <2>3. CASE Around \/ (\E a \in Agents : CancelStep(a)) \/ UNCHANGED cvars
    <3>1. pep' = pep
      BY <2>3 DEF Around, Arm, Disarm, VaultChanges, CooldownPasses, CancelStep, cvars
    <3> QED BY <3>1 DEF OutcomesSet
  <2> QED BY <2>1, <2>2, <2>3 DEF CNext
<1>3. ContainmentInv => ContainmentTypeOK
  BY DEF ContainmentInv
<1> QED BY <1>1, <1>2, <1>3, InvHolds, PTL DEF CSpec

-----------------------------------------------------------------------------
\* A request under way has an agent.
StopsOK ==
  /\ stop \in [Stops -> Stop]
  /\ \A s \in Stops : stop[s].at \notin {"none", "done"} => stop[s].agent \in ServiceAgents

\* Type correctness of the service itself, but for the bound on its events.
Typed ==
  /\ status \in [ServiceAgents -> Statuses]
  /\ record \in [ServiceRuns -> Records]
  /\ queue \in Seq(Mutation)
  /\ executing \in [ServiceAgents -> ServiceRuns \cup {None}]
  /\ execution \in [ServiceRuns -> Executions]
  /\ flags \subseteq ServiceAgents
  /\ StopsOK
  /\ unwritten \in BOOLEAN

EventsOK == events \in 0 .. MaxEvents

LEMMA ServiceTypes == ContainmentTypeOK /\ Typed /\ EventsOK => TypeOK
BY DEF TypeOK, EventsOK, Typed, StopsOK, Statuses, Records, Executions

LEMMA Members ==
  /\ ServiceRuns \subseteq Runs /\ MaxEvents \in Nat
  /\ \A r \in ServiceRuns : AgentOf[r] \in ServiceAgents
  /\ ServiceAgents \subseteq Agents
  /\ \A r \in ServiceRuns : [op |-> "send", run |-> r] \in Mutation
  /\ \A r \in ServiceRuns : [op |-> "start", run |-> r] \in Mutation
  /\ \A r \in ServiceRuns, o \in Terminal : [op |-> "end", run |-> r, result |-> o] \in Mutation
  /\ \A a \in ServiceAgents : [op |-> "ready", agent |-> a] \in Mutation
  /\ \A s \in Stops : [op |-> "stopped", stop |-> s] \in Mutation
  /\ \A s \in Stops : [op |-> "delete", stop |-> s] \in Mutation
BY ServiceAssumption DEF ServiceAgents, Mutation

\* The kinds of mutation, by their op.
LEMMA Ops ==
  ASSUME NEW m \in Mutation
  PROVE  /\ m.op \in {"send", "start", "end", "ready", "stopped", "delete"}
         /\ m.op \in {"send", "start", "end"} => m.run \in ServiceRuns
         /\ m.op = "end" => m.result \in Terminal /\ m = [op |-> "end", run |-> m.run, result |-> m.result]
         /\ m.op = "ready" => m.agent \in ServiceAgents
         /\ m.op \in {"stopped", "delete"} => m.stop \in Stops
BY DEF Mutation

LEMMA NoMutations == << >> \in Seq(Mutation)
OBVIOUS

LEMMA HeadTyped ==
  ASSUME Typed, queue # << >>
  PROVE  /\ Head(queue) \in Mutation /\ Tail(queue) \in Seq(Mutation)
         /\ Head(queue) = queue[1] /\ 1 \in DOMAIN queue
         /\ \A m \in Mutation : Append(Tail(queue), m) \in Seq(Mutation)
BY DEF Typed

\* Records of requests.
LEMMA StopTyped ==
  ASSUME StopsOK, NEW s \in Stops
  PROVE  /\ stop[s] \in Stop /\ stop[s].agent \in ServiceAgents \cup {None}
         /\ stop[s].run \in Runs \cup {None}
         /\ NoStop \in Stop /\ [NoStop EXCEPT !.at = "done"] \in Stop
<1>1. stop[s] \in Stop
  BY DEF StopsOK
<1> QED BY <1>1 DEF Stop, NoStop, Places

\* A request goes on.
LEMMA StopMoves ==
  ASSUME StopsOK, NEW s \in Stops, NEW p \in Stop, stop' = [stop EXCEPT ![s] = p],
         p.at \notin {"none", "done"} => p.agent \in ServiceAgents
  PROVE  StopsOK'
BY DEF StopsOK

LEMMA StopGoesTo ==
  ASSUME StopsOK, NEW s \in Stops, NEW at \in Places, stop' = [stop EXCEPT ![s].at = at],
         at = "done" \/ stop[s].at \notin {"none", "done"}
  PROVE  StopsOK'
<1> DEFINE p == [stop[s] EXCEPT !.at = at]
<1>1. p \in Stop /\ p.at = at /\ p.agent = stop[s].agent
  BY StopTyped DEF Stop
<1>2. stop' = [stop EXCEPT ![s] = p]
  BY DEF StopsOK
<1>3. p.at \notin {"none", "done"} => p.agent \in ServiceAgents
  BY <1>1 DEF StopsOK
<1> HIDE DEF p
<1> QED BY <1>1, <1>2, <1>3, StopMoves

LEMMA StopAwaits ==
  ASSUME StopsOK, NEW s \in Stops, NEW r \in Runs, stop[s].at = "cancelling",
         stop' = [stop EXCEPT ![s].at = "awaiting", ![s].run = r]
  PROVE  StopsOK'
<1> DEFINE o == [stop[s] EXCEPT !.at = "awaiting"]
           p == [o EXCEPT !.run = r]
           f == [stop EXCEPT ![s].at = "awaiting"]
<1>1. o \in Stop /\ o.at = "awaiting" /\ o.agent = stop[s].agent
  BY StopTyped DEF Stop, Places
<1>2. f \in [Stops -> Stop] /\ f[s] = o /\ \A t \in Stops \ {s} : f[t] = stop[t]
  BY <1>1 DEF StopsOK
<1>3. stop' = [f EXCEPT ![s].run = r]
  OBVIOUS
<1> HIDE DEF o, f
<1>4. p \in Stop /\ p.at = "awaiting" /\ p.agent = stop[s].agent
  BY <1>1 DEF Stop
<1>5. stop' = [f EXCEPT ![s] = p]
  BY <1>2, <1>3
<1> HIDE DEF p
<1>6. stop' = [stop EXCEPT ![s] = p]
  BY <1>2, <1>5 DEF StopsOK
<1>7. stop[s].agent \in ServiceAgents
  BY DEF StopsOK
<1> QED BY <1>4, <1>6, <1>7, StopMoves

LEMMA RequestsTyped ==
  ASSUME Typed, ContainmentTypeOK, NEW s \in Stops,
         RequestStop(s) \/ StopWakes(s) \/ Archived(s)
  PROVE  Typed'
<1>1. /\ [op |-> "stopped", stop |-> s] \in Mutation
      /\ [op |-> "delete", stop |-> s] \in Mutation
  BY Members
<1>2. queue \in Seq(Mutation) /\ flags \subseteq ServiceAgents /\ StopsOK
  BY DEF Typed
<1>3. /\ Append(queue, [op |-> "stopped", stop |-> s]) \in Seq(Mutation)
      /\ Append(queue, [op |-> "delete", stop |-> s]) \in Seq(Mutation)
  BY <1>1, <1>2
<1>4. {"cancelling", "awaiting", "archiving", "setting", "done"} \subseteq Places
  BY DEF Places
<1>5. ASSUME Leaves(s), stop[s].at \notin {"none", "done"}
      PROVE  flags' \subseteq ServiceAgents /\ StopsOK' /\ queue' \in Seq(Mutation)
  <2>1. PICK at \in {"archiving", "setting"} : stop' = [stop EXCEPT ![s].at = at]
    BY <1>5 DEF Leaves
  <2>2. StopsOK'
    BY <1>2, <1>4, <1>5, <2>1, StopGoesTo
  <2> QED BY <1>2, <1>3, <1>5, <2>2 DEF Leaves
<1>6. CASE RequestStop(s)
  <2>1. PICK a \in ServiceAgents, kind \in {"stop", "delete"} :
          /\ flags' = flags \cup {a}
          /\ stop' = [stop EXCEPT ![s] = [at |-> "cancelling", kind |-> kind, agent |-> a,
                                run |-> process[a]]]
    BY <1>6 DEF RequestStop
  <2> DEFINE p == [at |-> "cancelling", kind |-> kind, agent |-> a, run |-> process[a]]
  <2>2. process[a] \in Runs \cup {None}
    BY Members DEF ContainmentTypeOK
  <2>3. p \in Stop /\ p.agent \in ServiceAgents
    BY <1>4, <2>2 DEF Stop
  <2>4. stop' = [stop EXCEPT ![s] = p]
    BY <2>1
  <2> HIDE DEF p
  <2>5. StopsOK'
    BY <1>2, <2>3, <2>4, StopMoves
  <2> QED BY <1>2, <1>6, <2>1, <2>5 DEF RequestStop, db, Typed
<1>7. CASE StopWakes(s)
  <2>1. UNCHANGED << status, record, executing, execution, unwritten >>
    BY <1>7 DEF StopWakes, db
  <2>2. flags' \subseteq ServiceAgents /\ StopsOK' /\ queue' \in Seq(Mutation)
    <3>1. stop[s].at \in {"cancelling", "awaiting"}
      BY <1>7 DEF StopWakes
    <3>2. stop[s].agent \in ServiceAgents
      BY <1>2, <3>1 DEF StopsOK
    <3>3. CASE /\ stop[s].at = "cancelling" /\ executing[stop[s].agent] # None
               /\ stop' = [stop EXCEPT ![s].at = "awaiting", ![s].run = executing[stop[s].agent]]
               /\ UNCHANGED << flags, queue >>
      <4>1. executing[stop[s].agent] \in Runs
        BY <3>2, <3>3, Members DEF Typed
      <4>2. StopsOK'
        BY <1>2, <3>3, <4>1, StopAwaits
      <4> QED BY <1>2, <3>3, <4>2
    <3>4. CASE Leaves(s)
      BY <1>5, <3>1, <3>4
    <3>5. CASE /\ flags' = flags \ {stop[s].agent}
               /\ stop' = [stop EXCEPT ![s].at = "done"] /\ UNCHANGED queue
      BY <1>2, <1>4, <3>5, StopGoesTo
    <3> QED BY <1>7, <3>3, <3>4, <3>5 DEF StopWakes
  <2> QED BY <2>1, <2>2 DEF Typed
<1>8. CASE Archived(s)
  <2>1. StopsOK' /\ queue' \in Seq(Mutation)
    BY <1>2, <1>3, <1>4, <1>8, StopGoesTo DEF Archived
  <2> QED BY <1>8, <2>1 DEF Archived, db, Typed
<1> QED BY <1>6, <1>7, <1>8

\* The mutations.
LEMMA CommitsTyped ==
  ASSUME Typed, ContainmentTypeOK, ContainmentTypeOK', OutcomesSet,
         CommitSend \/ CommitStart \/ CommitEnd \/ CommitReady \/ CommitStopped \/ CommitDelete
  PROVE  Typed'
<1> DEFINE h == Head(queue)
<1>1. /\ h \in Mutation /\ Tail(queue) \in Seq(Mutation)
      /\ \A m \in Mutation : Append(Tail(queue), m) \in Seq(Mutation)
  <2>1. queue # << >>
    BY DEF CommitSend, CommitStart, CommitEnd, CommitReady, CommitStopped, CommitDelete, Commits
  <2> QED BY <2>1, HeadTyped
<1>2. /\ status \in [ServiceAgents -> Statuses] /\ record \in [ServiceRuns -> Records]
      /\ executing \in [ServiceAgents -> ServiceRuns \cup {None}]
      /\ execution \in [ServiceRuns -> Executions]
      /\ flags \subseteq ServiceAgents /\ StopsOK /\ unwritten \in BOOLEAN
  BY DEF Typed
<1>3. /\ {"busy", "ready", "stopped", "error", "gone"} \subseteq Statuses
      /\ {"none", "queued", "running", "gone"} \subseteq Records /\ Terminal \subseteq Records
      /\ {"begun", "over", "asked", "rejected"} \subseteq Executions
      /\ "cancelled" \in Terminal /\ "done" \in Places
  BY DEF Statuses, Records, Executions, Terminal, Places
<1>4. /\ h.op \in {"send", "start", "end"} => h.run \in ServiceRuns
      /\ h.op = "end" => h.result \in Terminal
      /\ h.op \in {"stopped", "delete"} => h.stop \in Stops
  BY <1>1, Ops
<1> HIDE DEF h
<1>5. CASE CommitSend
  <2>1. h.op = "send"
    BY <1>5 DEF CommitSend, Commits, h
  <2>2. [op |-> "start", run |-> h.run] \in Mutation
    BY <1>4, <2>1, Members
  <2>3. h.run \in ServiceRuns /\ AgentOf[h.run] \in ServiceAgents
    BY <1>4, <2>1, Members
  <2>4. queue' = Append(Tail(queue), [op |-> "start", run |-> h.run]) \/ queue' = Tail(queue)
    BY <1>5 DEF CommitSend, h
  <2>5. queue' \in Seq(Mutation)
    BY <1>1, <2>2, <2>4
  <2>6. status' \in [ServiceAgents -> Statuses] /\ record' \in [ServiceRuns -> Records]
    BY <1>2, <1>3, <1>5 DEF CommitSend, h, db
  <2>7. /\ executing' \in [ServiceAgents -> ServiceRuns \cup {None}]
        /\ execution' \in [ServiceRuns -> Executions]
    BY <1>2, <1>3, <1>5, <2>3, SMTT(40) DEF CommitSend, h, db
  <2> QED BY <1>2, <1>5, <2>5, <2>6, <2>7 DEF CommitSend, Typed, StopsOK
<1>6. CASE CommitStart
  <2>1. PICK r \in ServiceRuns :
          /\ record' = [record EXCEPT ![r] = IF @ = "gone" THEN @ ELSE "running"]
          /\ \/ queue' = Append(Tail(queue), [op |-> "end", run |-> r, result |-> "cancelled"])
             \/ queue' = Tail(queue)
             \/ Refuse(r) /\ queue' = Append(Tail(queue), [op |-> "end", run |-> r, result |-> Result(r)])
          /\ UNCHANGED << status, executing, execution, flags, stop, unwritten, events >>
    BY <1>6 DEF CommitStart
  <2>2. Refuse(r) => Result(r) \in Terminal
    <3> SUFFICES ASSUME Refuse(r) PROVE Result(r) \in Terminal
      OBVIOUS
    <3>1. r \in Runs
      BY Members
    <3>2. pep'[r].at = "over"
      BY <3>1, BecomesAt DEF Refuse
    <3>3. pep'[r].outcome \in Terminal
      BY <3>1, <3>2, OutcomesStep
    <3> QED BY <3>3 DEF Result, Terminal
  <2>3. queue' \in Seq(Mutation)
    <3>1. [op |-> "end", run |-> r, result |-> "cancelled"] \in Mutation
      BY <1>3, Members
    <3>2. Refuse(r) => [op |-> "end", run |-> r, result |-> Result(r)] \in Mutation
      BY <2>2, Members
    <3> QED BY <1>1, <2>1, <3>1, <3>2
  <2>4. record' \in [ServiceRuns -> Records]
    BY <1>2, <1>3, <2>1
  <2> QED BY <1>2, <2>1, <2>3, <2>4 DEF Typed, StopsOK
<1>7. CASE CommitEnd
  <2>1. h.op = "end"
    BY <1>7 DEF CommitEnd, Commits, h
  <2>2. status' \in [ServiceAgents -> Statuses] /\ record' \in [ServiceRuns -> Records]
    BY <1>2, <1>3, <1>4, <1>7, <2>1 DEF CommitEnd, h, db
  <2>3. /\ executing' \in [ServiceAgents -> ServiceRuns \cup {None}]
        /\ execution' \in [ServiceRuns -> Executions]
    BY <1>2, <1>3, <1>7 DEF CommitEnd, Resolves, h
  <2> QED BY <1>1, <1>2, <1>7, <2>2, <2>3 DEF CommitEnd, Typed, StopsOK
<1>8. CASE CommitReady
  BY <1>1, <1>2, <1>3, <1>8 DEF CommitReady, Typed, StopsOK
<1>9. CASE CommitStopped \/ CommitDelete
  <2>1. h.op \in {"stopped", "delete"}
    BY <1>9 DEF CommitStopped, CommitDelete, Commits, h
  <2>2. StopsOK'
    <3>1. h.stop \in Stops /\ stop' = [stop EXCEPT ![h.stop].at = "done"]
      BY <1>4, <1>9, <2>1 DEF CommitStopped, CommitDelete, h
    <3> QED BY <1>2, <1>3, <3>1, StopGoesTo
  <2>3. status' \in [ServiceAgents -> Statuses] /\ record' \in [ServiceRuns -> Records]
    <3>1. \/ status' = status
          \/ \E a : status' = [status EXCEPT ![a] = "stopped"]
          \/ \E a : status' = [status EXCEPT ![a] = "gone"]
      BY <1>9 DEF CommitStopped, CommitDelete
    <3>2. \/ record' = record
          \/ \E a : record' = [r \in ServiceRuns |-> IF AgentOf[r] = a /\ record[r] # "none"
                                                     THEN "gone" ELSE record[r]]
      BY <1>9 DEF CommitStopped, CommitDelete
    <3>3. status' \in [ServiceAgents -> Statuses]
      BY ONLY <1>2, <1>3, <3>1
    <3>4. record' \in [ServiceRuns -> Records]
      BY ONLY <1>2, <1>3, <3>2
    <3> QED BY <3>3, <3>4
  <2> QED BY <1>1, <1>2, <1>9, <2>2, <2>3 DEF CommitStopped, CommitDelete, Typed
<1> QED BY <1>5, <1>6, <1>7, <1>8, <1>9

LEMMA FailuresTyped ==
  ASSUME Typed, WriteFails \/ Restart
  PROVE  Typed'
<1> DEFINE h == Head(queue)
<1>1. /\ status \in [ServiceAgents -> Statuses] /\ record \in [ServiceRuns -> Records]
      /\ executing \in [ServiceAgents -> ServiceRuns \cup {None}]
      /\ execution \in [ServiceRuns -> Executions]
      /\ flags \subseteq ServiceAgents /\ StopsOK /\ unwritten \in BOOLEAN
  BY DEF Typed
<1>2. /\ {"ready"} \subseteq Statuses /\ Terminal \subseteq Records
      /\ {"none", "over", "rejected"} \subseteq Executions
      /\ {"cancelled", "failed"} \subseteq Terminal /\ "done" \in Places
  BY DEF Statuses, Records, Executions, Terminal, Places
<1>3. CASE WriteFails
  <2>1. /\ h \in Mutation /\ Tail(queue) \in Seq(Mutation)
        /\ \A m \in Mutation : Append(Tail(queue), m) \in Seq(Mutation)
    BY <1>3, HeadTyped DEF WriteFails
  <2>2. /\ h.op \in {"send", "start", "end"} => h.run \in ServiceRuns
        /\ h.op = "end" => h = [op |-> "end", run |-> h.run, result |-> h.result]
        /\ h.op \in {"stopped", "delete"} => h.stop \in Stops
    BY <2>1, Ops
  <2>3. h.op = "end" => [h EXCEPT !.result = "failed"] \in Mutation
    <3> SUFFICES ASSUME h.op = "end" PROVE [h EXCEPT !.result = "failed"] \in Mutation
      OBVIOUS
    <3> DEFINE r == h.run
               o == h.result
    <3>1. h = [op |-> "end", run |-> r, result |-> o] /\ r \in ServiceRuns
      BY <2>2
    <3> HIDE DEF h, r, o
    <3>2. [h EXCEPT !.result = "failed"] = [op |-> "end", run |-> r, result |-> "failed"]
      BY <3>1
    <3> QED BY <1>2, <3>1, <3>2, Members
  <2>4. queue' \in Seq(Mutation)
    BY <1>3, <2>1, <2>3 DEF WriteFails
  <2>5. /\ executing' \in [ServiceAgents -> ServiceRuns \cup {None}]
        /\ execution' \in [ServiceRuns -> Executions]
    <3> HIDE DEF h
    <3> QED BY <1>1, <1>2, <1>3, <2>2 DEF WriteFails, Resolves, h
  <2>6. StopsOK'
    <3>1. CASE UNCHANGED stop
      BY <1>1, <3>1 DEF StopsOK
    <3>2. CASE h.op \in {"stopped", "delete"} /\ stop' = [stop EXCEPT ![h.stop].at = "done"]
      BY <1>1, <1>2, <2>2, <3>2, StopGoesTo
    <3> QED BY <1>3, <3>1, <3>2 DEF WriteFails
  <2> QED BY <1>1, <1>3, <2>4, <2>5, <2>6 DEF WriteFails, db, Typed
<1>4. CASE Restart
  <2>1. StopsOK'
    <3>1. NoStop \in Stop /\ [NoStop EXCEPT !.at = "done"] \in Stop
      BY DEF NoStop, Stop, Places
    <3>2. NoStop.at = "none" /\ [NoStop EXCEPT !.at = "done"].at = "done"
      BY DEF NoStop
    <3>3. stop' = [s \in Stops |-> IF stop[s].at = "none" THEN NoStop ELSE [NoStop EXCEPT !.at = "done"]]
      BY <1>4 DEF Restart
    <3> QED BY <3>1, <3>2, <3>3 DEF StopsOK
  <2>2. status' \in [ServiceAgents -> Statuses] /\ record' \in [ServiceRuns -> Records]
    BY <1>1, <1>2, <1>4 DEF Restart
  <2>3. /\ executing' \in [ServiceAgents -> ServiceRuns \cup {None}]
        /\ execution' \in [ServiceRuns -> Executions]
    BY <1>1, <1>2, <1>4 DEF Restart
  <2>4. queue' \in Seq(Mutation) /\ flags' \subseteq ServiceAgents /\ unwritten' \in BOOLEAN
    <3>1. queue' = << >> /\ flags' = {} /\ unwritten' = FALSE
      BY <1>4 DEF Restart
    <3> QED BY <3>1, NoMutations
  <2> QED BY <2>1, <2>2, <2>3, <2>4 DEF Typed
<1> QED BY <1>3, <1>4

LEMMA OthersTyped ==
  ASSUME Typed, ContainmentTypeOK, ContainmentTypeOK', OutcomesSet,
         \/ \E r \in ServiceRuns : Send(r)
         \/ \E a \in ServiceAgents : StartAgent(a)
         \/ \E r \in Runs : Step(r)
         \/ UNCHANGED svars
  PROVE  Typed'
<1>1. ASSUME NEW r \in ServiceRuns, Send(r) PROVE Typed'
  <2>1. Append(queue, [op |-> "send", run |-> r]) \in Seq(Mutation)
    <3>1. [op |-> "send", run |-> r] \in Mutation
      BY Members
    <3> QED BY <3>1 DEF Typed
  <2>2. "asked" \in Executions
    BY DEF Executions
  <2> QED BY <1>1, <2>1, <2>2 DEF Send, Typed, StopsOK, db
<1>2. ASSUME NEW a \in ServiceAgents, StartAgent(a) PROVE Typed'
  <2>1. Append(queue, [op |-> "ready", agent |-> a]) \in Seq(Mutation)
    <3>1. [op |-> "ready", agent |-> a] \in Mutation
      BY Members
    <3> QED BY <3>1 DEF Typed
  <2> QED BY <1>2, <2>1 DEF StartAgent, Typed, StopsOK, db
<1>3. ASSUME NEW r \in Runs, Step(r) PROVE Typed'
  <2>1. queue' \in Seq(Mutation)
    <3>1. CASE r \in ServiceRuns /\ pep'[r].at = "over"
      <4>1. pep'[r].outcome \in Terminal
        BY <1>3, <3>1, OutcomesStep DEF Step
      <4>2. Result(r) \in Terminal
        BY <4>1 DEF Result, Terminal
      <4>3. [op |-> "end", run |-> r, result |-> Result(r)] \in Mutation
        BY <3>1, <4>2, Members
      <4>4. queue' = Append(queue, [op |-> "end", run |-> r, result |-> Result(r)])
        BY <1>3, <3>1 DEF Step
      <4> QED BY <4>3, <4>4 DEF Typed
    <3>2. CASE ~(r \in ServiceRuns /\ pep'[r].at = "over")
      BY <1>3, <3>2 DEF Step, Typed
    <3> QED BY <3>1, <3>2
  <2> QED BY <1>3, <2>1 DEF Step, Typed, StopsOK, db
<1>4. CASE UNCHANGED svars
  BY <1>4 DEF svars, db, Typed, StopsOK
<1> QED BY <1>1, <1>2, <1>3, <1>4

ServiceTypeInv ==
  ContainmentTypeOK /\ OutcomesSet /\ Typed /\ EventsOK

LEMMA ServiceTypeInit == Init => Typed /\ EventsOK
<1> SUFFICES ASSUME Init PROVE Typed /\ EventsOK
  OBVIOUS
<1>1. NoStop \in Stop /\ NoStop.at = "none"
  BY DEF NoStop, Stop, Places
<1>2. StopsOK
  BY <1>1 DEF Init, StopsOK
<1>3. /\ status \in [ServiceAgents -> Statuses] /\ record \in [ServiceRuns -> Records]
      /\ executing \in [ServiceAgents -> ServiceRuns \cup {None}]
      /\ execution \in [ServiceRuns -> Executions]
  BY DEF Init, Statuses, Records, Executions
<1>4. queue \in Seq(Mutation) /\ flags \subseteq ServiceAgents /\ unwritten \in BOOLEAN
  <2>1. queue = << >> /\ flags = {} /\ unwritten = FALSE
    BY DEF Init
  <2> QED BY <2>1, NoMutations
<1>5. EventsOK
  BY Members DEF Init, EventsOK
<1> QED BY <1>2, <1>3, <1>4, <1>5 DEF Typed

LEMMA ServiceTypeStep ==
  ASSUME ContainmentTypeOK, ContainmentTypeOK', OutcomesSet, Typed,
         EventsOK, [Next]_vars
  PROVE  Typed' /\ EventsOK'
<1>1. CASE UNCHANGED vars
  BY <1>1 DEF vars, svars, db, Typed, StopsOK, EventsOK
<1>2. CASE Next
  <2>1. Typed'
    <3>1. (\E r \in Runs \ ServiceRuns : TurnRun(r)) \/ (Quiet /\ Around /\ UNCHANGED svars)
            => UNCHANGED svars
      BY DEF TurnRun
    <3> QED BY <1>2, <3>1, OthersTyped, RequestsTyped, CommitsTyped, FailuresTyped DEF Next, Serve
  <2>2. Event \/ events' = events
    BY <1>2 DEF Next, Serve, Send, StartAgent, RequestStop, StopWakes, Archived, TurnRun, Step,
                CommitSend, CommitStart, CommitEnd, CommitReady, CommitStopped, CommitDelete,
                WriteFails, Restart, svars
  <2>3. troubles' \in Nat /\ troubles' + events' <= MaxEvents
    BY <1>2 DEF Next, ContainmentTypeOK
  <2>4. EventsOK'
    BY <2>2, <2>3, Members DEF Event, EventsOK
  <2> QED BY <2>1, <2>4
<1> QED BY <1>1, <1>2

LEMMA ServiceTypeHolds == Spec => []ServiceTypeInv
<1>1. Spec => [](ContainmentTypeOK /\ OutcomesSet)
  BY ContainmentTypeCorrect, OutcomesHold, ServiceIsContained, PTL
<1>2. Init => Typed /\ EventsOK
  BY ServiceTypeInit
<1>3. ContainmentTypeOK /\ OutcomesSet /\ ContainmentTypeOK' /\ Typed /\ EventsOK /\ [Next]_vars
        => Typed' /\ EventsOK'
  <2> SUFFICES ASSUME ContainmentTypeOK, OutcomesSet, ContainmentTypeOK', Typed,
                      EventsOK, [Next]_vars
               PROVE  Typed' /\ EventsOK'
    OBVIOUS
  <2> QED BY ServiceTypeStep
<1> QED BY <1>1, <1>2, <1>3, PTL DEF Spec, ServiceTypeInv

-----------------------------------------------------------------------------
(* One thing at a time is under way for a run: its message, its start or   *)
(* its end in the queue, or the run itself. A step of the service moves    *)
(* one run on and leaves the others alone.                                 *)

RunOps == {"send", "start", "end"}

About(m, r) == m.op \in RunOps /\ m.run = r

Fits(m) ==
  /\ m.op = "send"  => execution[m.run] = "asked"
  /\ m.op = "start" => execution[m.run] = "begun" /\ record[m.run] \in {"queued", "gone"}
  /\ m.op = "end"   => execution[m.run] = "begun" /\ record[m.run] \in {"running", "gone"}

OneEach ==
  \A i, j \in DOMAIN queue : queue[i].op \in RunOps /\ About(queue[j], queue[i].run) => i = j

LiveRuns ==
  \A r \in ServiceRuns : Live(r) =>
    /\ execution[r] = "begun" /\ record[r] \in {"running", "gone"}
    /\ \A i \in DOMAIN queue : ~About(queue[i], r)

QueueInv ==
  /\ \A m \in Range(queue) : Fits(m)
  /\ OneEach /\ LiveRuns
  /\ \A r \in ServiceRuns : execution[r] \in {"none", "asked"} => record[r] = "none"

\* The queue without its head when h is 1, and with m behind it, or less.
Moved(h, m) ==
  /\ h \in {0, 1}
  /\ \A i \in DOMAIN queue' :
       \/ i + h \in DOMAIN queue /\ queue'[i] = queue[i + h]
       \/ i + h = Len(queue) + 1 /\ queue'[i] = m

LEMMA Moves ==
  ASSUME Typed, NEW m
  PROVE  /\ queue' = queue => Moved(0, m)
         /\ m \in Mutation /\ queue' = Append(queue, m) => Moved(0, m)
         /\ queue # << >> /\ queue' = Tail(queue) => Moved(1, m)
         /\ m \in Mutation /\ queue # << >> /\ queue' = Append(Tail(queue), m) => Moved(1, m)
<1>1. queue \in Seq(Mutation) /\ Len(queue) \in Nat /\ DOMAIN queue = 1 .. Len(queue)
  BY DEF Typed
<1>2. queue' = queue => Moved(0, m)
  BY <1>1 DEF Moved
<1>3. m \in Mutation /\ queue' = Append(queue, m) => Moved(0, m)
  <2> SUFFICES ASSUME m \in Mutation, queue' = Append(queue, m) PROVE Moved(0, m)
    OBVIOUS
  <2>1. /\ DOMAIN queue' = 1 .. Len(queue) + 1
        /\ \A i \in 1 .. Len(queue) : queue'[i] = queue[i]
        /\ queue'[Len(queue) + 1] = m
    BY <1>1
  <2> QED BY <1>1, <2>1 DEF Moved
<1>4. ASSUME queue # << >>
      PROVE  /\ Tail(queue) \in Seq(Mutation) /\ Len(Tail(queue)) = Len(queue) - 1
             /\ \A i \in 1 .. Len(queue) - 1 : Tail(queue)[i] = queue[i + 1]
             /\ Len(queue) # 0
  BY <1>1, <1>4
<1>5. queue # << >> /\ queue' = Tail(queue) => Moved(1, m)
  <2> SUFFICES ASSUME queue # << >>, queue' = Tail(queue) PROVE Moved(1, m)
    OBVIOUS
  <2>1. DOMAIN queue' = 1 .. Len(queue) - 1
    BY <1>4
  <2> QED BY <1>1, <1>4, <2>1 DEF Moved
<1>6. m \in Mutation /\ queue # << >> /\ queue' = Append(Tail(queue), m) => Moved(1, m)
  <2> SUFFICES ASSUME m \in Mutation, queue # << >>, queue' = Append(Tail(queue), m) PROVE Moved(1, m)
    OBVIOUS
  <2> DEFINE t == Tail(queue)
  <2>1. t \in Seq(Mutation) /\ Len(t) = Len(queue) - 1 /\ queue' = Append(t, m)
    BY <1>4
  <2>2. \A i \in 1 .. Len(queue) - 1 : t[i] = queue[i + 1]
    BY <1>4
  <2> HIDE DEF t
  <2>3. /\ DOMAIN queue' = 1 .. Len(t) + 1
        /\ \A i \in 1 .. Len(t) : queue'[i] = t[i]
        /\ queue'[Len(t) + 1] = m
    BY <2>1, SMTT(40)
  <2>4. Len(queue) \in Nat \ {0}
    BY <1>1, <1>4
  <2> QED BY <1>1, <2>1, <2>2, <2>3, <2>4 DEF Moved
<1> QED BY <1>2, <1>3, <1>5, <1>6

\* A run a step leaves alone, or whose record goes with its agent.
Same(r) ==
  /\ execution'[r] = execution[r] /\ (Live(r)' <=> Live(r))
  /\ record'[r] = record[r] \/ (record'[r] = "gone" /\ record[r] # "none")

\* Nothing but the head of the queue is about r.
Clear(h, r) == \A j \in DOMAIN queue : j > h => ~About(queue[j], r)

\* The run r after a step that appends m.
Fresh(r, m) ==
  /\ m.op \in RunOps => m.run = r /\ ~Live(r)
  /\ Fits(m)
  /\ m.op \notin RunOps /\ Live(r) => execution[r] = "begun" /\ record[r] \in {"running", "gone"}
  /\ execution[r] \in {"none", "asked"} => record[r] = "none"

Idle(h, m)     == Moved(h, m) /\ m.op \notin RunOps /\ \A q \in ServiceRuns : Same(q)
MovesOn(r, h, m) ==
  /\ Moved(h, m) /\ Clear(h, r) /\ Fresh(r, m)'
  /\ \A q \in ServiceRuns \ {r} : Same(q)
  /\ record[r] \in Terminal => record'[r] = record[r]

LEMMA IdleKeeps ==
  ASSUME Typed, Typed', QueueInv, NEW m, NEW h, Idle(h, m)
  PROVE  QueueInv'
<1>1. \A i \in DOMAIN queue' :
        \/ i + h \in DOMAIN queue /\ queue'[i] = queue[i + h]
        \/ i + h = Len(queue) + 1 /\ queue'[i] = m
  BY DEF Idle, Moved
<1>2. \A i \in DOMAIN queue' : i \in Nat
  BY DEF Typed
<1>3. m.op \notin RunOps /\ h \in {0, 1} /\ \A q \in ServiceRuns : Same(q)
  BY DEF Idle, Moved
<1>4. \A i \in DOMAIN queue : queue[i] \in Mutation
  BY DEF Typed
<1>5. ASSUME NEW n \in Range(queue')
      PROVE  Fits(n)'
  <2>1. n \in Range(queue) \/ n = m
    BY <1>1 DEF Range
  <2>2. CASE n \in Range(queue)
    <3>1. Fits(n) /\ (n.op \in RunOps => n.run \in ServiceRuns)
      BY <1>4, <2>2, Ops DEF QueueInv, RunOps, Range
    <3>2. n.op \in RunOps => Same(n.run)
      BY <1>3, <3>1
    <3> QED BY <3>1, <3>2 DEF Fits, Same, RunOps
  <2>3. CASE n = m
    BY <1>3, <2>3 DEF Fits, RunOps
  <2> QED BY <2>1, <2>2, <2>3
<1>6. OneEach'
  <2> SUFFICES ASSUME NEW i \in DOMAIN queue', NEW j \in DOMAIN queue',
                      queue'[i].op \in RunOps, About(queue'[j], queue'[i].run)
               PROVE  i = j
    BY DEF OneEach, About
  <2>1. /\ i + h \in DOMAIN queue /\ queue'[i] = queue[i + h]
        /\ j + h \in DOMAIN queue /\ queue'[j] = queue[j + h]
    BY <1>1, <1>3 DEF About, Idle
  <2>2. i + h = j + h
    BY <2>1 DEF OneEach, QueueInv
  <2> QED BY <1>2, <2>2 DEF Idle, Moved
<1>7. LiveRuns'
  <2> SUFFICES ASSUME NEW r \in ServiceRuns, Live(r)'
               PROVE  /\ execution'[r] = "begun" /\ record'[r] \in {"running", "gone"}
                      /\ \A i \in DOMAIN queue' : ~About(queue'[i], r)
    BY DEF LiveRuns, About
  <2>1. Same(r) /\ Live(r)
    BY <1>3 DEF Same
  <2>2. /\ execution[r] = "begun" /\ record[r] \in {"running", "gone"}
        /\ \A i \in DOMAIN queue : ~About(queue[i], r)
    BY <2>1 DEF QueueInv, LiveRuns
  <2>3. ASSUME NEW i \in DOMAIN queue' PROVE ~About(queue'[i], r)
    BY <1>1, <1>3, <2>2 DEF About, Idle
  <2> QED BY <2>1, <2>2, <2>3 DEF Same
<1>8. ASSUME NEW r \in ServiceRuns, execution'[r] \in {"none", "asked"}
      PROVE  record'[r] = "none"
  BY <1>3, <1>8 DEF QueueInv, Same
<1> QED BY <1>5, <1>6, <1>7, <1>8 DEF QueueInv

LEMMA MovesOnKeeps ==
  ASSUME Typed, Typed', QueueInv, NEW r \in ServiceRuns, NEW m, NEW h, MovesOn(r, h, m)
  PROVE  QueueInv'
<1>1. \A i \in DOMAIN queue' :
        \/ i + h \in DOMAIN queue /\ queue'[i] = queue[i + h]
        \/ i + h = Len(queue) + 1 /\ queue'[i] = m
  BY DEF MovesOn, Moved
<1>2. \A i \in DOMAIN queue' : i \in Nat /\ i > 0
  BY DEF Typed
<1>3. /\ \A q \in ServiceRuns \ {r} : Same(q)
      /\ h \in {0, 1} /\ Clear(h, r) /\ Fresh(r, m)'
  BY DEF MovesOn, Moved
<1>4. \A i \in DOMAIN queue : queue[i] \in Mutation
  BY DEF Typed
<1>5. ASSUME NEW i \in DOMAIN queue', i + h \in DOMAIN queue, queue'[i] = queue[i + h]
      PROVE  ~About(queue'[i], r)
  BY <1>2, <1>3, <1>5 DEF Clear
<1>6. ASSUME NEW n \in Range(queue')
      PROVE  Fits(n)'
  <2>1. \/ \E i \in DOMAIN queue' : i + h \in DOMAIN queue /\ queue'[i] = queue[i + h] /\ n = queue'[i]
        \/ n = m
    BY <1>1 DEF Range
  <2>2. CASE \E i \in DOMAIN queue' : i + h \in DOMAIN queue /\ queue'[i] = queue[i + h] /\ n = queue'[i]
    <3>1. n \in Range(queue) /\ ~About(n, r)
      BY <1>5, <2>2 DEF Range
    <3>2. Fits(n) /\ (n.op \in RunOps => n.run \in ServiceRuns)
      BY <1>4, <3>1, Ops DEF QueueInv, RunOps, Range
    <3>3. n.op \in RunOps => Same(n.run)
      BY <1>3, <3>1, <3>2 DEF About
    <3> QED BY <3>2, <3>3 DEF Fits, Same, RunOps
  <2>3. CASE n = m
    BY <1>3, <2>3 DEF Fresh
  <2> QED BY <2>1, <2>2, <2>3
<1>7. OneEach'
  <2> SUFFICES ASSUME NEW i \in DOMAIN queue', NEW j \in DOMAIN queue',
                      queue'[i].op \in RunOps, About(queue'[j], queue'[i].run)
               PROVE  i = j
    BY DEF OneEach, About
  <2>1. CASE /\ i + h \in DOMAIN queue /\ queue'[i] = queue[i + h]
             /\ j + h \in DOMAIN queue /\ queue'[j] = queue[j + h]
    <3>1. i + h = j + h
      BY <2>1 DEF OneEach, QueueInv
    <3> QED BY <1>2, <1>3, <3>1
  <2>2. CASE i + h = Len(queue) + 1 /\ j + h = Len(queue) + 1
    BY <1>2, <1>3, <2>2
  <2>3. m.op \in RunOps => m.run = r
    BY <1>3 DEF Fresh
  <2>4. CASE /\ i + h \in DOMAIN queue /\ queue'[i] = queue[i + h] /\ queue'[j] = m
    BY <1>5, <2>3, <2>4 DEF About
  <2>5. CASE /\ j + h \in DOMAIN queue /\ queue'[j] = queue[j + h] /\ queue'[i] = m
    BY <1>5, <2>3, <2>5 DEF About
  <2> QED BY <1>1, <2>1, <2>2, <2>4, <2>5
<1>8. LiveRuns'
  <2> SUFFICES ASSUME NEW q \in ServiceRuns, Live(q)'
               PROVE  /\ execution'[q] = "begun" /\ record'[q] \in {"running", "gone"}
                      /\ \A i \in DOMAIN queue' : ~About(queue'[i], q)
    BY DEF LiveRuns, About
  <2>1. m.op \in RunOps => m.run = r /\ ~Live(r)'
    BY <1>3 DEF Fresh
  <2>2. CASE q = r
    <3>1. m.op \notin RunOps
      BY <2>1, <2>2
    <3>2. execution'[q] = "begun" /\ record'[q] \in {"running", "gone"}
      BY <1>3, <2>2, <3>1 DEF Fresh
    <3> QED BY <1>1, <1>5, <2>2, <3>1, <3>2 DEF About
  <2>3. CASE q # r
    <3>1. Same(q) /\ Live(q)
      BY <1>3, <2>3 DEF Same
    <3>2. /\ execution[q] = "begun" /\ record[q] \in {"running", "gone"}
          /\ \A i \in DOMAIN queue : ~About(queue[i], q)
      BY <3>1 DEF QueueInv, LiveRuns
    <3>3. ~About(m, q)
      BY <2>1, <2>3 DEF About
    <3>4. ASSUME NEW i \in DOMAIN queue' PROVE ~About(queue'[i], q)
      BY <1>1, <3>2, <3>3
    <3> QED BY <3>1, <3>2, <3>4 DEF Same
  <2> QED BY <2>2, <2>3
<1>9. ASSUME NEW q \in ServiceRuns, execution'[q] \in {"none", "asked"}
      PROVE  record'[q] = "none"
  <2>1. CASE q = r
    BY <1>3, <1>9, <2>1 DEF Fresh
  <2>2. CASE q # r
    BY <1>3, <1>9, <2>2 DEF QueueInv, Same
  <2> QED BY <2>1, <2>2
<1> QED BY <1>6, <1>7, <1>8, <1>9 DEF QueueInv

\* Stands for what a step does not append.
Nothing == [op |-> "nothing"]

\* What the head of the queue says of its run, and that nothing else does.
LEMMA HeadFits ==
  ASSUME Typed, QueueInv, queue # << >>, Head(queue).op \in RunOps
  PROVE  /\ Head(queue).run \in ServiceRuns
         /\ Fits(Head(queue)) /\ Clear(1, Head(queue).run)
         /\ ~Live(Head(queue).run)
<1> DEFINE h == Head(queue)
<1>1. h \in Mutation /\ h = queue[1] /\ 1 \in DOMAIN queue
  BY HeadTyped
<1>2. h.run \in ServiceRuns
  BY <1>1, Ops DEF RunOps
<1>3. h \in Range(queue)
  BY <1>1 DEF Range
<1>4. Fits(h)
  BY <1>3 DEF QueueInv
<1>5. Clear(1, h.run)
  <2> SUFFICES ASSUME NEW j \in DOMAIN queue, j > 1, About(queue[j], h.run)
               PROVE  FALSE
    BY DEF Clear
  <2>1. 1 = j
    BY <1>1 DEF QueueInv, OneEach
  <2> QED BY <2>1
<1>6. ~Live(h.run)
  BY <1>1, <1>2 DEF QueueInv, LiveRuns, About
<1> QED BY <1>2, <1>4, <1>5, <1>6

LEMMA SendsMove ==
  ASSUME Typed, QueueInv, NEW r \in ServiceRuns, Send(r)
  PROVE  MovesOn(r, 0, [op |-> "send", run |-> r])
<1> DEFINE m == [op |-> "send", run |-> r]
<1>1. m \in Mutation /\ m.op = "send" /\ m.run = r
  BY Members
<1>2. Moved(0, m)
  BY <1>1, Moves DEF Send
<1>3. execution[r] = "none" /\ execution'[r] = "asked" /\ record' = record /\ pep' = pep
      /\ \A q \in ServiceRuns \ {r} : execution'[q] = execution[q]
  BY DEF Send, Typed, cvars, db
<1>4. record[r] = "none" /\ ~Live(r)
  BY <1>3 DEF QueueInv, LiveRuns
<1>5. Clear(0, r)
  BY <1>3 DEF Clear, QueueInv, Range, Fits, About, RunOps
<1>6. Fresh(r, m)'
  BY <1>1, <1>3, <1>4 DEF Fresh, Fits, RunOps, Live
<1>7. \A q \in ServiceRuns \ {r} : Same(q)
  BY <1>3 DEF Same, Live
<1> QED BY <1>2, <1>3, <1>5, <1>6, <1>7 DEF MovesOn

LEMMA RequestsIdle ==
  ASSUME Typed, \/ \E a \in ServiceAgents : StartAgent(a)
                \/ \E s \in Stops : RequestStop(s) \/ StopWakes(s) \/ Archived(s)
                \/ UNCHANGED vars
                \/ Around /\ UNCHANGED svars
  PROVE  \E m, h : Idle(h, m)
<1>1. \A q \in ServiceRuns : Same(q)
  <2>1. UNCHANGED << execution, record, pep >>
    BY DEF StartAgent, RequestStop, StopWakes, Archived, CancelStep, vars, cvars, svars, db,
           Around, Arm, Disarm, VaultChanges, CooldownPasses
  <2> QED BY <2>1 DEF Same, Live
<1>2. CASE queue' = queue
  <2>1. Moved(0, Nothing) /\ Nothing.op \notin RunOps
    BY <1>2, Moves DEF Nothing, RunOps
  <2>2. Idle(0, Nothing)
    BY <1>1, <2>1 DEF Idle
  <2> QED BY <2>2
<1>3. ASSUME NEW m \in Mutation, m.op \notin RunOps, queue' = Append(queue, m)
      PROVE  \E n, h : Idle(h, n)
  BY <1>1, <1>3, Moves DEF Idle
<1>4. ASSUME NEW a \in ServiceAgents, StartAgent(a)
      PROVE  \E m, h : Idle(h, m)
  <2> DEFINE m == [op |-> "ready", agent |-> a]
  <2>1. m \in Mutation /\ m.op \notin RunOps
    BY Members DEF RunOps
  <2>2. queue' = Append(queue, m)
    BY <1>4 DEF StartAgent
  <2> QED BY <1>3, <2>1, <2>2
<1>5. ASSUME NEW s \in Stops, RequestStop(s) \/ StopWakes(s) \/ Archived(s)
      PROVE  \E m, h : Idle(h, m)
  <2> DEFINE m == [op |-> "stopped", stop |-> s]
             n == [op |-> "delete", stop |-> s]
  <2>1. m \in Mutation /\ m.op \notin RunOps /\ n \in Mutation /\ n.op \notin RunOps
    BY Members DEF RunOps
  <2>2. queue' = queue \/ queue' = Append(queue, m) \/ queue' = Append(queue, n)
    BY <1>5 DEF RequestStop, StopWakes, Archived, Leaves
  <2> QED BY <1>2, <1>3, <2>1, <2>2
<1>6. UNCHANGED vars \/ UNCHANGED svars => queue' = queue
  BY DEF vars, svars
<1> QED BY <1>2, <1>4, <1>5, <1>6

LEMMA RunStepAt ==
  ASSUME ContainmentTypeOK, NEW r \in Runs, RunStep(r)
  PROVE  Live(r) /\ pep'[r].at \in {"running", "settling", "failing", "over"}
<1>1. Live(r)
  BY DEF RunStep, MeasureFails, NoSlot, Latched, Enter, ProcessEnds, Finish, FinishFails, Live
<1>2. CASE MeasureFails(r) \/ NoSlot(r) \/ Latched(r) \/ Finish(r)
  BY <1>1, <1>2, BecomesAt DEF MeasureFails, NoSlot, Latched, Finish
<1> QED BY <1>1, <1>2, EnterAt, ProcessEndsAt, FinishFailsAt DEF RunStep

LEMMA RunsMove ==
  ASSUME Typed, ContainmentTypeOK, OutcomesSet, QueueInv, NEW r \in Runs, Step(r)
  PROVE  (\E m, h : Idle(h, m)) \/ (r \in ServiceRuns /\ \E m, h : MovesOn(r, h, m))
<1>1. UNCHANGED << record, execution >> /\ RunStep(r)
  BY DEF Step, db
<1>2. \A q \in Runs \ {r} : pep'[q].at = pep[q].at
  BY <1>1, StepKinds DEF Others
<1>3. \A q \in ServiceRuns \ {r} : Same(q)
  BY <1>1, <1>2, Members DEF Same, Live
<1>4. CASE r \in ServiceRuns /\ pep'[r].at = "over"
  <2>1. pep'[r].outcome \in Terminal
    BY <1>1, <1>4, OutcomesStep
  <2>2. PICK o \in Terminal : o = Result(r)
    BY <2>1 DEF Result, Terminal
  <2> DEFINE m == [op |-> "end", run |-> r, result |-> o]
  <2>3. m \in Mutation /\ m.op = "end" /\ m.run = r
    BY <1>4, <2>2, Members
  <2>4. queue' = Append(queue, m)
    BY <1>4, <2>2 DEF Step
  <2> HIDE DEF m
  <2>5. Moved(0, m)
    BY <2>3, <2>4, Moves
  <2>6. execution[r] = "begun" /\ record[r] \in {"running", "gone"} /\ Clear(0, r)
    <3>1. Live(r)
      BY <1>1, RunStepAt
    <3> QED BY <1>4, <3>1 DEF QueueInv, LiveRuns, Clear
  <2>7. Fresh(r, m)'
    BY <1>1, <1>4, <2>3, <2>6 DEF Fresh, Fits, RunOps, Live
  <2>8. MovesOn(r, 0, m)
    BY <1>1, <1>3, <2>5, <2>6, <2>7 DEF MovesOn
  <2> QED BY <1>4, <2>8
<1>5. CASE ~(r \in ServiceRuns /\ pep'[r].at = "over")
  <2>1. queue' = queue
    BY <1>5 DEF Step
  <2>2. r \in ServiceRuns => Same(r)
    <3>1. r \in ServiceRuns => Live(r) /\ Live(r)'
      BY <1>1, <1>5, RunStepAt DEF Live
    <3> QED BY <1>1, <3>1 DEF Same
  <2>3. Idle(0, Nothing)
    BY <1>3, <2>1, <2>2, Moves DEF Idle, Nothing, RunOps
  <2> QED BY <2>3
<1> QED BY <1>4, <1>5

LEMMA TurnsIdle ==
  ASSUME Typed, ContainmentTypeOK, NEW r \in Runs \ ServiceRuns, TurnRun(r)
  PROVE  \E m, h : Idle(h, m)
<1>1. UNCHANGED << record, execution, queue >>
  BY DEF TurnRun, svars, db
<1>2. \A q \in Runs \ {r} : pep'[q].at = pep[q].at
  BY StepKinds DEF Others, TurnRun
<1>3. \A q \in ServiceRuns : Same(q)
  BY <1>1, <1>2, Members DEF Same, Live
<1>4. Idle(0, Nothing)
  BY <1>1, <1>3, Moves DEF Idle, Nothing, RunOps
<1> QED BY <1>4


\* The head goes, of the run r, and m comes.
LEMMA HeadMoves ==
  ASSUME Typed, QueueInv, queue # << >>, Head(queue).op \in RunOps,
         NEW r, r = Head(queue).run, NEW m, Moved(1, m), pep' = pep,
         \A q \in ServiceRuns \ {r} : execution'[q] = execution[q] /\ record'[q] = record[q],
         Fresh(r, m)', record'[r] = record[r] \/ record[r] \notin Terminal
  PROVE  r \in ServiceRuns /\ MovesOn(r, 1, m)
<1>1. r \in ServiceRuns /\ Clear(1, r)
  BY HeadFits
<1>2. \A q \in ServiceRuns \ {r} : Same(q)
  BY DEF Same, Live
<1> QED BY <1>1, <1>2 DEF MovesOn

LEMMA NotTerminal == {"none", "queued", "running", "gone"} \cap Terminal = {}
BY DEF Terminal

LEMMA NothingMoves ==
  ASSUME Typed, queue # << >>, queue' = Tail(queue)
  PROVE  Moved(1, Nothing) /\ Nothing.op \notin RunOps
BY Moves DEF Nothing, RunOps

LEMMA CommitSendMoves ==
  ASSUME Typed, QueueInv, CommitSend
  PROVE  \E r \in ServiceRuns : \E m, h : MovesOn(r, h, m)
<1>1. queue # << >> /\ Head(queue).op = "send" /\ pep' = pep
  BY DEF CommitSend, Commits, cvars
<1>2. PICK r \in ServiceRuns : r = Head(queue).run
  BY <1>1, HeadFits DEF RunOps
<1>3. execution[r] = "asked" /\ record[r] = "none" /\ ~Live(r)
  <2>1. Fits(Head(queue)) /\ ~Live(r)
    BY <1>1, <1>2, HeadFits DEF RunOps
  <2> QED BY <1>1, <1>2, <2>1 DEF Fits, QueueInv
<1>4. CASE status[AgentOf[r]] \in {"ready", "error"}
  <2> DEFINE m == [op |-> "start", run |-> r]
  <2>1. /\ record' = [record EXCEPT ![r] = "queued"]
        /\ execution' = [execution EXCEPT ![r] = "begun"]
        /\ queue' = Append(Tail(queue), m)
    BY <1>2, <1>4 DEF CommitSend
  <2>2. m \in Mutation /\ m.op = "start" /\ m.run = r
    BY Members
  <2> HIDE DEF m
  <2>3. Moved(1, m)
    BY <1>1, <2>1, <2>2, Moves
  <2>4. /\ execution'[r] = "begun" /\ record'[r] = "queued"
        /\ \A q \in ServiceRuns \ {r} : execution'[q] = execution[q] /\ record'[q] = record[q]
    BY <2>1 DEF Typed
  <2>5. Fresh(r, m)'
    BY <1>1, <1>3, <2>2, <2>4 DEF Fresh, Fits, RunOps, Live
  <2>6. MovesOn(r, 1, m)
    BY <1>1, <1>2, <1>3, <2>3, <2>4, <2>5, HeadMoves, NotTerminal DEF RunOps
  <2> QED BY <2>6
<1>5. CASE status[AgentOf[r]] \notin {"ready", "error"}
  <2>1. record' = record /\ execution' = [execution EXCEPT ![r] = "over"] /\ queue' = Tail(queue)
    BY <1>2, <1>5 DEF CommitSend, db
  <2>2. Moved(1, Nothing) /\ Nothing.op \notin RunOps
    BY <1>1, <2>1, NothingMoves
  <2>3. execution'[r] = "over" /\ \A q \in ServiceRuns \ {r} : execution'[q] = execution[q]
    BY <2>1 DEF Typed
  <2>4. Fresh(r, Nothing)'
    BY <1>1, <1>3, <2>1, <2>2, <2>3 DEF Fresh, Fits, RunOps, Live
  <2>5. MovesOn(r, 1, Nothing)
    BY <1>1, <1>2, <2>1, <2>2, <2>3, <2>4, HeadMoves DEF RunOps
  <2> QED BY <2>5
<1> QED BY <1>4, <1>5

LEMMA CommitStartMoves ==
  ASSUME Typed, ContainmentTypeOK, OutcomesSet, QueueInv, CommitStart
  PROVE  \E r \in ServiceRuns : \E m, h : MovesOn(r, h, m)
<1>1. PICK r \in ServiceRuns :
        /\ Commits("start") /\ Head(queue).run = r
        /\ record' = [record EXCEPT ![r] = IF @ = "gone" THEN @ ELSE "running"]
        /\ \/ /\ queue' = Append(Tail(queue), [op |-> "end", run |-> r, result |-> "cancelled"])
              /\ UNCHANGED cvars
           \/ Admit(r) /\ queue' = Tail(queue)
           \/ /\ Refuse(r)
              /\ queue' = Append(Tail(queue), [op |-> "end", run |-> r, result |-> Result(r)])
        /\ execution' = execution
  BY DEF CommitStart
<1>2. queue # << >> /\ Head(queue).op = "start"
  BY <1>1 DEF Commits
<1>3. execution[r] = "begun" /\ record[r] \in {"queued", "gone"} /\ ~Live(r) /\ Clear(1, r)
  <2>1. Fits(Head(queue)) /\ ~Live(r) /\ Clear(1, r)
    BY <1>1, <1>2, HeadFits DEF RunOps
  <2> QED BY <1>1, <1>2, <2>1 DEF Fits
<1>4. /\ record'[r] \in {"running", "gone"}
      /\ \A q \in ServiceRuns \ {r} : record'[q] = record[q]
  BY <1>1, <1>3 DEF Typed
<1>5. r \in Runs
  BY Members
<1>6. ASSUME NEW m, Moved(1, m), Fresh(r, m)',
             \A q \in ServiceRuns \ {r} : Live(q)' <=> Live(q)
      PROVE  \E q \in ServiceRuns : \E n, h : MovesOn(q, h, n)
  <2>1. \A q \in ServiceRuns \ {r} : Same(q)
    BY <1>1, <1>4, <1>6 DEF Same
  <2>2. record[r] \notin Terminal
    BY <1>3, NotTerminal
  <2>3. MovesOn(r, 1, m)
    BY <1>3, <1>6, <2>1, <2>2 DEF MovesOn
  <2> QED BY <2>3
<1>7. CASE Admit(r) /\ queue' = Tail(queue)
  <2>1. pep'[r].at = "measuring" /\ Others(r)
    BY <1>5, <1>7, AdmitAt
  <2>2. Moved(1, Nothing) /\ Nothing.op \notin RunOps
    BY <1>2, <1>7, NothingMoves
  <2>3. Fresh(r, Nothing)'
    BY <1>1, <1>3, <1>4, <2>2 DEF Fresh, Fits, RunOps, Live
  <2>4. \A q \in ServiceRuns \ {r} : Live(q)' <=> Live(q)
    BY <2>1, Members DEF Others, Live
  <2> QED BY <1>6, <2>2, <2>3, <2>4
<1>8. ASSUME NEW o \in Terminal, ~Live(r)', \A q \in ServiceRuns \ {r} : Live(q)' <=> Live(q),
             queue' = Append(Tail(queue), [op |-> "end", run |-> r, result |-> o])
      PROVE  \E q \in ServiceRuns : \E m, h : MovesOn(q, h, m)
  <2> DEFINE m == [op |-> "end", run |-> r, result |-> o]
  <2>1. m \in Mutation /\ m.op = "end" /\ m.run = r /\ queue' = Append(Tail(queue), m)
    BY <1>8, Members
  <2> HIDE DEF m
  <2>2. Moved(1, m)
    BY <1>2, <2>1, Moves
  <2>3. Fresh(r, m)'
    BY <1>1, <1>3, <1>4, <1>8, <2>1 DEF Fresh, Fits, RunOps
  <2> QED BY <1>6, <1>8, <2>2, <2>3
<1>9. CASE Refuse(r) /\ queue' = Append(Tail(queue), [op |-> "end", run |-> r, result |-> Result(r)])
  <2>1. pep'[r].at = "over" /\ Others(r)
    BY <1>5, <1>9, BecomesAt DEF Refuse
  <2>2. Result(r) \in Terminal
    <3>1. pep'[r].outcome \in Terminal
      BY <1>5, <1>9, <2>1, OutcomesStep
    <3> QED BY <3>1 DEF Result, Terminal
  <2>3. ~Live(r)' /\ \A q \in ServiceRuns \ {r} : Live(q)' <=> Live(q)
    BY <2>1, Members DEF Others, Live
  <2> QED BY <1>8, <1>9, <2>2, <2>3
<1>10. CASE /\ queue' = Append(Tail(queue), [op |-> "end", run |-> r, result |-> "cancelled"])
            /\ UNCHANGED cvars
  <2>1. pep' = pep
    BY <1>10 DEF cvars
  <2>2. ~Live(r)' /\ \A q \in ServiceRuns \ {r} : Live(q)' <=> Live(q)
    BY <1>3, <2>1 DEF Live
  <2> QED BY <1>8, <1>10, <2>2 DEF Terminal
<1> QED BY <1>1, <1>7, <1>9, <1>10

LEMMA CommitEndMoves ==
  ASSUME Typed, QueueInv, CommitEnd
  PROVE  \E r \in ServiceRuns : \E m, h : MovesOn(r, h, m)
<1>1. queue # << >> /\ Head(queue).op = "end" /\ pep' = pep /\ queue' = Tail(queue)
  BY DEF CommitEnd, Commits, cvars
<1>2. PICK r \in ServiceRuns : r = Head(queue).run
  BY <1>1, HeadFits DEF RunOps
<1>3. record[r] \in {"running", "gone"} /\ ~Live(r)
  <2>1. Fits(Head(queue)) /\ ~Live(r)
    BY <1>1, <1>2, HeadFits DEF RunOps
  <2> QED BY <1>1, <1>2, <2>1 DEF Fits
<1>4. execution'[r] = "over" /\ \A q \in ServiceRuns \ {r} : execution'[q] = execution[q]
  BY <1>2 DEF CommitEnd, Resolves, Typed
<1>5. \A q \in ServiceRuns \ {r} : record'[q] = record[q]
  BY <1>2 DEF CommitEnd, Typed, db
<1>6. Moved(1, Nothing) /\ Nothing.op \notin RunOps
  BY <1>1, NothingMoves
<1>7. Fresh(r, Nothing)'
  BY <1>1, <1>3, <1>4, <1>6 DEF Fresh, Fits, RunOps, Live
<1>8. MovesOn(r, 1, Nothing)
  BY <1>1, <1>2, <1>3, <1>4, <1>5, <1>6, <1>7, HeadMoves, NotTerminal DEF RunOps
<1> QED BY <1>8

LEMMA OtherCommitsIdle ==
  ASSUME Typed, CommitReady \/ CommitStopped \/ CommitDelete
  PROVE  \E m, h : Idle(h, m)
<1>1. queue # << >> /\ queue' = Tail(queue) /\ pep' = pep /\ execution' = execution
  BY DEF CommitReady, CommitStopped, CommitDelete, Commits, cvars
<1>2. \A q \in ServiceRuns : record'[q] = record[q] \/ (record'[q] = "gone" /\ record[q] # "none")
  BY DEF CommitReady, CommitStopped, CommitDelete
<1>3. Moved(1, Nothing) /\ Nothing.op \notin RunOps
  BY <1>1, NothingMoves
<1>4. Idle(1, Nothing)
  BY <1>1, <1>2, <1>3 DEF Idle, Same, Live
<1> QED BY <1>4

LEMMA WriteFailsMoves ==
  ASSUME Typed, QueueInv, WriteFails
  PROVE  (\E m, h : Idle(h, m)) \/ \E r \in ServiceRuns : \E m, h : MovesOn(r, h, m)
<1> DEFINE g == Head(queue)
<1>1. queue # << >> /\ pep' = pep /\ record' = record
  BY DEF WriteFails, cvars, db
<1>2. CASE g.op \notin RunOps
  <2>1. queue' = Tail(queue) /\ execution' = execution
    BY <1>2 DEF WriteFails, RunOps
  <2>2. Moved(1, Nothing) /\ Nothing.op \notin RunOps
    BY <1>1, <2>1, NothingMoves
  <2>3. Idle(1, Nothing)
    BY <1>1, <2>1, <2>2 DEF Idle, Same, Live
  <2> QED BY <2>3
<1>3. CASE g.op \in RunOps
  <2>1. PICK r \in ServiceRuns : r = g.run
    BY <1>1, <1>3, HeadFits
  <2>2. ~Live(r) /\ Fits(g) /\ g \in Mutation
    BY <1>1, <1>3, <2>1, HeadFits, HeadTyped
  <2>3. \A q \in ServiceRuns \ {r} : execution'[q] = execution[q]
    BY <1>3, <2>1 DEF WriteFails, Resolves, RunOps, Typed
  <2>4. CASE g.op = "end" /\ queue' = Append(Tail(queue), [g EXCEPT !.result = "failed"])
             /\ execution' = execution
    <3> DEFINE m == [op |-> "end", run |-> r, result |-> "failed"]
    <3>1. PICK o \in Terminal : g = [op |-> "end", run |-> r, result |-> o]
      BY <2>1, <2>2, <2>4, Ops
    <3>2. queue' = Append(Tail(queue), m)
      <4> HIDE DEF g
      <4>1. [g EXCEPT !.result = "failed"] = m
        BY <3>1
      <4> QED BY <2>4, <4>1
    <3>3. m \in Mutation /\ m.op = "end" /\ m.run = r
      BY Members DEF Terminal
    <3> HIDE DEF m
    <3>4. Moved(1, m)
      BY <1>1, <3>2, <3>3, Moves
    <3>5. Fresh(r, m)'
      BY <1>1, <2>1, <2>2, <2>4, <3>3 DEF Fresh, Fits, RunOps, Live
    <3>6. MovesOn(r, 1, m)
      BY <1>1, <1>3, <2>1, <2>3, <3>4, <3>5, HeadMoves
    <3> QED BY <3>6
  <2>5. CASE queue' = Tail(queue) /\ execution'[r] \in {"over", "rejected"}
    <3>1. Moved(1, Nothing) /\ Nothing.op \notin RunOps
      BY <1>1, <2>5, NothingMoves
    <3>2. Fresh(r, Nothing)'
      BY <1>1, <2>2, <2>5, <3>1 DEF Fresh, Fits, RunOps, Live
    <3>3. MovesOn(r, 1, Nothing)
      BY <1>1, <1>3, <2>1, <2>3, <3>1, <3>2, HeadMoves
    <3> QED BY <3>3
  <2> QED BY <1>3, <2>1, <2>4, <2>5 DEF WriteFails, Resolves, RunOps, Typed
<1> QED BY <1>2, <1>3

\* A step of the service.
LEMMA QueueStep ==
  ASSUME Typed, ContainmentTypeOK, OutcomesSet, QueueInv, [Next]_vars
  PROVE  \/ Restart
         \/ \E m, h : Idle(h, m)
         \/ \E r \in ServiceRuns : \E m, h : MovesOn(r, h, m)
<1>1. ASSUME NEW r \in ServiceRuns, Send(r)
      PROVE  \E q \in ServiceRuns : \E m, h : MovesOn(q, h, m)
  BY <1>1, SendsMove
<1>2. (\E a \in ServiceAgents : StartAgent(a))
        \/ (\E s \in Stops : RequestStop(s) \/ StopWakes(s) \/ Archived(s))
        \/ UNCHANGED vars \/ (Around /\ UNCHANGED svars)
      => \E m, h : Idle(h, m)
  BY RequestsIdle
<1>3. CASE Serve \/ WriteFails
  BY <1>3, CommitSendMoves, CommitStartMoves, CommitEndMoves, OtherCommitsIdle, WriteFailsMoves
     DEF Serve
<1> QED BY <1>1, <1>2, <1>3, RunsMove, TurnsIdle DEF Next

LEMMA RestartKeepsQueue ==
  ASSUME Typed, QueueInv, Restart
  PROVE  QueueInv'
<1>1. queue' = << >> /\ \A r \in Runs : pep'[r].at \in {"out", "over"}
  BY DEF Restart, Reboot, OutPep
<1>2. Range(queue') = {} /\ DOMAIN queue' = {}
  BY <1>1 DEF Range
<1>3. \A r \in ServiceRuns : ~Live(r)'
  BY <1>1, Members DEF Live
<1>4. \A r \in ServiceRuns : execution'[r] \in {"none", "asked"} => record'[r] = "none"
  BY DEF Restart, QueueInv
<1> QED BY <1>2, <1>3, <1>4 DEF QueueInv, OneEach, LiveRuns

LEMMA QueueInit == Init => QueueInv
<1> SUFFICES ASSUME Init PROVE QueueInv
  OBVIOUS
<1>1. queue = << >> /\ \A r \in Runs : pep[r].at = "out"
  BY DEF Init, CInit, OutPep
<1>2. Range(queue) = {} /\ DOMAIN queue = {}
  BY <1>1 DEF Range
<1>3. \A r \in ServiceRuns : ~Live(r) /\ record[r] = "none"
  BY <1>1, Members DEF Live, Init
<1> QED BY <1>2, <1>3 DEF QueueInv, OneEach, LiveRuns

LEMMA QueueHolds == Spec => []QueueInv
<1>1. ServiceTypeInv /\ ServiceTypeInv' /\ QueueInv /\ [Next]_vars => QueueInv'
  <2> SUFFICES ASSUME ServiceTypeInv, ServiceTypeInv', QueueInv, [Next]_vars PROVE QueueInv'
    OBVIOUS
  <2> QED BY QueueStep, IdleKeeps, MovesOnKeeps, RestartKeepsQueue DEF ServiceTypeInv
<1> QED BY <1>1, QueueInit, ServiceTypeHolds, PTL DEF Spec

\* What a run came to is not rewritten by any step.
LEMMA ResultsStep ==
  ASSUME Typed, ContainmentTypeOK, OutcomesSet, QueueInv, [Next]_vars,
         NEW r \in ServiceRuns, record[r] \in Terminal
  PROVE  record'[r] \in {record[r], "gone"}
<1>1. CASE Restart
  BY <1>1, NotTerminal DEF Restart
<1>2. CASE \E m, h : Idle(h, m)
  BY <1>2 DEF Idle, Same
<1>3. CASE \E q \in ServiceRuns : \E m, h : MovesOn(q, h, m)
  BY <1>3 DEF MovesOn, Same
<1> QED BY <1>1, <1>2, <1>3, QueueStep

-----------------------------------------------------------------------------
(* The agents: who is busy.                                                *)

AgentInv ==
  /\ \A r \in ServiceRuns : status[AgentOf[r]] = "gone" => record[r] \in {"none", "gone"}
  /\ \A a \in ServiceAgents : executing[a] # None => AgentOf[executing[a]] = a
  /\ BusyAgentsWork

Busy(a)    == status[a] = "busy" => executing[a] # None /\ execution[executing[a]] = "begun"
Working(r) == record[r] \in {"queued", "running"} => execution[r] = "begun"

LEMMA BusyIs ==
  BusyAgentsWork <=>
    unwritten \/ ((\A a \in ServiceAgents : Busy(a)) /\ \A r \in ServiceRuns : Working(r))
BY DEF BusyAgentsWork, Busy, Working

LEMMA CommitSendAgents ==
  ASSUME Typed, QueueInv, AgentInv, CommitSend
  PROVE  AgentInv'
<1>1. queue # << >> /\ Head(queue).op = "send" /\ unwritten' = unwritten
  BY DEF CommitSend, Commits
<1>2. PICK r \in ServiceRuns : r = Head(queue).run
  BY <1>1, HeadFits DEF RunOps
<1>3. execution[r] = "asked" /\ record[r] = "none"
  <2>1. Fits(Head(queue))
    BY <1>1, <1>2, HeadFits DEF RunOps
  <2> QED BY <1>1, <1>2, <2>1 DEF Fits, QueueInv
<1> DEFINE a == AgentOf[r]
<1>4. a \in ServiceAgents /\ r # None
  BY Members
<1>5. CASE status[a] \in {"ready", "error"}
  <2>1. /\ status' = [status EXCEPT ![a] = "busy"]
        /\ record' = [record EXCEPT ![r] = "queued"]
        /\ execution' = [execution EXCEPT ![r] = "begun"]
        /\ executing' = [executing EXCEPT ![a] = r]
    BY <1>2, <1>5 DEF CommitSend
  <2> HIDE DEF a
  <2>2. /\ status'[a] = "busy" /\ record'[r] = "queued" /\ execution'[r] = "begun"
        /\ executing'[a] = r
        /\ \A b \in ServiceAgents \ {a} : status'[b] = status[b] /\ executing'[b] = executing[b]
        /\ \A q \in ServiceRuns \ {r} : record'[q] = record[q] /\ execution'[q] = execution[q]
    BY <1>4, <2>1 DEF Typed
  <2>3. \A q \in ServiceRuns : status'[AgentOf[q]] = "gone" => record'[q] \in {"none", "gone"}
    BY <1>4, <2>2, Members DEF AgentInv, a
  <2>4. \A b \in ServiceAgents : executing'[b] # None => AgentOf[executing'[b]] = b
    BY <1>4, <2>2 DEF AgentInv, a
  <2>5. unwritten \/ ((\A b \in ServiceAgents : Busy(b)') /\ (\A q \in ServiceRuns : Working(q)'))
    <3> SUFFICES ASSUME ~unwritten
                 PROVE  (\A b \in ServiceAgents : Busy(b)') /\ \A q \in ServiceRuns : Working(q)'
      OBVIOUS
    <3>1. (\A b \in ServiceAgents : Busy(b)) /\ \A q \in ServiceRuns : Working(q)
      BY BusyIs DEF AgentInv
    <3>2. ASSUME NEW b \in ServiceAgents PROVE Busy(b)'
      BY <1>3, <1>4, <2>2, <3>1 DEF Busy, Typed
    <3>3. ASSUME NEW q \in ServiceRuns PROVE Working(q)'
      BY <2>2, <3>1 DEF Working
    <3> QED BY <3>2, <3>3
  <2> QED BY <1>1, <2>3, <2>4, <2>5 DEF AgentInv, BusyAgentsWork, Busy, Working
<1>6. CASE status[a] \notin {"ready", "error"}
  <2>1. UNCHANGED << status, record, executing >> /\ execution' = [execution EXCEPT ![r] = "over"]
    BY <1>2, <1>6 DEF CommitSend, db
  <2>2. \A q \in ServiceRuns : execution[q] = "begun" => execution'[q] = "begun"
    BY <1>3, <2>1 DEF Typed
  <2>3. \A b \in ServiceAgents : executing[b] # None => executing[b] \in ServiceRuns
    BY DEF Typed
  <2> QED BY <1>1, <2>1, <2>2, <2>3 DEF AgentInv, BusyAgentsWork
<1> QED BY <1>5, <1>6

LEMMA CommitEndAgents ==
  ASSUME Typed, QueueInv, AgentInv, CommitEnd
  PROVE  AgentInv'
<1>1. queue # << >> /\ Head(queue).op = "end" /\ unwritten' = unwritten
  BY DEF CommitEnd, Commits
<1>2. PICK r \in ServiceRuns : r = Head(queue).run
  BY <1>1, HeadFits DEF RunOps
<1> DEFINE a == AgentOf[r]
<1>3. a \in ServiceAgents /\ r # None
  BY Members
<1>4. Head(queue).result \in Terminal
  BY <1>1, HeadTyped, Ops
<1>5. /\ execution'[r] = "over" /\ \A q \in ServiceRuns \ {r} : execution'[q] = execution[q]
      /\ \A b \in ServiceAgents : executing'[b] = executing[b] \/ executing'[b] = None
      /\ \A b \in ServiceAgents \ {a} : executing'[b] = executing[b]
  BY <1>2 DEF CommitEnd, Resolves, Typed
<1>6. /\ \A q \in ServiceRuns \ {r} : record'[q] = record[q]
      /\ \A b \in ServiceAgents \ {a} : status'[b] = status[b]
  BY <1>2 DEF CommitEnd, Typed, db
<1>7. \/ status[a] = "gone" /\ status'[a] = "gone" /\ record'[r] = record[r]
      \/ status[a] # "gone" /\ status'[a] \in {"ready", "stopped", "error"} /\ record'[r] \in Terminal
  BY <1>2, <1>3, <1>4 DEF CommitEnd, Typed, db
<1> HIDE DEF a
<1>8. \A q \in ServiceRuns : status'[AgentOf[q]] = "gone" => record'[q] \in {"none", "gone"}
  BY <1>6, <1>7, Members DEF AgentInv, a
<1>9. \A b \in ServiceAgents : executing'[b] # None => AgentOf[executing'[b]] = b
  BY <1>5 DEF AgentInv
<1>10. unwritten \/ ((\A b \in ServiceAgents : Busy(b)') /\ (\A q \in ServiceRuns : Working(q)'))
  <2> SUFFICES ASSUME ~unwritten
               PROVE  (\A b \in ServiceAgents : Busy(b)') /\ \A q \in ServiceRuns : Working(q)'
    OBVIOUS
  <2>1. (\A b \in ServiceAgents : Busy(b)) /\ \A q \in ServiceRuns : Working(q)
    BY BusyIs DEF AgentInv
  <2>2. ASSUME NEW b \in ServiceAgents PROVE Busy(b)'
    <3>1. CASE b = a
      BY <1>7, <3>1 DEF Busy
    <3>2. CASE b # a
      <4>1. executing[b] # None => executing[b] \in ServiceRuns \ {r}
        BY <3>2 DEF AgentInv, Typed, a
      <4> QED BY <1>5, <1>6, <2>1, <3>2, <4>1 DEF Busy
    <3> QED BY <3>1, <3>2
  <2>3. ASSUME NEW q \in ServiceRuns PROVE Working(q)'
    <3>1. CASE q = r
      <4>1. record'[r] \notin {"queued", "running"}
        BY <1>7, NotTerminal DEF AgentInv, a
      <4> QED BY <3>1, <4>1 DEF Working
    <3>2. CASE q # r
      BY <1>5, <1>6, <2>1, <3>2 DEF Working
    <3> QED BY <3>1, <3>2
  <2> QED BY <2>2, <2>3
<1> QED BY <1>1, <1>8, <1>9, <1>10 DEF AgentInv, BusyAgentsWork, Busy, Working

LEMMA CommitsAgents ==
  ASSUME Typed, QueueInv, AgentInv, CommitStart \/ CommitReady \/ CommitStopped \/ CommitDelete
  PROVE  AgentInv'
<1>1. UNCHANGED << execution, executing, unwritten >>
  BY DEF CommitStart, CommitReady, CommitStopped, CommitDelete
<1>2. ASSUME \A a \in ServiceAgents : status'[a] = "busy" => status[a] = "busy",
             \A r \in ServiceRuns : Working(r)' \/ record'[r] = record[r]
      PROVE  BusyAgentsWork'
  BY <1>1, <1>2 DEF AgentInv, BusyAgentsWork, Working
<1>3. CASE CommitStart
  <2>1. PICK r \in ServiceRuns :
          /\ Commits("start") /\ Head(queue).run = r
          /\ record' = [record EXCEPT ![r] = IF @ = "gone" THEN @ ELSE "running"]
          /\ status' = status
    BY <1>3 DEF CommitStart
  <2>2. queue # << >> /\ Head(queue).op = "start"
    BY <2>1 DEF Commits
  <2>3. execution[r] = "begun" /\ record[r] \in {"queued", "gone"}
    <3>1. Fits(Head(queue))
      BY <2>2, HeadFits DEF RunOps
    <3> QED BY <2>1, <2>2, <3>1 DEF Fits
  <2>4. /\ record'[r] = IF record[r] = "gone" THEN "gone" ELSE "running"
        /\ \A q \in ServiceRuns \ {r} : record'[q] = record[q]
    BY <2>1 DEF Typed
  <2>5. \A q \in ServiceRuns : Working(q)' \/ record'[q] = record[q]
    BY <1>1, <2>3, <2>4 DEF Working
  <2>6. \A q \in ServiceRuns : status'[AgentOf[q]] = "gone" => record'[q] \in {"none", "gone"}
    BY <2>1, <2>3, <2>4 DEF AgentInv
  <2> QED BY <1>1, <1>2, <2>1, <2>5, <2>6 DEF AgentInv
<1>4. CASE CommitReady \/ CommitStopped
  <2>1. record' = record /\ \E a : \E to \in {"ready", "stopped"} :
          \/ status' = status
          \/ status[a] # "gone" /\ status' = [status EXCEPT ![a] = to]
    BY <1>4 DEF CommitReady, CommitStopped
  <2>2. /\ \A a \in ServiceAgents : status'[a] = "busy" => status[a] = "busy"
        /\ \A a \in ServiceAgents : status'[a] = "gone" => status[a] = "gone"
    BY <2>1 DEF Typed
  <2> QED BY <1>1, <1>2, <2>1, <2>2, Members DEF AgentInv
<1>5. CASE CommitDelete
  <2>1. PICK a : /\ status' = [status EXCEPT ![a] = "gone"]
                 /\ record' = [r \in ServiceRuns |-> IF AgentOf[r] = a /\ record[r] # "none"
                                             THEN "gone" ELSE record[r]]
    BY <1>5 DEF CommitDelete
  <2>2. \A b \in ServiceAgents : status'[b] = IF b = a THEN "gone" ELSE status[b]
    BY <2>1 DEF Typed
  <2>3. \A r \in ServiceRuns : Working(r)' \/ record'[r] = record[r]
    BY <2>1 DEF Working
  <2>4. \A q \in ServiceRuns : status'[AgentOf[q]] = "gone" => record'[q] \in {"none", "gone"}
    BY <2>1, <2>2, Members DEF AgentInv
  <2>5. \A b \in ServiceAgents : status'[b] = "busy" => status[b] = "busy"
    BY <2>2
  <2> QED BY <1>1, <1>2, <2>3, <2>4, <2>5 DEF AgentInv
<1> QED BY <1>3, <1>4, <1>5

LEMMA RestAgents ==
  ASSUME Typed, QueueInv, AgentInv,
         \/ \E r \in ServiceRuns : Send(r)
         \/ \E a \in ServiceAgents : StartAgent(a)
         \/ \E s \in Stops : RequestStop(s) \/ StopWakes(s) \/ Archived(s)
         \/ \E r \in Runs : Step(r)
         \/ WriteFails \/ Restart \/ UNCHANGED svars
  PROVE  AgentInv'
<1>1. CASE UNCHANGED << status, record, executing, execution, unwritten >>
  BY <1>1 DEF AgentInv, BusyAgentsWork
<1>2. ASSUME NEW r \in ServiceRuns, Send(r) PROVE AgentInv'
  <2>1. UNCHANGED << status, record, executing, unwritten >>
    BY <1>2 DEF Send, db
  <2>2. \A q \in ServiceRuns : execution[q] = "begun" => execution'[q] = "begun"
    BY <1>2 DEF Send, Typed
  <2>3. \A b \in ServiceAgents : executing[b] # None => executing[b] \in ServiceRuns
    BY DEF Typed
  <2> QED BY <2>1, <2>2, <2>3 DEF AgentInv, BusyAgentsWork
<1>3. CASE WriteFails
  <2>1. unwritten' = TRUE /\ UNCHANGED << status, record >>
    BY <1>3 DEF WriteFails, db
  <2>2. \A b \in ServiceAgents : executing'[b] = executing[b] \/ executing'[b] = None
    BY <1>3 DEF WriteFails, Resolves, Typed
  <2> QED BY <2>1, <2>2 DEF AgentInv, BusyAgentsWork
<1>4. CASE Restart
  <2>1. /\ \A a \in ServiceAgents : status'[a] # "busy" /\ executing'[a] = None
        /\ \A a \in ServiceAgents : status'[a] = "gone" => status[a] = "gone"
        /\ \A r \in ServiceRuns : record'[r] \notin {"queued", "running"}
        /\ \A r \in ServiceRuns : record[r] \in {"none", "gone"} => record'[r] = record[r]
    BY <1>4 DEF Restart
  <2> QED BY <2>1, Members DEF AgentInv, BusyAgentsWork
<1>5. ASSUME \/ \E a \in ServiceAgents : StartAgent(a)
             \/ \E s \in Stops : RequestStop(s) \/ StopWakes(s) \/ Archived(s)
             \/ \E r \in Runs : Step(r)
             \/ UNCHANGED svars
      PROVE  UNCHANGED << status, record, executing, execution, unwritten >>
  BY <1>5 DEF StartAgent, RequestStop, StopWakes, Archived, Step, svars, db
<1> QED BY <1>1, <1>2, <1>3, <1>4, <1>5

LEMMA AgentsHold == Spec => []AgentInv
<1>1. Init => AgentInv
  BY DEF Init, AgentInv, BusyAgentsWork
<1>2. ServiceTypeInv /\ QueueInv /\ AgentInv /\ [Next]_vars => AgentInv'
  <2> SUFFICES ASSUME Typed, QueueInv, AgentInv, [Next]_vars PROVE AgentInv'
    BY DEF ServiceTypeInv
  <2>1. UNCHANGED vars => UNCHANGED svars
    BY DEF vars
  <2>2. (\E r \in Runs \ ServiceRuns : TurnRun(r)) => UNCHANGED svars
    BY DEF TurnRun
  <2> QED BY <2>1, <2>2, CommitSendAgents, CommitEndAgents, CommitsAgents, RestAgents
          DEF Next, Serve
<1> QED BY <1>1, <1>2, ServiceTypeHolds, QueueHolds, PTL DEF Spec

-----------------------------------------------------------------------------
\* Type correctness of the database, the queue and the requests.
THEOREM ServiceTypeCorrect == Spec => []TypeOK
<1>1. ServiceTypeInv => TypeOK
  BY ServiceTypes DEF ServiceTypeInv
<1> QED BY <1>1, ServiceTypeHolds, PTL

\* An agent is busy only while something works on it.
THEOREM BusyAgentsAreWorkedOn == Spec => []BusyAgentsWork
<1>1. AgentInv => BusyAgentsWork
  BY DEF AgentInv
<1> QED BY <1>1, AgentsHold, PTL

\* What a run came to is never rewritten.
THEOREM ResultsStay == Spec => ResultsAreFinal
<1>1. ServiceTypeInv /\ QueueInv /\ [Next]_vars
        => [\A r \in ServiceRuns : record[r] \in Terminal => record'[r] \in {record[r], "gone"}]_vars
  BY ResultsStep DEF ServiceTypeInv
<1> QED BY <1>1, ServiceTypeHolds, QueueHolds, PTL DEF Spec, ResultsAreFinal
=============================================================================
