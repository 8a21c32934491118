----------------------- MODULE PermissionManagerProofs -----------------------
(***************************************************************************)
(* Proofs about PermissionManager for any set of calls, rules and signals. *)
(*                                                                         *)
(* Those at the end assume what the SDK does with questions                *)
(* (OneQuestionAtATime): it asks the next one after the last was settled,  *)
(* and hands over a signal of its own with each.  MCQuestionOverlap.cfg    *)
(* shows what happens if not.                                              *)
(***************************************************************************)
EXTENDS PermissionManager, FiniteSetTheorems, SequenceTheorems, TLAPS

USE CallsAssumption DEF CallsAssumption
-----------------------------------------------------------------------------
(* Induction.  The library's induction theorems take a predicate; these    *)
(* take a set of numbers, from the least element of its complement.        *)

LEMMA LeastElement ==
  ASSUME NEW S \in SUBSET Nat, S # {}
  PROVE  \E m \in S : \A n \in S : m <= n
<1>1. IsWellFoundedOn(OpToRel(<, Nat), Nat)
  BY NatLessThanWellFounded
<1>2. PICK x \in S : \A y \in S : ~ (<<y, x>> \in OpToRel(<, Nat))
  BY <1>1, WFMin
<1>3. \A y \in S : ~(y < x)
  BY <1>2 DEF OpToRel
<1> QED
  BY <1>3

LEMMA Induction ==
  ASSUME NEW S, 0 \in S, \A n \in Nat : n \in S => n + 1 \in S
  PROVE  Nat \subseteq S
<1> SUFFICES ASSUME Nat \ S # {} PROVE FALSE
  OBVIOUS
<1>1. PICK m \in Nat \ S : \A n \in Nat \ S : m <= n
  BY LeastElement
<1>2. m # 0 /\ m - 1 \in Nat /\ m - 1 \in S
  BY <1>1
<1> QED
  BY <1>1, <1>2

(* A loop over 1..N whose passes stay in T has a trace: what it held       *)
(* before and after each of them.                                          *)
StaysIn(T, step, N) == \A t \in T : \A i \in 1..N : step[<<t, i>>] \in T

Traces(T, init, step, N) ==
  {f \in [0..N -> T] : f[0] = init /\ \A i \in 1..N : f[i] = step[<<f[i - 1], i>>]}

LEMMA LoopHasTrace ==
  ASSUME NEW T, NEW init \in T, NEW step, NEW N \in Nat, StaysIn(T, step, N)
  PROVE  Traces(T, init, step, N) # {}
<1> USE DEF StaysIn
<1> DEFINE Trace(f, n) == /\ f \in [0..n -> T] /\ f[0] = init
                          /\ \A i \in 1..n : f[i] = step[<<f[i - 1], i>>]
           S == {n \in Nat : n <= N => \E f : Trace(f, n)}
<1>1. 0 \in S
  <2>1. Trace([i \in 0..0 |-> init], 0)
    OBVIOUS
  <2> QED
    BY <2>1
<1>2. ASSUME NEW n \in Nat, n \in S, n + 1 <= N PROVE n + 1 \in S
  <2>1. PICK f : Trace(f, n)
    BY <1>2
  <2> DEFINE g == [i \in 0..n+1 |-> IF i = n + 1 THEN step[<<f[n], n + 1>>] ELSE f[i]]
  <2>2. g \in [0..n+1 -> T] /\ g[0] = init
    BY <1>2, <2>1
  <2>3. ASSUME NEW i \in 1..n+1 PROVE g[i] = step[<<g[i - 1], i>>]
    <3>1. CASE i = n + 1
      <4>1. g[i] = step[<<f[n], i>>] /\ i - 1 = n /\ g[n] = f[n]
        BY <3>1
      <4> QED
        BY <4>1
    <3>2. CASE i # n + 1
      BY <2>1, <3>2
    <3> QED
      BY <3>1, <3>2
  <2> HIDE DEF g
  <2>4. Trace(g, n + 1)
    BY <2>2, <2>3
  <2> QED
    BY <2>4
<1>3. ASSUME NEW n \in Nat, ~(n + 1 <= N) PROVE n + 1 \in S
  BY <1>3
<1>4. Nat \subseteq S
  <2> HIDE DEF S
  <2> QED
    BY <1>1, <1>2, <1>3, Induction
<1>5. PICK f : Trace(f, N)
  BY <1>4
<1> QED
  BY <1>5 DEF Traces
-----------------------------------------------------------------------------
(* The helpers of the rule store.                                          *)

(* One pass of setRules keeps the list fit. *)
LEMMA KeepRuleFit ==
  ASSUME NEW kept \in ProjectRules, NEW rule \in Rule
  PROVE  KeepRule(kept, rule) \in ProjectRules
<1> DEFINE same == {i \in DOMAIN kept : SameKey(kept[i], rule)}
<1>0. kept \in Seq(Rule) /\ MaxRulesPerProject \in Nat
  BY LimitsAssumption DEF ProjectRules, LimitsAssumption
<1>1. CASE \/ rule.decision = "allow" /\ rule.tool \notin EligibleTools
           \/ Len(kept) >= MaxRulesPerProject
  BY <1>1 DEF KeepRule
<1>2. CASE /\ ~(rule.decision = "allow" /\ rule.tool \notin EligibleTools)
           /\ ~(Len(kept) >= MaxRulesPerProject)
           /\ same = {}
  <2>1. KeepRule(kept, rule) = Append(kept, rule)
    BY <1>2 DEF KeepRule
  <2> DEFINE l == Append(kept, rule)
  <2>2. /\ l \in Seq(Rule) /\ Len(l) = Len(kept) + 1 /\ Len(l) <= MaxRulesPerProject
        /\ \A i \in DOMAIN kept : l[i] = kept[i]
        /\ l[Len(kept) + 1] = rule
    BY <1>0, <1>2, AppendProperties
  <2>3. \A i \in DOMAIN l : i \in DOMAIN kept \/ i = Len(kept) + 1
    BY <1>0, <2>2
  <2>4. \A i \in DOMAIN kept : ~SameKey(l[i], rule)
    BY <1>2, <2>2
  <2> HIDE DEF l
  <2>5. \A i, j \in DOMAIN l : SameKey(l[i], l[j]) => i = j
    BY <2>2, <2>3, <2>4 DEF ProjectRules, SameKey
  <2>6. \A i \in DOMAIN l : l[i].decision = "allow" => l[i].tool \in EligibleTools
    BY <1>2, <2>2, <2>3 DEF ProjectRules
  <2> QED
    BY <2>1, <2>2, <2>5, <2>6 DEF ProjectRules, l
<1>3. CASE /\ ~(rule.decision = "allow" /\ rule.tool \notin EligibleTools)
           /\ ~(Len(kept) >= MaxRulesPerProject)
           /\ same # {}
  <2>1. PICK k \in same : KeepRule(kept, rule) = [kept EXCEPT ![k] = rule]
    BY <1>3 DEF KeepRule
  <2> DEFINE l == [kept EXCEPT ![k] = rule]
  <2>2. /\ l \in Seq(Rule) /\ Len(l) = Len(kept) /\ DOMAIN l = DOMAIN kept
        /\ k \in DOMAIN kept /\ SameKey(kept[k], rule)
        /\ l[k] = rule /\ \A i \in DOMAIN kept : i # k => l[i] = kept[i]
    BY <1>0, <2>1, ExceptSeq
  <2> HIDE DEF l, same
  <2>3. \A i, j \in DOMAIN l : SameKey(l[i], l[j]) => i = j
    BY <2>2 DEF ProjectRules, SameKey
  <2>4. \A i \in DOMAIN l : l[i].decision = "allow" => l[i].tool \in EligibleTools
    BY <1>3, <2>2 DEF ProjectRules
  <2> QED
    BY <1>0, <1>3, <2>1, <2>2, <2>3, <2>4 DEF ProjectRules, l
<1> QED
  BY <1>1, <1>2, <1>3

(* PermissionRuleStore.setRules: whatever list a client sends, what is     *)
(* stored is within the cap, has one rule per key and allows no tool that  *)
(* may not be allowed for good.                                            *)
LEMMA StoredRulesFit ==
  ASSUME NEW rules \in Seq(Rule)
  PROVE  StoredRules(rules) \in ProjectRules
<1> DEFINE N == Len(rules)
           Loop(f) == [i \in 0..N |-> IF i = 0 THEN <<>> ELSE KeepRule(f[i - 1], rules[i])]
           kept == CHOOSE f : f = Loop(f)
<1>0. N \in Nat /\ \A i \in 1..N : rules[i] \in Rule
  BY ElementOfSeq, LenProperties
<1>1. <<>> \in ProjectRules
  BY EmptySeq, LimitsAssumption DEF ProjectRules, LimitsAssumption
<1>2. \E f : f = Loop(f)
  <2> DEFINE step == [p \in ProjectRules \X (1..N) |-> KeepRule(p[1], rules[p[2]])]
  <2>1. \A t \in ProjectRules : \A i \in 1..N : step[<<t, i>>] = KeepRule(t, rules[i])
    OBVIOUS
  <2> HIDE DEF step, N
  <2>2. StaysIn(ProjectRules, step, N)
    BY <1>0, <2>1, KeepRuleFit DEF StaysIn
  <2>3. PICK f \in [0..N -> ProjectRules] :
          f[0] = <<>> /\ \A i \in 1..N : f[i] = step[<<f[i - 1], i>>]
    BY <1>0, <1>1, <2>2, LoopHasTrace DEF Traces
  <2>4. ASSUME NEW i \in 1..N PROVE f[i] = KeepRule(f[i - 1], rules[i])
    <3>1. i - 1 \in 0..N
      BY <1>0
    <3> QED
      BY <2>1, <2>3, <3>1
  <2>5. f = Loop(f)
    BY <1>0, <2>3, <2>4
  <2> QED
    BY <2>5
<1>3. kept = Loop(kept)
  BY <1>2
<1>4. StoredRules(rules) = kept[N]
  BY DEF StoredRules
<1> HIDE DEF kept
<1>5. kept[0] = <<>> /\ \A i \in 1..N : kept[i] = KeepRule(kept[i - 1], rules[i])
  BY <1>0, <1>3
<1> DEFINE S == {n \in Nat : n <= N => kept[n] \in ProjectRules}
<1> HIDE DEF N
<1>6. Nat \subseteq S
  <2>1. 0 \in S
    BY <1>1, <1>5
  <2>2. ASSUME NEW n \in Nat, n \in S PROVE n + 1 \in S
    BY <1>0, <1>5, <2>2, KeepRuleFit
  <2> HIDE DEF S
  <2> QED
    BY <2>1, <2>2, Induction
<1> QED
  BY <1>0, <1>4, <1>6

(* What the filter of addRule has kept of the first n rules. *)
Filtered(l, rules, rule, n) ==
  /\ l \in Seq(Rule) /\ Len(l) <= n
  /\ \A a \in DOMAIN l : ~SameKey(l[a], rule) /\ \E j \in 1..n : l[a] = rules[j]
  /\ \A a, b \in DOMAIN l : SameKey(l[a], l[b]) => a = b
  /\ \A j \in 1..n : ~SameKey(rules[j], rule) => \E a \in DOMAIN l : l[a] = rules[j]

LEMMA FilterStep ==
  ASSUME NEW rules \in ProjectRules, NEW rule, NEW n \in Nat, n + 1 <= Len(rules),
         NEW l, Filtered(l, rules, rule, n)
  PROVE  Filtered(IF SameKey(rules[n + 1], rule) THEN l ELSE Append(l, rules[n + 1]),
                  rules, rule, n + 1)
<1>0. rules \in Seq(Rule) /\ Len(rules) \in Nat /\ l \in Seq(Rule) /\ Len(l) \in Nat
  BY LenProperties DEF ProjectRules, Filtered
<1> DEFINE r == rules[n + 1]
           m == Append(l, r)
<1>1. r \in Rule /\ n + 1 \in DOMAIN rules
  BY <1>0, ElementOfSeq, LenProperties
<1>2. CASE SameKey(r, rule)
  BY <1>0, <1>2 DEF Filtered
<1>3. CASE ~SameKey(r, rule)
  <2>1. /\ m \in Seq(Rule) /\ Len(m) = Len(l) + 1 /\ DOMAIN m = 1 .. Len(l) + 1
        /\ DOMAIN l = 1 .. Len(l)
        /\ \A a \in DOMAIN l : m[a] = l[a]
        /\ m[Len(l) + 1] = r
    BY <1>0, <1>1, AppendProperties, LenProperties
  <2> HIDE DEF m
  <2>2. \A a \in DOMAIN m : a \in DOMAIN l \/ a = Len(l) + 1
    BY <1>0, <2>1
  <2>3. \A j \in 1..n+1 : j \in 1..n \/ j = n + 1
    OBVIOUS
  <2>4. \A a \in DOMAIN m : ~SameKey(m[a], rule) /\ \E j \in 1..n+1 : m[a] = rules[j]
    BY <1>3, <2>1, <2>2 DEF Filtered
  <2>5. \A a \in DOMAIN l : ~SameKey(l[a], r)
    <3> SUFFICES ASSUME NEW a \in DOMAIN l, SameKey(l[a], r) PROVE FALSE
      OBVIOUS
    <3>1. PICK j \in 1..n : l[a] = rules[j]
      BY DEF Filtered
    <3>2. j \in DOMAIN rules
      BY <1>0, LenProperties
    <3> QED
      BY <1>1, <3>1, <3>2 DEF ProjectRules
  <2>6. \A a, b \in DOMAIN m : SameKey(m[a], m[b]) => a = b
    <3> SUFFICES ASSUME NEW a \in DOMAIN m, NEW b \in DOMAIN m, SameKey(m[a], m[b])
                 PROVE  a = b
      OBVIOUS
    <3>1. SameKey(m[b], m[a])
      BY DEF SameKey
    <3>2. CASE a \in DOMAIN l /\ b \in DOMAIN l
      BY <2>1, <3>2 DEF Filtered
    <3>3. CASE a \in DOMAIN l /\ b = Len(l) + 1
      BY <2>1, <2>5, <3>3
    <3>4. CASE a = Len(l) + 1 /\ b \in DOMAIN l
      BY <2>1, <2>5, <3>1, <3>4
    <3> QED
      BY <2>2, <3>2, <3>3, <3>4
  <2>7. \A j \in 1..n+1 : ~SameKey(rules[j], rule) => \E a \in DOMAIN m : m[a] = rules[j]
    <3>1. Len(l) + 1 \in DOMAIN m /\ DOMAIN l \subseteq DOMAIN m
      BY <1>0, <2>1
    <3> QED
      BY <2>1, <2>3, <3>1 DEF Filtered
  <2>8. Len(m) <= n + 1
    BY <1>0, <2>1 DEF Filtered
  <2> QED
    BY <1>3, <2>1, <2>4, <2>6, <2>7, <2>8 DEF Filtered, m
<1> QED
  BY <1>2, <1>3

(* addRule drops the rule with the same key and keeps every other one.     *)
LEMMA OthersFiltered ==
  ASSUME NEW rules \in ProjectRules, NEW rule
  PROVE  Filtered(Others(rules, rule), rules, rule, Len(rules))
<1> DEFINE N == Len(rules)
           Pass(l, i) == IF SameKey(rules[i], rule) THEN l ELSE Append(l, rules[i])
           Loop(f) == [i \in 0..N |-> IF i = 0 THEN <<>> ELSE Pass(f[i - 1], i)]
           kept == CHOOSE f : f = Loop(f)
<1>0. N \in Nat /\ \A i \in 1..N : rules[i] \in Rule
  BY ElementOfSeq, LenProperties DEF ProjectRules
<1>1. <<>> \in Seq(Rule)
  BY EmptySeq
<1>2. \E f : f = Loop(f)
  <2> DEFINE T == Seq(Rule)
             step == [p \in T \X (1..N) |-> Pass(p[1], p[2])]
  <2>0. \A t \in T : \A i \in 1..N : Pass(t, i) \in T
    BY <1>0, AppendProperties
  <2> HIDE DEF Pass, T
  <2>1. \A t \in T : \A i \in 1..N : step[<<t, i>>] = Pass(t, i)
    OBVIOUS
  <2> HIDE DEF step, N
  <2>2. StaysIn(T, step, N) /\ <<>> \in T
    BY <1>1, <2>0, <2>1 DEF StaysIn, T
  <2>3. PICK f \in [0..N -> T] :
          f[0] = <<>> /\ \A i \in 1..N : f[i] = step[<<f[i - 1], i>>]
    BY <1>0, <2>2, LoopHasTrace DEF Traces
  <2>4. ASSUME NEW i \in 1..N PROVE f[i] = Pass(f[i - 1], i)
    <3>1. i - 1 \in 0..N
      BY <1>0
    <3> QED
      BY <2>1, <2>3, <3>1
  <2>5. f = Loop(f)
    BY <1>0, <2>3, <2>4
  <2> QED
    BY <2>5
<1>3. kept = Loop(kept)
  BY <1>2
<1>4. Others(rules, rule) = kept[N]
  BY DEF Others
<1> HIDE DEF kept, Pass
<1>5. kept[0] = <<>> /\ \A i \in 1..N : kept[i] = Pass(kept[i - 1], i)
  BY <1>0, <1>3
<1> DEFINE S == {n \in Nat : n <= N => Filtered(kept[n], rules, rule, n)}
<1> HIDE DEF Loop
<1>6. Nat \subseteq S
  <2>1. 0 \in S
    <3>1. Len(<<>>) = 0 /\ DOMAIN <<>> = {} /\ 1..0 = {}
      OBVIOUS
    <3> DEFINE e == kept[0]
    <3>2. e \in Seq(Rule) /\ Len(e) = 0 /\ DOMAIN e = {}
      BY <1>1, <1>5, <3>1
    <3> HIDE DEF e
    <3>3. Filtered(e, rules, rule, 0)
      BY <3>1, <3>2 DEF Filtered
    <3> QED
      BY <3>3 DEF e
  <2>2. ASSUME NEW n \in Nat, n \in S PROVE n + 1 \in S
    <3> SUFFICES ASSUME n + 1 <= N PROVE Filtered(kept[n + 1], rules, rule, n + 1)
      OBVIOUS
    <3>1. Filtered(kept[n], rules, rule, n)
      BY <1>0, <2>2
    <3>2. kept[n + 1] = Pass(kept[n], n + 1)
      <4>1. n + 1 \in 1..N /\ (n + 1) - 1 = n
        BY <1>0
      <4> QED
        BY <1>5, <4>1
    <3> QED
      BY <3>1, <3>2, FilterStep DEF Pass
  <2> HIDE DEF S
  <2> QED
    BY <2>1, <2>2, Induction
<1> QED
  BY <1>0, <1>4, <1>6

(* PermissionRuleStore.addRule: a rule that is accepted leaves the         *)
(* project's rules fit, also at the cap, where it replaces one.            *)
LEMMA AddRuleFit ==
  ASSUME NEW rules \in ProjectRules, NEW rule \in Rule, AcceptsRule(rules, rule)
  PROVE  AddRule(rules, rule) \in ProjectRules
<1> DEFINE o == Others(rules, rule)
           l == Append(o, rule)
<1>1. Filtered(o, rules, rule, Len(rules))
  BY OthersFiltered
<1>2. AcceptsRule(rules, rule) <=>
        /\ rule.decision = "deny" \/ rule.tool \in EligibleTools
        /\ Len(rules) < MaxRulesPerProject \/ Len(o) < Len(rules)
  BY DEF AcceptsRule
<1>3. AddRule(rules, rule) = l
  BY DEF AddRule
<1> HIDE DEF o
<1>4. /\ rules \in Seq(Rule) /\ Len(rules) \in Nat /\ Len(rules) <= MaxRulesPerProject
      /\ o \in Seq(Rule) /\ Len(o) \in Nat /\ Len(o) <= Len(rules)
      /\ MaxRulesPerProject \in Nat
  BY <1>1, LenProperties, LimitsAssumption DEF ProjectRules, Filtered, LimitsAssumption
<1>5. /\ l \in Seq(Rule) /\ Len(l) = Len(o) + 1 /\ DOMAIN l = 1 .. Len(o) + 1
      /\ DOMAIN o = 1 .. Len(o) /\ DOMAIN rules = 1 .. Len(rules)
      /\ \A a \in DOMAIN o : l[a] = o[a]
      /\ l[Len(o) + 1] = rule
  BY <1>4, AppendProperties, LenProperties
<1> HIDE DEF l
<1>6. \A a \in DOMAIN l : a \in DOMAIN o \/ a = Len(o) + 1
  BY <1>4, <1>5
<1>7. Len(l) <= MaxRulesPerProject
  BY <1>2, <1>4, <1>5
<1>8. \A i, j \in DOMAIN l : SameKey(l[i], l[j]) => i = j
  BY <1>1, <1>5, <1>6 DEF Filtered, SameKey
<1>9. \A i \in DOMAIN l : l[i].decision = "allow" => l[i].tool \in EligibleTools
  <2>1. rule.decision = "allow" => rule.tool \in EligibleTools
    BY <1>2
  <2>2. \A a \in DOMAIN o : \E j \in DOMAIN rules : o[a] = rules[j]
    BY <1>1, <1>5 DEF Filtered
  <2> QED
    BY <1>5, <1>6, <2>1, <2>2 DEF ProjectRules
<1> QED
  BY <1>3, <1>5, <1>7, <1>8, <1>9 DEF ProjectRules
-----------------------------------------------------------------------------
(* Types.                                                                  *)

(* What becomes of the rules and the mode in one step. *)
RulesOK == /\ sessionRules \in SessionRules
           /\ persistentRules \in ProjectRules
           /\ storeRules \in ProjectRules

LEMMA RulesStep ==
  ASSUME RulesOK, [Next]_vars
  PROVE  RulesOK'
<1> USE DEF policyVars, RulesOK
<1>0. <<>> \in SessionRules /\ <<>> \in ProjectRules
  BY EmptySeq, LimitsAssumption DEF SessionRules, ProjectRules, LimitsAssumption
<1>1. ASSUME NEW c \in ToolCalls,
             AllowSilently(c) \/ DenySilently(c) \/ DenyAtCap(c) \/ PromptForTool(c)
      PROVE  RulesOK'
  BY <1>1 DEF AllowSilently, DenySilently, DenyAtCap, PromptForTool
<1>2. ASSUME NEW q \in Questions, AskUserQuestion(q) \/ QuestionTimeout(q) PROVE RulesOK'
  BY <1>2 DEF AskUserQuestion, QuestionTimeout
<1>3. ASSUME NEW c \in TrustCalls, RequestMcpTrust(c) \/ TrustAddressResolved(c) PROVE RulesOK'
  BY <1>3 DEF RequestMcpTrust, TrustAddressResolved
<1>4. ASSUME NEW c \in ToolCalls \cup TrustCalls, PermissionTimeout(c) PROVE RulesOK'
  BY <1>4 DEF PermissionTimeout
<1>5. ASSUME NEW c \in ToolCalls \cup TrustCalls, NEW d \in {"allow", "allowAlways", "deny"},
             RespondToPermission(c, d)
      PROVE  RulesOK'
  <2> DEFINE rule == [tool |-> ToolName(c), decision |-> "allow", scope |-> NoScope]
  <2>1. AcceptsRule(storeRules, rule) => rule \in Rule
    BY RulesAssumption DEF RulesAssumption, AcceptsRule, Rule, Decisions
  <2> HIDE DEF rule
  <2>2. CASE PersistAlways(c) /\ AcceptsRule(storeRules, rule)
    <3>1. storeRules' = AddRule(storeRules, rule) /\ persistentRules' = storeRules'
          /\ sessionRules' = sessionRules
      BY <2>2 DEF PersistAlways, rule
    <3> QED
      BY <2>1, <2>2, <3>1, AddRuleFit
  <2>3. CASE PersistAlways(c) /\ ~AcceptsRule(storeRules, rule)
    BY <2>3 DEF PersistAlways, rule
  <2>4. CASE UNCHANGED policyVars
    BY <2>4
  <2> QED
    BY <1>5, <2>2, <2>3, <2>4 DEF RespondToPermission
<1>6. CASE RespondToQuestion \/ ClearAll \/ BeginTurn \/ UNCHANGED vars
  BY <1>6 DEF RespondToQuestion, ClearAll, BeginTurn, vars
<1>7. ASSUME NEW s \in Signals, Abort(s) PROVE RulesOK'
  BY <1>7 DEF Abort
<1>8. ASSUME NEW mode \in Modes, SetPermissionMode(mode) PROVE RulesOK'
  BY <1>0, <1>8 DEF SetPermissionMode, OnPermissionModeChanged
<1>9. ASSUME NEW rules \in RuleLists, SetPermissionRules(rules) PROVE RulesOK'
  BY <1>9, RulesAssumption DEF RulesAssumption, SetPermissionRules, SessionRules
<1>10. ASSUME NEW rules \in RuleLists, SetProjectRules(rules) PROVE RulesOK'
  BY <1>10, RulesAssumption, StoredRulesFit DEF RulesAssumption, SetProjectRules
<1> QED
  BY <1>1, <1>2, <1>3, <1>4, <1>5, <1>6, <1>7, <1>8, <1>9, <1>10 DEF Next

(* The rest of TypeOK: the mode, the maps, the question and the history. *)
RequestTypeOK ==
  /\ permissionMode \in Modes /\ isBusy \in BOOLEAN /\ changes \in 0..MaxChanges
  /\ pendingPermissions \subseteq ToolCalls \cup TrustCalls
  /\ permissionTimers \subseteq ToolCalls \cup TrustCalls
  /\ lastPermissionData \subseteq ToolCalls \cup TrustCalls
  /\ resolving \subseteq RemoteTrustCalls
  /\ pendingUserAnswer \in Questions \cup {NoCall}
  /\ questionTimer \in Questions \cup {NoCall}
  /\ liveQuestionTimers \subseteq Questions /\ waitingForAnswer \in BOOLEAN
  /\ asked \in Seq(Questions) /\ aborted \subseteq Signals
  /\ decision \in [Calls -> Decisions \cup {"none"}]
  /\ announced \subseteq Calls /\ answered \subseteq Calls
  /\ told \in [Calls -> Nat]

LEMMA SettleType ==
  ASSUME NEW A, NEW D, Settle(A, D), RequestTypeOK
  PROVE  decision' \in [Calls -> Decisions \cup {"none"}]
BY DEF Settle, RequestTypeOK, Decisions

LEMMA ResolvedType ==
  ASSUME NEW S, EmitResolved(S), RequestTypeOK
  PROVE  told' \in [Calls -> Nat]
BY DEF EmitResolved, RequestTypeOK

LEMMA RequestStep ==
  ASSUME RequestTypeOK, [Next]_vars
  PROVE  RequestTypeOK'
<1> USE DEF policyVars, mapVars, questionVars, RequestTypeOK
<1>0. ToolCalls \subseteq Calls /\ TrustCalls \subseteq Calls /\ Questions \subseteq Calls
      /\ MaxChanges \in Nat
  BY LimitsAssumption DEF Calls, LimitsAssumption
<1>1. ASSUME NEW c \in ToolCalls,
             AllowSilently(c) \/ DenySilently(c) \/ DenyAtCap(c)
      PROVE  RequestTypeOK'
  BY <1>1, SettleType DEF AllowSilently, DenySilently, DenyAtCap
<1>2. ASSUME NEW c \in ToolCalls, PromptForTool(c) PROVE RequestTypeOK'
  BY <1>0, <1>2 DEF PromptForTool, Insert
<1>3. ASSUME NEW q \in Questions, AskUserQuestion(q) PROVE RequestTypeOK'
  BY <1>0, <1>3, AppendProperties DEF AskUserQuestion
<1>4. ASSUME NEW q \in Questions, QuestionTimeout(q) PROVE RequestTypeOK'
  BY <1>4, SettleType, ResolvedType DEF QuestionTimeout
<1>5. ASSUME NEW c \in TrustCalls, RequestMcpTrust(c) \/ TrustAddressResolved(c)
      PROVE  RequestTypeOK'
  BY <1>0, <1>5 DEF RequestMcpTrust, TrustAddressResolved, Insert
<1>6. ASSUME NEW c \in ToolCalls \cup TrustCalls, PermissionTimeout(c) PROVE RequestTypeOK'
  BY <1>6, SettleType, ResolvedType DEF PermissionTimeout
<1>7. ASSUME NEW c \in ToolCalls \cup TrustCalls, NEW d \in {"allow", "allowAlways", "deny"},
             RespondToPermission(c, d)
      PROVE  RequestTypeOK'
  <2>1. decision' \in [Calls -> Decisions \cup {"none"}] /\ told' \in [Calls -> Nat]
    BY <1>7, SettleType, ResolvedType DEF RespondToPermission
  <2> QED
    BY <1>0, <1>7, <2>1 DEF RespondToPermission, Forget, PersistAlways
<1>8. CASE RespondToQuestion
  <2>1. decision' \in [Calls -> Decisions \cup {"none"}] /\ told' \in [Calls -> Nat]
    BY <1>8, SettleType, ResolvedType DEF RespondToQuestion
  <2> QED
    BY <1>0, <1>8, <2>1 DEF RespondToQuestion, ClearQuestion, Slot
<1>9. ASSUME NEW s \in Signals, Abort(s) PROVE RequestTypeOK'
  <2>1. decision' \in [Calls -> Decisions \cup {"none"}] /\ told' \in [Calls -> Nat]
    BY <1>9, SettleType, ResolvedType DEF Abort
  <2>2. UNCHANGED questionVars \/ ClearQuestion
    BY <1>9 DEF Abort
  <2> QED
    BY <1>9, <2>1, <2>2 DEF Abort, Forget, ClearQuestion
<1>10. CASE ClearAll
  <2>1. decision' \in [Calls -> Decisions \cup {"none"}] /\ told' \in [Calls -> Nat]
    BY <1>10, SettleType, ResolvedType DEF ClearAll
  <2> QED
    BY <1>10, <2>1 DEF ClearAll, ClearQuestion
<1>11. CASE BeginTurn \/ UNCHANGED vars
  BY <1>11 DEF BeginTurn, vars
<1>12. ASSUME NEW mode \in Modes, SetPermissionMode(mode) PROVE RequestTypeOK'
  <2>1. changes' \in 0..MaxChanges
    BY <1>0, <1>12 DEF SetPermissionMode
  <2>2. CASE AutoAllowPending
    <3>1. decision' \in [Calls -> Decisions \cup {"none"}] /\ told' \in [Calls -> Nat]
      BY <2>2, SettleType, ResolvedType DEF AutoAllowPending
    <3> QED
      BY <1>12, <2>1, <2>2, <3>1 DEF SetPermissionMode, AutoAllowPending, Forget
  <2>3. CASE UNCHANGED <<mapVars, decision, told>>
    BY <1>12, <2>1, <2>3 DEF SetPermissionMode
  <2> QED
    BY <1>12, <2>2, <2>3 DEF SetPermissionMode, OnPermissionModeChanged
<1>13. ASSUME NEW rules \in RuleLists, SetPermissionRules(rules) \/ SetProjectRules(rules)
       PROVE  RequestTypeOK'
  BY <1>0, <1>13 DEF SetPermissionRules, SetProjectRules
<1> QED
  BY <1>1, <1>2, <1>3, <1>4, <1>5, <1>6, <1>7, <1>8, <1>9, <1>10, <1>11, <1>12, <1>13 DEF Next

(* Every map is empty at first, and no call has a decision. *)
LEMMA InitTypes == Init => RequestTypeOK
<1> SUFFICES ASSUME Init PROVE RequestTypeOK
  OBVIOUS
<1>1. changes \in 0..MaxChanges
  BY LimitsAssumption DEF Init, LimitsAssumption
<1>2. decision \in [Calls -> Decisions \cup {"none"}] /\ told \in [Calls -> Nat]
  BY DEF Init
<1> QED
  BY <1>1, <1>2, EmptySeq DEF Init, RequestTypeOK

(* The maps, the timers, the question slot and the rules have the shape    *)
(* the code gives them, whatever lists of rules clients send: in memory    *)
(* and in the store a project has at most MAX_RULES_PER_PROJECT rules, one *)
(* for each key, and none that allows a tool that may not be allowed for   *)
(* good (PermissionRuleStore.addRule and setRules, setRules).              *)
THEOREM Types == Spec => []TypeOK
<1>1. TypeOK <=> RulesOK /\ RequestTypeOK
  BY DEF TypeOK, RulesOK, RequestTypeOK
<1>2. Init => RulesOK
  BY EmptySeq, LimitsAssumption DEF Init, RulesOK, SessionRules, ProjectRules, LimitsAssumption
<1>3. RulesOK /\ RequestTypeOK /\ [Next]_vars => (RulesOK /\ RequestTypeOK)'
  BY RulesStep, RequestStep
<1> QED
  BY <1>1, <1>2, InitTypes, <1>3, PTL DEF Spec
-----------------------------------------------------------------------------
(* Who decides.                                                            *)

PendingShown == pendingPermissions \subseteq announced

(* What one step can do to one call: a decision is final, and a call that  *)
(* becomes allowed is a question, an unprotected tool or was shown; trust  *)
(* needs the user's answer.                                                *)
LEMMA DecisionStep ==
  ASSUME RequestTypeOK, PendingShown, [Next]_vars, NEW c \in Calls
  PROVE  /\ announced \subseteq announced' /\ answered \subseteq answered'
         /\ decision[c] # "none" => decision'[c] = decision[c]
         /\ decision[c] = "none" /\ decision'[c] = "allow" =>
              \/ c \in Questions
              \/ c \in ToolCalls /\ AllowSilently(c)
              \/ c \in announced /\ (c \in TrustCalls => c \in answered')
<1> DEFINE P == /\ announced \subseteq announced' /\ answered \subseteq answered'
                /\ decision[c] # "none" => decision'[c] = decision[c]
                /\ decision[c] = "none" /\ decision'[c] = "allow" =>
                     \/ c \in Questions
                     \/ c \in ToolCalls /\ AllowSilently(c)
                     \/ c \in announced /\ (c \in TrustCalls => c \in answered')
<1>0. /\ pendingPermissions \subseteq announced \cap (ToolCalls \cup TrustCalls)
      /\ Slot \subseteq Questions
  BY DEF PendingShown, RequestTypeOK, Slot
<1>1. ASSUME NEW x \in ToolCalls, AllowSilently(x) PROVE P
  <2>1. UNCHANGED <<announced, answered>> /\ \A y \in Calls : y # x => decision'[y] = decision[y]
    BY <1>1 DEF AllowSilently, Settle, RequestTypeOK
  <2>2. decision[x] = "none"
    BY <1>1 DEF AllowSilently, Fresh
  <2> QED
    BY <1>1, <2>1, <2>2
<1>2. ASSUME NEW x \in ToolCalls, DenySilently(x) \/ DenyAtCap(x) \/ PromptForTool(x)
      PROVE  P
  BY <1>2 DEF DenySilently, DenyAtCap, PromptForTool, Settle, Insert
<1>3. ASSUME NEW q \in Questions, AskUserQuestion(q) \/ QuestionTimeout(q) PROVE P
  BY <1>3 DEF AskUserQuestion, QuestionTimeout, Settle
<1>4. ASSUME NEW x \in TrustCalls, RequestMcpTrust(x) \/ TrustAddressResolved(x) PROVE P
  BY <1>4 DEF RequestMcpTrust, TrustAddressResolved, Insert
<1>5. ASSUME NEW x \in ToolCalls \cup TrustCalls, PermissionTimeout(x) PROVE P
  BY <1>5 DEF PermissionTimeout, Settle
<1>6. ASSUME NEW x \in ToolCalls \cup TrustCalls, NEW d \in {"allow", "allowAlways", "deny"},
             RespondToPermission(x, d)
      PROVE  P
  BY <1>0, <1>6 DEF RespondToPermission, Settle
<1>7. CASE RespondToQuestion
  BY <1>0, <1>7 DEF RespondToQuestion, Settle
<1>8. ASSUME NEW s \in Signals, Abort(s) PROVE P
  BY <1>8 DEF Abort, Settle
<1>9. CASE ClearAll \/ BeginTurn
  BY <1>9 DEF ClearAll, BeginTurn, Settle
<1>10. ASSUME NEW mode \in Modes, SetPermissionMode(mode) PROVE P
  BY <1>0, <1>10 DEF SetPermissionMode, OnPermissionModeChanged, AutoAllowPending, Settle
<1>11. ASSUME NEW rules \in RuleLists, SetPermissionRules(rules) \/ SetProjectRules(rules)
       PROVE  P
  BY <1>11 DEF SetPermissionRules, SetProjectRules
<1>12. CASE UNCHANGED vars
  BY <1>12 DEF vars
<1> QED
  BY <1>1, <1>2, <1>3, <1>4, <1>5, <1>6, <1>7, <1>8, <1>9, <1>10, <1>11, <1>12 DEF Next

(* Whatever is pending was announced when it was inserted. *)
LEMMA ShownInvariance == Spec => [](RulesOK /\ RequestTypeOK /\ PendingShown)
<1>1. TypeOK => RulesOK /\ RequestTypeOK
  BY DEF TypeOK, RulesOK, RequestTypeOK
<1>2. Init => PendingShown
  BY DEF Init, PendingShown
<1>3. PendingShown /\ [Next]_vars => PendingShown'
  <2> SUFFICES ASSUME PendingShown, [Next]_vars PROVE PendingShown'
    OBVIOUS
  <2> USE DEF PendingShown, mapVars
  <2>1. ASSUME NEW c \in ToolCalls,
               AllowSilently(c) \/ DenySilently(c) \/ DenyAtCap(c) \/ PromptForTool(c)
        PROVE  PendingShown'
    BY <2>1 DEF AllowSilently, DenySilently, DenyAtCap, PromptForTool, Insert
  <2>2. ASSUME NEW q \in Questions, AskUserQuestion(q) \/ QuestionTimeout(q)
        PROVE  PendingShown'
    BY <2>2 DEF AskUserQuestion, QuestionTimeout
  <2>3. ASSUME NEW c \in TrustCalls, RequestMcpTrust(c) \/ TrustAddressResolved(c)
        PROVE  PendingShown'
    BY <2>3 DEF RequestMcpTrust, TrustAddressResolved, Insert
  <2>4. ASSUME NEW c \in ToolCalls \cup TrustCalls,
               PermissionTimeout(c) \/ \E d \in {"allow", "allowAlways", "deny"} :
                                         RespondToPermission(c, d)
        PROVE  PendingShown'
    BY <2>4 DEF PermissionTimeout, RespondToPermission, Forget
  <2>5. CASE RespondToQuestion \/ ClearAll \/ BeginTurn \/ UNCHANGED vars
    BY <2>5 DEF RespondToQuestion, ClearAll, BeginTurn, vars
  <2>6. ASSUME NEW s \in Signals, Abort(s) PROVE PendingShown'
    BY <2>6 DEF Abort, Forget
  <2>7. ASSUME NEW mode \in Modes, SetPermissionMode(mode) PROVE PendingShown'
    BY <2>7 DEF SetPermissionMode, OnPermissionModeChanged, AutoAllowPending, Forget
  <2>8. ASSUME NEW rules \in RuleLists, SetPermissionRules(rules) \/ SetProjectRules(rules)
        PROVE  PendingShown'
    BY <2>8 DEF SetPermissionRules, SetProjectRules
  <2> QED
    BY <2>1, <2>2, <2>3, <2>4, <2>5, <2>6, <2>7, <2>8 DEF Next
<1> QED
  BY Types, <1>1, <1>2, <1>3, PTL DEF Spec

(* The protected-path floor: handlePermission never allows a protected or  *)
(* secret target unless its prompt was shown, in any mode, with any rules, *)
(* and however questions overlap.                                          *)
THEOREM FloorHolds == Spec => []FlooredNeverSilent
<1>1. Init => FlooredNeverSilent
  BY DEF Init, FlooredNeverSilent, Calls
<1>2. RequestTypeOK /\ PendingShown /\ FlooredNeverSilent /\ [Next]_vars => FlooredNeverSilent'
  <2> SUFFICES ASSUME RequestTypeOK, PendingShown, FlooredNeverSilent, [Next]_vars,
                      NEW c \in ToolCalls, IsFlooredTarget(c), decision'[c] = "allow"
               PROVE  c \in announced'
    BY DEF FlooredNeverSilent, IsFlooredTarget
  <2>1. c \in Calls /\ c \notin Questions /\ ~AllowSilently(c)
    BY DEF Calls, AllowSilently
  <2> QED
    BY <2>1, DecisionStep DEF FlooredNeverSilent
<1> QED
  BY ShownInvariance, <1>1, <1>2, PTL DEF Spec

(* recordTrust keeps an allowed MCP server for ever: only a user's answer  *)
(* allows one; autoAllowPending and the timers never do.                   *)
THEOREM TrustIsExplicit == Spec => []TrustOnlyByUser
<1>1. Init => TrustOnlyByUser
  BY DEF Init, TrustOnlyByUser, Calls
<1>2. RequestTypeOK /\ PendingShown /\ TrustOnlyByUser /\ [Next]_vars => TrustOnlyByUser'
  <2> SUFFICES ASSUME RequestTypeOK, PendingShown, TrustOnlyByUser, [Next]_vars,
                      NEW c \in TrustCalls, decision'[c] = "allow"
               PROVE  c \in answered'
    BY DEF TrustOnlyByUser
  <2>1. c \in Calls /\ c \notin ToolCalls /\ c \notin Questions
    BY DEF Calls
  <2> QED
    BY <2>1, DecisionStep DEF TrustOnlyByUser
<1> QED
  BY ShownInvariance, <1>1, <1>2, PTL DEF Spec

(* The first rule that matches a call is one of the session's or of the    *)
(* project's, so if it allows the call, the tool is eligible.              *)
LEMMA RulesAllowEligible ==
  ASSUME RulesOK, NEW c \in ToolCalls, MatchesRule(c) = "allow"
  PROVE  Tool[c] \in EligibleTools
<1> DEFINE rules == sessionRules \o persistentRules
           hits  == {i \in DOMAIN rules :
                       rules[i].tool = Tool[c] /\ RuleScopeMatches(rules[i], c)}
           first == CHOOSE i \in hits : \A j \in hits : i <= j
<1>1. sessionRules \in Seq(Rule) /\ persistentRules \in Seq(Rule)
  BY DEF RulesOK, SessionRules, ProjectRules
<1>2. ASSUME NEW i \in DOMAIN rules, rules[i].decision = "allow"
      PROVE  rules[i].tool \in EligibleTools
  <2>1. \/ i \in DOMAIN sessionRules /\ rules[i] = sessionRules[i]
        \/ \E j \in DOMAIN persistentRules : rules[i] = persistentRules[j]
    <3>1. /\ DOMAIN rules = 1 .. Len(sessionRules) + Len(persistentRules)
          /\ DOMAIN sessionRules = 1 .. Len(sessionRules) /\ Len(sessionRules) \in Nat
          /\ DOMAIN persistentRules = 1 .. Len(persistentRules) /\ Len(persistentRules) \in Nat
      BY <1>1, ConcatProperties, LenProperties
    <3>2. CASE i <= Len(sessionRules)
      BY <1>1, <3>1, <3>2, ConcatProperties
    <3>3. CASE ~(i <= Len(sessionRules))
      <4>1. i - Len(sessionRules) \in DOMAIN persistentRules
        BY <3>1, <3>3
      <4>2. rules[i] = persistentRules[i - Len(sessionRules)]
        BY <1>1, <3>1, <3>3, ConcatProperties
      <4> QED
        BY <4>1, <4>2
    <3> QED
      BY <3>2, <3>3
  <2> HIDE DEF rules
  <2> QED
    BY <1>2, <2>1 DEF RulesOK, SessionRules, ProjectRules
<1>3. hits # {} /\ rules[first].decision = "allow"
  BY DEF MatchesRule
<1>4. first \in hits
  <2>1. \E i \in hits : \A j \in hits : i <= j
    <3>1. hits \in SUBSET Nat
      BY <1>1, ConcatProperties, LenProperties
    <3> HIDE DEF hits
    <3> QED
      BY <1>3, <3>1, LeastElement
  <2> HIDE DEF hits
  <2> QED
    BY <2>1
<1> QED
  BY <1>2, <1>3, <1>4

(* ELIGIBLE_TOOLS and NEVER_AUTO_ALLOW: whatever rules are sent, stored or *)
(* re-read, a tool that may not be allowed for good is allowed without a   *)
(* prompt in auto mode only.                                               *)
THEOREM NeverAutoAllow == Spec => UnseenOnlyIfEligible
<1> DEFINE A == \A c \in ToolCalls :
                  /\ decision[c] = "none" /\ decision'[c] = "allow"
                  /\ c \notin announced /\ permissionMode # "auto"
                  => Tool[c] \in EligibleTools
<1>1. RulesOK /\ RequestTypeOK /\ PendingShown /\ [Next]_vars => A
  <2> SUFFICES ASSUME RulesOK, RequestTypeOK, PendingShown, [Next]_vars, NEW c \in ToolCalls,
                      decision[c] = "none", decision'[c] = "allow",
                      c \notin announced, permissionMode # "auto"
               PROVE  Tool[c] \in EligibleTools
    OBVIOUS
  <2>1. c \in Calls /\ c \notin Questions
    BY DEF Calls
  <2>2. AllowSilently(c)
    BY <2>1, DecisionStep
  <2>3. MatchesRule(c) = "allow" \/ Tool[c] \in AcceptEditsTools
    BY <2>2 DEF AllowSilently
  <2> QED
    BY <2>3, RulesAllowEligible DEF AcceptEditsTools, EligibleTools
<1> QED
  BY ShownInvariance, <1>1, PTL DEF Spec, UnseenOnlyIfEligible
-----------------------------------------------------------------------------
(* How one step changes the pending map: it shrinks, or one call is added, *)
(* and a tool call only below the cap.                                     *)
LEMMA PendingStep ==
  ASSUME [Next]_vars
  PROVE  \/ pendingPermissions' \subseteq pendingPermissions
         \/ \E c \in TrustCalls : pendingPermissions' = pendingPermissions \cup {c}
         \/ \E c \in ToolCalls : /\ pendingPermissions' = pendingPermissions \cup {c}
                                 /\ ~AtCap
<1> DEFINE P == \/ pendingPermissions' \subseteq pendingPermissions
                \/ \E c \in TrustCalls : pendingPermissions' = pendingPermissions \cup {c}
                \/ \E c \in ToolCalls : /\ pendingPermissions' = pendingPermissions \cup {c}
                                        /\ ~AtCap
<1> USE DEF mapVars, Insert, Forget
<1>1. ASSUME NEW c \in ToolCalls,
             AllowSilently(c) \/ DenySilently(c) \/ DenyAtCap(c) \/ PromptForTool(c)
      PROVE  P
  BY <1>1 DEF AllowSilently, DenySilently, DenyAtCap, PromptForTool
<1>2. ASSUME NEW q \in Questions, AskUserQuestion(q) \/ QuestionTimeout(q) PROVE P
  BY <1>2 DEF AskUserQuestion, QuestionTimeout
<1>3. ASSUME NEW c \in TrustCalls, RequestMcpTrust(c) \/ TrustAddressResolved(c) PROVE P
  BY <1>3 DEF RequestMcpTrust, TrustAddressResolved
<1>4. ASSUME NEW c \in ToolCalls \cup TrustCalls,
             PermissionTimeout(c) \/ \E d \in {"allow", "allowAlways", "deny"} :
                                       RespondToPermission(c, d)
      PROVE  P
  BY <1>4 DEF PermissionTimeout, RespondToPermission
<1>5. CASE RespondToQuestion \/ ClearAll \/ BeginTurn \/ UNCHANGED vars
  BY <1>5 DEF RespondToQuestion, ClearAll, BeginTurn, vars
<1>6. ASSUME NEW s \in Signals, Abort(s) PROVE P
  BY <1>6 DEF Abort
<1>7. ASSUME NEW mode \in Modes, SetPermissionMode(mode) PROVE P
  BY <1>7 DEF SetPermissionMode, OnPermissionModeChanged, AutoAllowPending
<1>8. ASSUME NEW rules \in RuleLists, SetPermissionRules(rules) \/ SetProjectRules(rules)
      PROVE  P
  BY <1>8 DEF SetPermissionRules, SetProjectRules
<1> QED
  BY <1>1, <1>2, <1>3, <1>4, <1>5, <1>6, <1>7, <1>8 DEF Next

LEMMA AddingOne ==
  ASSUME NEW S, NEW x, IsFiniteSet(S)
  PROVE  /\ IsFiniteSet(S \cup {x})
         /\ Cardinality(S) \in Nat /\ Cardinality(S \cup {x}) \in Nat
         /\ Cardinality(S \cup {x}) <= Cardinality(S) + 1
<1>1. Cardinality(S) \in Nat
  BY FS_CardinalityType
<1>2. IsFiniteSet(S \cup {x})
  BY FS_AddElement
<1>3. Cardinality(S \cup {x}) = IF x \in S THEN Cardinality(S) ELSE Cardinality(S) + 1
  BY FS_AddElement
<1> QED
  BY <1>1, <1>2, <1>3

(* _maxPendingPermissions bounds the tool calls waiting at any time,       *)
(* however many trust prompts, which ignore the cap, are added.            *)
THEOREM CapHolds == Spec => []PendingBounded
<1> DEFINE CapInv == IsFiniteSet(pendingPermissions) /\ PendingBounded
<1>1. Init => CapInv
  BY FS_EmptySet, LimitsAssumption DEF Init, PendingBounded, LimitsAssumption
<1>2. CapInv /\ [Next]_vars => CapInv'
  <2> SUFFICES ASSUME CapInv, [Next]_vars PROVE CapInv'
    OBVIOUS
  <2> DEFINE tools == pendingPermissions \cap ToolCalls
  <2>0. IsFiniteSet(tools) /\ Cardinality(tools) \in Nat
        /\ Cardinality(tools) <= Cardinality(pendingPermissions)
        /\ Cardinality(pendingPermissions) \in Nat /\ MaxPendingPermissions \in Nat
    BY FS_Subset, FS_CardinalityType, LimitsAssumption DEF LimitsAssumption
  <2>1. CASE pendingPermissions' \subseteq pendingPermissions
    <3>1. IsFiniteSet(pendingPermissions') /\ Cardinality(tools') <= Cardinality(tools)
          /\ Cardinality(tools') \in Nat
      BY <2>0, <2>1, FS_Subset, FS_CardinalityType
    <3> QED
      BY <3>1, <2>0 DEF PendingBounded
  <2>2. ASSUME NEW c \in TrustCalls, pendingPermissions' = pendingPermissions \cup {c}
        PROVE  CapInv'
    <3>1. tools' = tools
      BY <2>2
    <3>2. IsFiniteSet(pendingPermissions')
      BY <2>2, FS_AddElement
    <3> QED
      BY <3>1, <3>2 DEF PendingBounded
  <2>3. ASSUME NEW c \in ToolCalls, pendingPermissions' = pendingPermissions \cup {c}, ~AtCap
        PROVE  CapInv'
    <3>1. tools' = tools \cup {c}
      BY <2>3
    <3>2. IsFiniteSet(pendingPermissions')
      BY <2>3, AddingOne
    <3>3. Cardinality(tools) < MaxPendingPermissions
      BY <2>0, <2>3 DEF AtCap
    <3>4. Cardinality(tools') \in Nat /\ Cardinality(tools') <= Cardinality(tools) + 1
      BY <2>0, <3>1, AddingOne
    <3>5. Cardinality(tools') <= MaxPendingPermissions
      BY <2>0, <3>3, <3>4
    <3> QED
      BY <3>2, <3>5 DEF PendingBounded
  <2> QED
    BY <2>1, <2>2, <2>3, PendingStep
<1> QED
  BY <1>1, <1>2, PTL DEF Spec
-----------------------------------------------------------------------------
(* Auto mode is a panic button: once it is on, handlePermission prompts    *)
(* only for protected targets, and autoAllowPending has ended the rest.    *)
THEOREM AutoModeIsQuiet == Spec => []AutoModeLeavesNoPrompt
<1> DEFINE Quiet == AutoModeLeavesNoPrompt
<1> USE DEF AutoModeLeavesNoPrompt
<1>1. Init => Quiet
  BY DEF Init
<1>2. Quiet /\ [Next]_vars => Quiet'
  <2> SUFFICES ASSUME Quiet, [Next]_vars PROVE Quiet'
    OBVIOUS
  <2>0. \A c : IsFlooredTarget(c)' = IsFlooredTarget(c)
    BY DEF IsFlooredTarget
  <2> USE <2>0 DEF policyVars, mapVars, Insert, Forget
  <2>1. ASSUME NEW c \in ToolCalls,
               AllowSilently(c) \/ DenySilently(c) \/ DenyAtCap(c) \/ PromptForTool(c)
        PROVE  Quiet'
    BY <2>1 DEF AllowSilently, DenySilently, DenyAtCap, PromptForTool, NeedsPrompt
  <2>2. ASSUME NEW q \in Questions, AskUserQuestion(q) \/ QuestionTimeout(q) PROVE Quiet'
    BY <2>2 DEF AskUserQuestion, QuestionTimeout
  <2>3. ASSUME NEW c \in TrustCalls, RequestMcpTrust(c) \/ TrustAddressResolved(c) PROVE Quiet'
    BY <2>3 DEF RequestMcpTrust, TrustAddressResolved
  <2>4. ASSUME NEW c \in ToolCalls \cup TrustCalls, PermissionTimeout(c) PROVE Quiet'
    BY <2>4 DEF PermissionTimeout
  <2>5. ASSUME NEW c \in ToolCalls \cup TrustCalls, NEW d \in {"allow", "allowAlways", "deny"},
               RespondToPermission(c, d)
        PROVE  Quiet'
    BY <2>5 DEF RespondToPermission, PersistAlways
  <2>6. CASE RespondToQuestion \/ ClearAll \/ BeginTurn \/ UNCHANGED vars
    BY <2>6 DEF RespondToQuestion, ClearAll, BeginTurn, vars
  <2>7. ASSUME NEW s \in Signals, Abort(s) PROVE Quiet'
    BY <2>7 DEF Abort
  <2>8. ASSUME NEW mode \in Modes, SetPermissionMode(mode) PROVE Quiet'
    BY <2>8 DEF SetPermissionMode, OnPermissionModeChanged, AutoAllowPending
  <2>9. ASSUME NEW rules \in RuleLists, SetPermissionRules(rules) \/ SetProjectRules(rules)
        PROVE  Quiet'
    BY <2>9 DEF SetPermissionRules, SetProjectRules
  <2> QED
    BY <2>1, <2>2, <2>3, <2>4, <2>5, <2>6, <2>7, <2>8, <2>9 DEF Next
<1> QED
  BY <1>1, <1>2, PTL DEF Spec
-----------------------------------------------------------------------------
(* One question at a time.                                                 *)

OneQuestionAtATime ==
  /\ ~QuestionsOverlap
  /\ \A q \in Questions : \A c \in ToolCalls \cup Questions :
       SignalOf[c] = SignalOf[q] => c = q

(* A call in its host lookup has neither been decided nor shown. *)
ResolvingIdle == \A c \in resolving : decision[c] = "none" /\ c \notin announced

(* Each question added one abort listener, when it was shown. *)
ListenersOK ==
  /\ \A i \in DOMAIN asked : asked[i] \in announced
  /\ \A i, j \in DOMAIN asked : asked[i] = asked[j] => i = j
  /\ pendingUserAnswer # NoCall => \E i \in DOMAIN asked : asked[i] = pendingUserAnswer

Inv == /\ RequestTypeOK
       /\ ResolvingIdle
       /\ ListenersOK
       /\ MapsInStep

(* Initially every map, the slot and the listeners are empty. *)
LEMMA InitInv == Init => Inv
<1> SUFFICES ASSUME Init PROVE Inv
  OBVIOUS
<1> USE DEF Init
<1>1. RequestTypeOK
  BY InitTypes
<1>2. ResolvingIdle
  BY DEF ResolvingIdle
<1>3. ListenersOK
  BY DEF ListenersOK
<1>4. MapsInStep
  BY DEF MapsInStep, Open, Waiting, Slot
<1> QED
  BY <1>1, <1>2, <1>3, <1>4 DEF Inv

(* The listener that empties the slot is that of the question holding it:  *)
(* Abort settles the slot's question if the signal is its own, else none.  *)
LEMMA AbortHitsItsQuestion ==
  ASSUME OneQuestionAtATime, Inv, NEW s \in Signals, 
         \E c \in Open \ TrustCalls : SignalOf[c] = s
  PROVE  LET question == IF pendingUserAnswer = NoCall THEN {} ELSE {FirstListener(s)} \ {NoCall}
         IN  question = {} \/ question = Slot
<1>1. PICK c \in Open \ TrustCalls : SignalOf[c] = s
  OBVIOUS
<1>2. CASE pendingUserAnswer = NoCall
  BY <1>2
<1>3. CASE pendingUserAnswer # NoCall
  <2> DEFINE on == {i \in DOMAIN asked : SignalOf[asked[i]] = s}
  <2>1. pendingUserAnswer \in Questions /\ \A i \in DOMAIN asked : asked[i] \in Questions
    BY <1>3, ElementOfSeq DEF Inv, RequestTypeOK
  <2>2. CASE c = pendingUserAnswer
    <3>1. \A i \in on : asked[i] = pendingUserAnswer
      BY <1>1, <2>1, <2>2 DEF OneQuestionAtATime
    <3>2. PICK k \in DOMAIN asked : asked[k] = pendingUserAnswer
      BY <1>3 DEF Inv, ListenersOK
    <3>3. on = {k}
      BY <1>1, <2>2, <3>1, <3>2 DEF Inv, ListenersOK
    <3>4. FirstListener(s) = pendingUserAnswer
      BY <3>1, <3>2, <3>3, LenProperties DEF FirstListener, Inv, RequestTypeOK
    <3> QED
      BY <1>3, <3>4 DEF Slot
  <2>3. CASE c # pendingUserAnswer
    <3>1. c \in ToolCalls
      BY <1>1, <2>3 DEF Inv, MapsInStep, RequestTypeOK, Slot
    <3>2. on = {}
      BY <1>1, <2>1, <3>1 DEF OneQuestionAtATime
    <3> QED
      BY <3>2 DEF FirstListener
  <2> QED
    BY <2>2, <2>3
<1> QED
  BY <1>2, <1>3

(* Every action preserves the invariant. *)
LEMMA NextInv ==
  ASSUME OneQuestionAtATime, Inv, [Next]_vars
  PROVE  Inv'
<1> USE DEF Calls, Decisions, policyVars, mapVars, questionVars, Inv, RequestTypeOK, ResolvingIdle, ListenersOK, MapsInStep, Open, Waiting, Slot
<1> DEFINE Steady == ResolvingIdle /\ ListenersOK /\ MapsInStep
<1>0. RequestTypeOK'
  BY RequestStep
<1>1. ASSUME NEW c \in ToolCalls, AllowSilently(c) PROVE Steady'
  BY <1>1 DEF AllowSilently, Fresh, Settle
<1>2. ASSUME NEW c \in ToolCalls, DenySilently(c) PROVE Steady'
  BY <1>2 DEF DenySilently, Fresh, Settle
<1>3. ASSUME NEW c \in ToolCalls, DenyAtCap(c) PROVE Steady'
  BY <1>3 DEF DenyAtCap, NeedsPrompt, Fresh, Settle
<1>4. ASSUME NEW c \in ToolCalls, PromptForTool(c) PROVE Steady'
  BY <1>4 DEF PromptForTool, NeedsPrompt, Fresh, Insert
<1>5. ASSUME NEW q \in Questions, AskUserQuestion(q) PROVE Steady'
  <2>2. ResolvingIdle'
    BY <1>5, AppendProperties, LenProperties DEF AskUserQuestion, Fresh, OneQuestionAtATime
  <2>3. ListenersOK'
    BY <1>5, AppendProperties, LenProperties DEF AskUserQuestion, Fresh, OneQuestionAtATime
  <2>4. MapsInStep'
    <3>1. permissionTimers' = pendingPermissions' /\ lastPermissionData' = pendingPermissions'
      BY <1>5, AppendProperties, LenProperties DEF AskUserQuestion, Fresh, OneQuestionAtATime
    <3>2. Open' = pendingPermissions' \cup Slot'
      BY <1>5, AppendProperties, LenProperties DEF AskUserQuestion, Fresh, OneQuestionAtATime
    <3>3. questionTimer' = pendingUserAnswer' /\ liveQuestionTimers' = Slot'
      BY <1>5, AppendProperties, LenProperties DEF AskUserQuestion, Fresh, OneQuestionAtATime
    <3>4. waitingForAnswer' <=> pendingUserAnswer' # NoCall
      BY <1>5, AppendProperties, LenProperties DEF AskUserQuestion, Fresh, OneQuestionAtATime
    <3>5. waitingForAnswer' \in BOOLEAN
      BY <1>5, AppendProperties, LenProperties DEF AskUserQuestion, Fresh, OneQuestionAtATime
    <3> QED
      BY <3>1, <3>2, <3>3, <3>4, <3>5
  <2> QED
    BY <2>2, <2>3, <2>4
<1>6. ASSUME NEW q \in Questions, QuestionTimeout(q) PROVE Steady'
  BY <1>6 DEF QuestionTimeout, EmitResolved, Settle
<1>7. ASSUME NEW c \in TrustCalls, RequestMcpTrust(c) PROVE Steady'
  <2>2. ResolvingIdle'
    BY <1>7 DEF RequestMcpTrust, Fresh, Insert
  <2>3. ListenersOK'
    BY <1>7 DEF RequestMcpTrust, Fresh, Insert
  <2>4. MapsInStep'
    <3>1. permissionTimers' = pendingPermissions' /\ lastPermissionData' = pendingPermissions'
      BY <1>7 DEF RequestMcpTrust, Fresh, Insert
    <3>2. Open' = pendingPermissions' \cup Slot'
      BY <1>7 DEF RequestMcpTrust, Fresh, Insert
    <3>3. questionTimer' = pendingUserAnswer' /\ liveQuestionTimers' = Slot'
      BY <1>7 DEF RequestMcpTrust, Fresh, Insert
    <3>4. waitingForAnswer' <=> pendingUserAnswer' # NoCall
      BY <1>7 DEF RequestMcpTrust, Fresh, Insert
    <3>5. waitingForAnswer' \in BOOLEAN
      BY <1>7 DEF RequestMcpTrust, Fresh, Insert
    <3> QED
      BY <3>1, <3>2, <3>3, <3>4, <3>5
  <2> QED
    BY <2>2, <2>3, <2>4
<1>8. ASSUME NEW c \in TrustCalls, TrustAddressResolved(c) PROVE Steady'
  BY <1>8 DEF TrustAddressResolved, Insert
<1>9. ASSUME NEW c \in ToolCalls \cup TrustCalls, PermissionTimeout(c) PROVE Steady'
  BY <1>9 DEF PermissionTimeout, EmitResolved, Settle
<1>10. ASSUME NEW c \in ToolCalls \cup TrustCalls, NEW d \in {"allow", "allowAlways", "deny"},
              RespondToPermission(c, d)
       PROVE  Steady'
  BY <1>10 DEF RespondToPermission, Forget, EmitResolved, Settle
<1>11. ASSUME RespondToQuestion PROVE Steady'
  <2>2. ResolvingIdle'
    BY <1>11 DEF RespondToQuestion, ClearQuestion, EmitResolved, Settle
  <2>3. ListenersOK'
    BY <1>11 DEF RespondToQuestion, ClearQuestion, EmitResolved, Settle
  <2>4. MapsInStep'
    <3>1. permissionTimers' = pendingPermissions' /\ lastPermissionData' = pendingPermissions'
      BY <1>11 DEF RespondToQuestion, ClearQuestion, EmitResolved, Settle
    <3>2. Open' = pendingPermissions' \cup Slot'
      BY <1>11 DEF RespondToQuestion, ClearQuestion, EmitResolved, Settle
    <3>3. questionTimer' = pendingUserAnswer' /\ liveQuestionTimers' = Slot'
      BY <1>11 DEF RespondToQuestion, ClearQuestion, EmitResolved, Settle
    <3>4. waitingForAnswer' <=> pendingUserAnswer' # NoCall
      BY <1>11 DEF RespondToQuestion, ClearQuestion, EmitResolved, Settle
    <3>5. waitingForAnswer' \in BOOLEAN
      BY <1>11 DEF RespondToQuestion, ClearQuestion, EmitResolved, Settle
    <3> QED
      BY <3>1, <3>2, <3>3, <3>4, <3>5
  <2> QED
    BY <2>2, <2>3, <2>4
<1>12. ASSUME NEW s \in Signals, Abort(s) PROVE Steady'
  <2>2. ResolvingIdle'
    BY <1>12, AbortHitsItsQuestion DEF Abort, Forget, ClearQuestion, EmitResolved, Settle
  <2>3. ListenersOK'
    BY <1>12, AbortHitsItsQuestion DEF Abort, Forget, ClearQuestion, EmitResolved, Settle
  <2>4. MapsInStep'
    <3>1. permissionTimers' = pendingPermissions' /\ lastPermissionData' = pendingPermissions'
      BY <1>12, AbortHitsItsQuestion DEF Abort, Forget, ClearQuestion, EmitResolved, Settle
    <3> DEFINE tools == {c \in pendingPermissions \cap ToolCalls : SignalOf[c] = s}
               question == IF pendingUserAnswer = NoCall THEN {}
                           ELSE {FirstListener(s)} \ {NoCall}
    <3>a. question = {} \/ question = Slot
      BY <1>12, AbortHitsItsQuestion DEF Abort
    <3>b. pendingPermissions' = pendingPermissions \ tools /\ Slot' = Slot \ question
      <4>1. pendingPermissions' = pendingPermissions \ tools
        BY <1>12 DEF Abort, Forget
      <4>2. IF question = {} THEN UNCHANGED questionVars ELSE ClearQuestion
        BY <1>12 DEF Abort
      <4>3. question = {} => pendingUserAnswer' = pendingUserAnswer
        BY <4>2 DEF questionVars
      <4>4. question # {} => pendingUserAnswer' = NoCall
        BY <4>2 DEF ClearQuestion
      <4> HIDE DEF tools, question
      <4> QED
        BY <3>a, <4>1, <4>3, <4>4
    <3>c. decision' = [c \in Calls |-> IF decision[c] # "none" THEN decision[c]
                                      ELSE IF c \in tools \cup question THEN "deny" ELSE "none"]
      BY <1>12 DEF Abort, Settle
    <3>d. Open' = Open \ (tools \cup question)
      BY <1>12, <3>c DEF Abort
    <3>e. Open = pendingPermissions \cup Slot
      OBVIOUS
    <3>f. Slot \subseteq Questions /\ pendingPermissions \cap Questions = {}
      OBVIOUS
    <3>g. tools \subseteq pendingPermissions /\ question \subseteq Slot
      BY <3>a
    <3> HIDE DEF tools, question, Open, Slot
    <3>2. Open' = pendingPermissions' \cup Slot'
      BY <3>b, <3>d, <3>e, <3>f, <3>g
    <3> USE DEF Open, Slot
    <3>3. questionTimer' = pendingUserAnswer' /\ liveQuestionTimers' = Slot'
      BY <1>12, AbortHitsItsQuestion DEF Abort, Forget, ClearQuestion, EmitResolved, Settle
    <3>4. waitingForAnswer' <=> pendingUserAnswer' # NoCall
      BY <1>12, AbortHitsItsQuestion DEF Abort, Forget, ClearQuestion, EmitResolved, Settle
    <3>5. waitingForAnswer' \in BOOLEAN
      BY <1>12, AbortHitsItsQuestion DEF Abort, Forget, ClearQuestion, EmitResolved, Settle
    <3> QED
      BY <3>1, <3>2, <3>3, <3>4, <3>5
  <2> QED
    BY <2>2, <2>3, <2>4
<1>13. ASSUME ClearAll PROVE Steady'
  <2>2. ResolvingIdle'
    BY <1>13 DEF ClearAll, ClearQuestion, EmitResolved, Settle
  <2>3. ListenersOK'
    BY <1>13 DEF ClearAll, ClearQuestion, EmitResolved, Settle
  <2>4. MapsInStep'
    BY <1>13 DEF ClearAll, ClearQuestion, EmitResolved, Settle
  <2> QED
    BY <2>2, <2>3, <2>4
<1>14. ASSUME BeginTurn PROVE Steady'
  BY <1>14 DEF BeginTurn
<1>15. ASSUME NEW mode \in Modes, SetPermissionMode(mode) PROVE Steady'
  <2>2. ResolvingIdle'
    BY <1>15 DEF SetPermissionMode, OnPermissionModeChanged, AutoAllowPending, Forget, EmitResolved, Settle
  <2>3. ListenersOK'
    BY <1>15 DEF SetPermissionMode, OnPermissionModeChanged, AutoAllowPending, Forget, EmitResolved, Settle
  <2>4. MapsInStep'
    <3>1. permissionTimers' = pendingPermissions' /\ lastPermissionData' = pendingPermissions'
      BY <1>15 DEF SetPermissionMode, OnPermissionModeChanged, AutoAllowPending, Forget, EmitResolved, Settle
    <3>2. Open' = pendingPermissions' \cup Slot'
      <4>1. CASE mode = "auto"
        <5>1. decision' = [c \in Calls |-> IF decision[c] # "none" THEN decision[c]
                             ELSE IF c \in pendingPermissions \ TrustCalls THEN "allow"
                             ELSE IF c \in pendingPermissions \cap TrustCalls THEN "deny"
                             ELSE "none"]
          BY <1>15, <4>1 DEF SetPermissionMode, OnPermissionModeChanged, AutoAllowPending, Settle
        <5>2. announced' = announced /\ Slot' = Slot /\ pendingPermissions' = {}
          BY <1>15, <4>1 DEF SetPermissionMode, OnPermissionModeChanged, AutoAllowPending, Forget
        <5>3. Open' = Open \ pendingPermissions
          BY <5>1, <5>2
        <5>4. Open = pendingPermissions \cup Slot /\ pendingPermissions \cap Slot = {}
          OBVIOUS
        <5> HIDE DEF Open, Slot
        <5> QED
          BY <5>2, <5>3, <5>4
      <4>2. CASE mode # "auto"
        BY <1>15, <4>2 DEF SetPermissionMode, OnPermissionModeChanged
      <4> QED
        BY <4>1, <4>2
    <3>3. questionTimer' = pendingUserAnswer' /\ liveQuestionTimers' = Slot'
      BY <1>15 DEF SetPermissionMode, OnPermissionModeChanged, AutoAllowPending, Forget, EmitResolved, Settle
    <3>4. waitingForAnswer' <=> pendingUserAnswer' # NoCall
      BY <1>15 DEF SetPermissionMode, OnPermissionModeChanged, AutoAllowPending, Forget, EmitResolved, Settle
    <3>5. waitingForAnswer' \in BOOLEAN
      BY <1>15 DEF SetPermissionMode, OnPermissionModeChanged, AutoAllowPending, Forget, EmitResolved, Settle
    <3> QED
      BY <3>1, <3>2, <3>3, <3>4, <3>5
  <2> QED
    BY <2>2, <2>3, <2>4
<1>16. ASSUME NEW rules \in RuleLists, SetPermissionRules(rules) \/ SetProjectRules(rules)
       PROVE  Steady'
  BY <1>16 DEF SetPermissionRules, SetProjectRules
<1>17. ASSUME UNCHANGED vars PROVE Steady'
  BY <1>17 DEF vars
<1>18. Steady'
  <2> HIDE DEF Steady
  <2> QED
    BY <1>1, <1>2, <1>3, <1>4, <1>5, <1>6, <1>7, <1>8, <1>9, <1>10, <1>11, <1>12, <1>13,
       <1>14, <1>15, <1>16, <1>17 DEF Next
<1> QED
  BY <1>0, <1>18

(* Under the assumption on questions, Inv holds throughout. *)
LEMMA Invariance == ASSUME OneQuestionAtATime PROVE Spec => []Inv
<1>1. Inv /\ [Next]_vars => Inv'
  BY NextInv
<1> QED
  BY InitInv, <1>1, PTL DEF Spec

(* The maps, the timers, the question slot and its timer name exactly the  *)
(* calls that were shown and wait: no prompt loses its timer or its answer *)
(* path (_pendingPermissions, _permissionTimers, _lastPermissionData,      *)
(* _pendingUserAnswer, _questionTimer).                                    *)
THEOREM MapsStayInStep == ASSUME OneQuestionAtATime PROVE Spec => []MapsInStep
<1>1. Inv => MapsInStep
  BY DEF Inv
<1> QED
  BY Invariance, <1>1, PTL
-----------------------------------------------------------------------------
(* Implementation of PermissionGate.                                       *)

GateOf(c) == IF decision[c] # "none" THEN decision[c]
             ELSE IF c \in announced THEN "open" ELSE "idle"

(* A step that settles some waiting calls, gives each a decision and sends *)
(* one notice for each, and shows nothing new, is a Close of the gate.     *)
LEMMA CloseStep ==
  ASSUME Inv, NEW S \in SUBSET Open, NEW d \in [S -> Decisions],
         decision' = [c \in Calls |-> IF c \in S THEN d[c] ELSE decision[c]],
         EmitResolved(S), UNCHANGED announced
  PROVE  Gate!Next
<1>1. S \in SUBSET Gate!Open
  BY DEF Gate!Open, Open, Waiting
<1>2. d \in [S -> Gate!Decisions]
  BY DEF Gate!Decisions, Decisions
<1>3. [c \in Calls |-> GateOf(c)]' = [c \in Calls |-> IF c \in S THEN d[c]
                                                   ELSE [x \in Calls |-> GateOf(x)][c]]
  BY DEF GateOf, Open, Waiting, Decisions
<1>4. told' = [c \in Calls |-> IF c \in S THEN told[c] + 1 ELSE told[c]]
  BY DEF EmitResolved
<1> QED
  BY <1>1, <1>2, <1>3, <1>4 DEF Gate!Next, Gate!Close, GateOf

LEMMA DecideStep ==
  ASSUME Inv, NEW c \in Calls, NEW d \in Decisions, Fresh(c),
         decision' = [decision EXCEPT ![c] = d], UNCHANGED <<announced, told>>
  PROVE  Gate!Next
<1>1. [x \in Calls |-> GateOf(x)]' = [[x \in Calls |-> GateOf(x)] EXCEPT ![c] = d]
  BY DEF GateOf, Fresh, Inv, RequestTypeOK, Decisions
<1>2. GateOf(c) = "idle"
  BY DEF GateOf, Fresh
<1> QED
  BY <1>1, <1>2 DEF Gate!Next, Gate!Decide, Gate!Decisions, Decisions, GateOf

LEMMA PromptStep ==
  ASSUME Inv, NEW c \in Calls, decision[c] = "none", c \notin announced,
         announced' = announced \cup {c}, UNCHANGED <<decision, told>>
  PROVE  Gate!Next
<1>1. [x \in Calls |-> GateOf(x)]' = [[x \in Calls |-> GateOf(x)] EXCEPT ![c] = "open"]
  BY DEF GateOf
<1>2. GateOf(c) = "idle"
  BY DEF GateOf
<1> QED
  BY <1>1, <1>2 DEF Gate!Next, Gate!Prompt, GateOf

(* Every handler is one step of the gate or changes nothing it sees: the   *)
(* agent gets one final decision per call, and a client one                *)
(* permission_resolved per prompt it was shown.                            *)
THEOREM ImplementsGate == ASSUME OneQuestionAtATime PROVE Spec => GateSpec
<1>1. Init => Gate!Init
  BY DEF Init, Gate!Init, Calls
<1>2. Inv /\ [Next]_vars => [Gate!Next]_(Gate!vars)
  <2> SUFFICES ASSUME Inv, [Next]_vars PROVE Gate!Next \/ UNCHANGED <<decision, announced, told>>
    BY DEF Gate!vars
  <2> DEFINE G == Gate!Next \/ UNCHANGED <<decision, announced, told>>
  <2>0. /\ pendingPermissions \subseteq Open /\ Slot \subseteq Open
        /\ decision \in [Calls -> Decisions \cup {"none"}]
        /\ Open \subseteq Calls
        /\ \A c \in Open : decision[c] = "none"
    BY DEF Inv, MapsInStep, RequestTypeOK, Open, Waiting
  <2>1. ASSUME NEW S \in SUBSET Open, NEW A \in SUBSET S, Settle(A, S \ A), EmitResolved(S),
               UNCHANGED announced
        PROVE  G
    <3> DEFINE d == [c \in S |-> IF c \in A THEN "allow" ELSE "deny"]
    <3>1. d \in [S -> Decisions]
      BY DEF Decisions
    <3>2. decision' = [c \in Calls |-> IF c \in S THEN d[c] ELSE decision[c]]
      BY <2>0, <2>1 DEF Settle, Decisions
    <3> HIDE DEF d
    <3> QED
      BY <2>1, <3>1, <3>2, CloseStep
  <2>2. ASSUME NEW c \in ToolCalls, AllowSilently(c) \/ DenySilently(c) \/ DenyAtCap(c)
        PROVE  G
    <3>1. PICK d \in Decisions : decision' = [decision EXCEPT ![c] = d]
      BY <2>0, <2>2 DEF AllowSilently, DenySilently, DenyAtCap, NeedsPrompt, Fresh, Settle,
                        Decisions, Calls
    <3> QED
      BY <2>2, <3>1, DecideStep DEF AllowSilently, DenySilently, DenyAtCap, NeedsPrompt, Calls
  <2>3. ASSUME NEW c \in ToolCalls, PromptForTool(c) PROVE G
    BY <2>3, PromptStep DEF PromptForTool, NeedsPrompt, Fresh, Insert, Calls
  <2>4. ASSUME NEW q \in Questions, AskUserQuestion(q) PROVE G
    BY <2>4, PromptStep DEF AskUserQuestion, Fresh, Calls
  <2>5. ASSUME NEW c \in TrustCalls, RequestMcpTrust(c) \/ TrustAddressResolved(c) PROVE G
    BY <2>5, PromptStep DEF RequestMcpTrust, TrustAddressResolved, Fresh, Insert, Calls, Inv,
                            ResolvingIdle
  <2>6. ASSUME NEW q \in Questions, QuestionTimeout(q) PROVE G
    <3>1. pendingUserAnswer = q /\ pendingUserAnswer # NoCall /\ Slot = {q}
      BY <2>6 DEF QuestionTimeout, Inv, MapsInStep, Slot
    <3> QED
      BY <2>0, <2>1, <2>6, <3>1 DEF QuestionTimeout
  <2>7. ASSUME NEW c \in ToolCalls \cup TrustCalls, PermissionTimeout(c) PROVE G
    BY <2>0, <2>1, <2>7 DEF PermissionTimeout
  <2>8. ASSUME NEW c \in ToolCalls \cup TrustCalls, NEW d \in {"allow", "allowAlways", "deny"},
               RespondToPermission(c, d)
        PROVE  G
    <3>1. {c} \in SUBSET Open
      BY <2>0, <2>8 DEF RespondToPermission
    <3>2. EmitResolved({c}) /\ UNCHANGED announced /\ (Settle({}, {c}) \/ Settle({c}, {}))
      BY <2>8 DEF RespondToPermission
    <3> QED
      BY <2>1, <3>1, <3>2
  <2>9. CASE RespondToQuestion
    BY <2>0, <2>1, <2>9 DEF RespondToQuestion
  <2>10. ASSUME NEW s \in Signals, Abort(s) PROVE G
    <3> DEFINE tools == {c \in pendingPermissions \cap ToolCalls : SignalOf[c] = s}
               question == IF pendingUserAnswer = NoCall THEN {}
                           ELSE {FirstListener(s)} \ {NoCall}
    <3>1. question \subseteq Slot
      BY <2>10, AbortHitsItsQuestion DEF Abort
    <3>2. EmitResolved(tools \cup question) /\ UNCHANGED announced
          /\ Settle({}, tools \cup question)
      BY <2>10 DEF Abort
    <3> QED
      BY <2>0, <2>1, <3>1, <3>2
  <2>11. CASE ClearAll
    BY <2>0, <2>1, <2>11 DEF ClearAll
  <2>12. CASE BeginTurn
    BY <2>12 DEF BeginTurn
  <2>13. ASSUME NEW mode \in Modes, SetPermissionMode(mode) PROVE G
    BY <2>0, <2>1, <2>13 DEF SetPermissionMode, OnPermissionModeChanged, AutoAllowPending
  <2>14. ASSUME NEW rules \in RuleLists, SetPermissionRules(rules) \/ SetProjectRules(rules)
         PROVE  G
    BY <2>14 DEF SetPermissionRules, SetProjectRules
  <2>15. CASE UNCHANGED vars
    BY <2>15 DEF vars
  <2> QED
    BY <2>2, <2>3, <2>4, <2>5, <2>6, <2>7, <2>8, <2>9, <2>10, <2>11, <2>12, <2>13, <2>14,
       <2>15 DEF Next
<1> QED
  BY Invariance, <1>1, <1>2, PTL DEF Spec, GateSpec, Gate!Spec
=============================================================================
