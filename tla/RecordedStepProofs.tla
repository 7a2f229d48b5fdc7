-------------------------- MODULE RecordedStepProofs --------------------------
(***************************************************************************)
(* What a recorded step carries, for every page, every set of controls and *)
(* every policy file: its risk class, whose confirmation the recording     *)
(* keeps whatever policy is in force later, and its target, which resolves *)
(* to the control that it was verified for.                                *)
(*                                                                         *)
(* The policy comes first; its variables and the resolver's are disjoint.  *)
(* For the resolver, Scanned relates the loops of a pass to the definition *)
(* without loops: what a pass over a page that holds still has tried so    *)
(* far is what could not have decided it.                                  *)
(***************************************************************************)
EXTENDS PolicyEngine, LocatorResolver, FiniteSetTheorems, WellFoundedInduction, TLAPS

-----------------------------------------------------------------------------
(* Numbers: what the algorithm's order of things rests on.                 *)

\* The order of the naturals.
Before == {p \in Nat \X Nat : p[1] < p[2]}

\* Every set of numbers that is not empty has a least one, and Min finds it.
LEMMA MinIsLeast ==
    ASSUME NEW S \in SUBSET Nat, S # {}
    PROVE  Min(S) \in S /\ \A m \in S : Min(S) <= m
<1>1. IsWellFoundedOn(Before, Nat)
  BY NatLessThanWellFounded DEF OpToRel, Before
<1>2. PICK n \in S : \A m \in S : ~(<<m, n>> \in Before)
  BY <1>1, WFMin
<1>3. \A m \in S : n <= m
  <2> SUFFICES ASSUME NEW m \in S PROVE n <= m
    OBVIOUS
  <2>1. m \in Nat /\ n \in Nat
    OBVIOUS
  <2>2. m < n => <<m, n>> \in Before
    BY <2>1 DEF Before
  <2> QED
    BY <1>2, <2>1, <2>2
<1> QED
  BY <1>3 DEF Min

LEMMA MinIs ==
    ASSUME NEW S \in SUBSET Nat, NEW n \in S, \A m \in S : n <= m
    PROVE  Min(S) = n
<1>1. Min(S) \in S /\ \A m \in S : Min(S) <= m
  BY MinIsLeast
<1>2. Min(S) <= n /\ n <= Min(S)
  BY <1>1
<1>3. Min(S) \in Nat /\ n \in Nat
  BY <1>1
<1> QED
  BY <1>2, <1>3

\* Induction over the naturals, for a set instead of a predicate.
LEMMA NatSetInduction ==
    ASSUME NEW T, 0 \in T, \A n \in Nat : n \in T => n + 1 \in T
    PROVE  \A n \in Nat : n \in T
<1> SUFFICES ASSUME NEW k \in Nat, k \notin T PROVE FALSE
  OBVIOUS
<1> DEFINE Missing == {n \in Nat : n \notin T}
<1>1. PICK n \in Missing : \A m \in Missing : n <= m
  <2>1. Missing \in SUBSET Nat /\ Missing # {}
    OBVIOUS
  <2> HIDE DEF Missing
  <2> QED
    BY <2>1, MinIsLeast
<1>2. n # 0 /\ n \in Nat
  OBVIOUS
<1>3. n - 1 \in Nat /\ n - 1 \notin Missing
  BY <1>1, <1>2
<1>4. n - 1 + 1 \in T
  BY <1>3
<1> QED
  BY <1>1, <1>2, <1>4

-----------------------------------------------------------------------------
(* The classification.                                                     *)

LEMMA RiskOrderIs ==
    /\ RISK_ORDER[SAFE] = 0 /\ RISK_ORDER[SENSITIVE] = 1 /\ RISK_ORDER[IRREVERSIBLE] = 2
    /\ SAFE \in RiskClass
    /\ \A c, d \in RiskClass : RISK_ORDER[c] \in Nat /\ (RISK_ORDER[c] = RISK_ORDER[d] => c = d)
  BY DEF RISK_ORDER, RiskClass, SAFE, SENSITIVE, IRREVERSIBLE

\* A list of rules, as a policy file holds it.
IsRules(rules) ==
    /\ Len(rules) \in Nat /\ DOMAIN rules = 1 .. Len(rules)
    /\ \A i \in DOMAIN rules : rules[i].risk_class \in RiskClass

\* The rules among the first k that match.
MatchingOf(rules, k, r, u) == {i \in 1 .. k : Matches(rules[i], r, u)}

\* A class that one of the matching rules has, or SAFE, and that none exceeds.
IsStrictest(c, rules, k, r, u) ==
    /\ c \in {rules[i].risk_class : i \in MatchingOf(rules, k, r, u)} \cup {SAFE}
    /\ \A i \in MatchingOf(rules, k, r, u) : RISK_ORDER[rules[i].risk_class] <= RISK_ORDER[c]

\* There is only one such class.
LEMMA StrictestIsOne ==
    ASSUME NEW c \in RiskClass, NEW d \in RiskClass, NEW rules, NEW k, NEW r, NEW u,
           IsStrictest(c, rules, k, r, u), IsStrictest(d, rules, k, r, u),
           \A i \in 1 .. k : rules[i].risk_class \in RiskClass
    PROVE  c = d
<1>1. \A x, y \in RiskClass :
          IsStrictest(x, rules, k, r, u) /\ IsStrictest(y, rules, k, r, u) =>
              RISK_ORDER[x] <= RISK_ORDER[y]
  BY RiskOrderIs DEF IsStrictest
<1>2. RISK_ORDER[c] <= RISK_ORDER[d] /\ RISK_ORDER[d] <= RISK_ORDER[c]
  BY <1>1
<1> QED
  BY <1>2, RiskOrderIs

\* The loop of classify finds it, by induction on the rules it has been through.
LEMMA ClassifyIs ==
    ASSUME NEW p, IsRules(p.rules), NEW r, NEW u
    PROVE  /\ Classify(p, r, u) \in RiskClass
           /\ IsStrictest(Classify(p, r, u), p.rules, Len(p.rules), r, u)
<1> DEFINE rules == p.rules
           n == Len(rules)
           Weighed(m, c) == IF Matches(rules[m], r, u) THEN Raised(c, rules[m].risk_class) ELSE c
           Builds(g, k) == g = [m \in 0 .. k |-> IF m = 0 THEN SAFE ELSE Weighed(m, g[m - 1])]
           T == {k \in Nat : \E g : Builds(g, k)}
           best == CHOOSE g : Builds(g, n)
<1>1. /\ n \in Nat /\ DOMAIN rules = 1 .. n
      /\ \A i \in 1 .. n : rules[i].risk_class \in RiskClass
  BY DEF IsRules
<1>2. 0 \in T
  <2>1. Builds([m \in 0 .. 0 |-> SAFE], 0)
    <3> HIDE DEF Weighed
    <3> QED
      OBVIOUS
  <2> QED
    BY <2>1
<1>3. ASSUME NEW k \in Nat, k \in T PROVE k + 1 \in T
  <2> PICK g : Builds(g, k)
    BY <1>3
  <2> HIDE DEF Weighed
  <2> DEFINE h == [m \in 0 .. k + 1 |-> IF m = 0 THEN SAFE ELSE Weighed(m, g[m - 1])]
  <2>1. \A m \in 0 .. k : h[m] = g[m]
    OBVIOUS
  <2>2. Builds(h, k + 1)
    BY <2>1
  <2> HIDE DEF h, Builds
  <2> QED
    BY <2>2
<1>4. n \in T
  <2>1. \A k \in Nat : k \in T
    <3> HIDE DEF T
    <3> QED
      BY <1>2, <1>3, NatSetInduction
  <2> QED
    BY <1>1, <2>1
<1>5. Builds(best, n)
  <2> HIDE DEF Builds
  <2> QED
    BY <1>4
<1>6. Classify(p, r, u) = best[n]
  BY DEF Classify
<1> HIDE DEF best
<1>7. best[0] = SAFE /\ \A m \in 1 .. n : best[m] = Weighed(m, best[m - 1])
  <2> HIDE DEF Weighed
  <2> QED
    BY <1>1, <1>5
<1> HIDE DEF Builds, Weighed, T
<1> DEFINE Good(k) == best[k] \in RiskClass /\ IsStrictest(best[k], rules, k, r, u)
           U == {k \in Nat : k <= n => Good(k)}
<1>8. 0 \in U
  BY <1>7, RiskOrderIs DEF IsStrictest, MatchingOf
<1>9. ASSUME NEW k \in Nat, k \in U PROVE k + 1 \in U
  <2> SUFFICES ASSUME k + 1 <= n PROVE Good(k + 1)
    OBVIOUS
  <2> DEFINE c == rules[k + 1].risk_class
  <2>1. Good(k) /\ k + 1 \in 1 .. n /\ c \in RiskClass /\ best[k + 1] = Weighed(k + 1, best[k])
    BY <1>1, <1>7, <1>9
  <2>2. CASE ~Matches(rules[k + 1], r, u)
    <3>1. MatchingOf(rules, k + 1, r, u) = MatchingOf(rules, k, r, u)
      BY <2>2 DEF MatchingOf
    <3>2. best[k + 1] = best[k]
      BY <2>1, <2>2 DEF Weighed
    <3> QED
      BY <2>1, <3>1, <3>2 DEF IsStrictest
  <2>3. CASE Matches(rules[k + 1], r, u)
    <3>1. MatchingOf(rules, k + 1, r, u) = MatchingOf(rules, k, r, u) \cup {k + 1}
      BY <2>3 DEF MatchingOf
    <3>2. best[k + 1] = IF RISK_ORDER[c] > RISK_ORDER[best[k]] THEN c ELSE best[k]
      BY <2>1, <2>3 DEF Weighed, Raised
    <3>3. /\ best[k + 1] \in RiskClass /\ best[k + 1] \in {best[k], c}
          /\ RISK_ORDER[best[k]] <= RISK_ORDER[best[k + 1]]
          /\ RISK_ORDER[c] <= RISK_ORDER[best[k + 1]]
      BY <2>1, <3>2, RiskOrderIs
    <3>4. \A i \in MatchingOf(rules, k, r, u) :
              RISK_ORDER[rules[i].risk_class] <= RISK_ORDER[best[k + 1]]
      <4>1. \A i \in MatchingOf(rules, k, r, u) : rules[i].risk_class \in RiskClass
        BY <1>1, <2>1 DEF MatchingOf
      <4>2. \A i \in MatchingOf(rules, k, r, u) :
                RISK_ORDER[rules[i].risk_class] <= RISK_ORDER[best[k]]
        BY <2>1 DEF IsStrictest
      <4> QED
        BY <2>1, <3>3, <4>1, <4>2, RiskOrderIs
    <3> QED
      BY <2>1, <3>1, <3>3, <3>4 DEF IsStrictest
  <2> QED
    BY <2>2, <2>3
<1>10. Good(n)
  <2>1. \A k \in Nat : k \in U
    <3> HIDE DEF U
    <3> QED
      BY <1>8, <1>9, NatSetInduction
  <2> QED
    BY <1>1, <2>1
<1> QED
  BY <1>6, <1>10

\* classify always gives a class.
LEMMA ClassifyType ==
    ASSUME NEW p \in Policies, NEW r, NEW u
    PROVE  Classify(p, r, u) \in RiskClass
<1>1. IsRules(p.rules)
  BY PoliciesAssumption DEF IsRules
<1> QED
  BY <1>1, ClassifyIs

\* An irreversible proposal is never lowered.
LEMMA RaisedToIrreversible ==
    ASSUME NEW risk \in RiskClass
    PROVE  Raised(risk, IRREVERSIBLE) = IRREVERSIBLE
BY DEF Raised, RISK_ORDER, RiskClass, SAFE, SENSITIVE, IRREVERSIBLE

\* What evaluate may answer.
LEMMA EvaluateType ==
    ASSUME NEW p \in Policies, NEW r, NEW u, NEW risk \in RiskClass, NEW s
    PROVE  LET d == Evaluate(p, r, u, risk, s)
           IN  /\ d \in Decision
               /\ d.requires_confirmation => d.allowed /\ d.risk_class = IRREVERSIBLE
<1> DEFINE class == Raised(Classify(p, r, u), risk)
<1>1. class \in RiskClass
  BY ClassifyType DEF Raised
<1>2. {SAFE, SENSITIVE, IRREVERSIBLE} = RiskClass
  BY DEF RiskClass
<1> HIDE DEF class
<1>3. \/ Evaluate(p, r, u, risk, s) = Refused(SAFE)
      \/ Evaluate(p, r, u, risk, s) = Refused(SENSITIVE)
      \/ Evaluate(p, r, u, risk, s) = Refused(class)
      \/ Evaluate(p, r, u, risk, s) = Allowed(class, class = IRREVERSIBLE)
  BY Zenon DEF Evaluate, class
<1>4. \A c \in RiskClass :
          /\ Refused(c) \in Decision
          /\ ~Refused(c).requires_confirmation
  BY DEF Refused, Decision
<1>5. /\ Allowed(class, class = IRREVERSIBLE) \in Decision
      /\ Allowed(class, class = IRREVERSIBLE).allowed
      /\ Allowed(class, class = IRREVERSIBLE).risk_class = class
      /\ Allowed(class, class = IRREVERSIBLE).requires_confirmation = (class = IRREVERSIBLE)
  BY <1>1 DEF Allowed, Decision
<1>6. \/ \E c \in RiskClass : Evaluate(p, r, u, risk, s) = Refused(c)
      \/ Evaluate(p, r, u, risk, s) = Allowed(class, class = IRREVERSIBLE)
  BY <1>1, <1>2, <1>3
<1> QED
  BY <1>4, <1>5, <1>6

-----------------------------------------------------------------------------
(* A confirmation survives recording.                                      *)

\* The recorded class is where the confirmation lives until the replay.
Carried ==
    /\ confirmed => proposed = IRREVERSIBLE
    /\ phase = "replayed" /\ confirmed /\ decision.allowed => decision.requires_confirmation

PolicyInv == PolicyTypeOK /\ Carried

THEOREM PolicyInvariance == PolicySpec => []PolicyInv
<1>1. PolicyInit => PolicyInv
  <2> SUFFICES ASSUME PolicyInit PROVE PolicyInv
    OBVIOUS
  <2>1. SAFE \in RiskClass
    BY DEF RiskClass
  <2>2. Refused(SAFE) \in Decision /\ ~Refused(SAFE).requires_confirmation
    BY <2>1 DEF Refused, Decision
  <2> QED
    BY <2>1, <2>2 DEF PolicyInit, PolicyInv, PolicyTypeOK, Carried
<1>2. PolicyInv /\ [PolicyNext]_policyVars => PolicyInv'
  <2> SUFFICES ASSUME PolicyInv, [PolicyNext]_policyVars PROVE PolicyInv'
    OBVIOUS
  <2>1. CASE Discover
    <3>1. SAFE \in RiskClass
      BY DEF RiskClass
    <3>2. /\ decision' \in Decision
          /\ decision'.requires_confirmation =>
                 decision'.allowed /\ decision'.risk_class = IRREVERSIBLE
      BY <2>1, <3>1, EvaluateType DEF Discover, PolicyInv, PolicyTypeOK
    <3> QED
      BY <2>1, <3>2 DEF Discover, PolicyInv, PolicyTypeOK, Carried
  <2>2. CASE Record
    BY <2>2 DEF Record, RecordedRisk, PolicyInv, PolicyTypeOK, Carried, Decision
  <2>3. CASE Replay
    <3>1. /\ decision' \in Decision
          /\ decision'.requires_confirmation =>
                 decision'.allowed /\ decision'.risk_class = IRREVERSIBLE
      BY <2>3, EvaluateType DEF Replay, PolicyInv, PolicyTypeOK
    <3>2. confirmed /\ decision'.allowed => decision'.requires_confirmation
      <4> SUFFICES ASSUME confirmed, decision'.allowed PROVE decision'.requires_confirmation
        OBVIOUS
      <4>1. proposed = IRREVERSIBLE
        BY DEF PolicyInv, Carried
      <4>2. Raised(Classify(policy, request, url), proposed) = IRREVERSIBLE
        BY <4>1, ClassifyType, RaisedToIrreversible DEF PolicyInv, PolicyTypeOK
      <4> QED
        BY <2>3, <4>2 DEF Replay, Evaluate, Refused, Allowed
    <3> QED
      BY <2>3, <3>1, <3>2 DEF Replay, PolicyInv, PolicyTypeOK, Carried
  <2>4. CASE UNCHANGED policyVars
    BY <2>4 DEF policyVars, PolicyInv, PolicyTypeOK, Carried
  <2> QED
    BY <2>1, <2>2, <2>3, <2>4 DEF PolicyNext
<1> QED
  BY <1>1, <1>2, PTL DEF PolicySpec

\* What a human had to confirm when it was recorded is never performed without a
\* human when it is replayed, whatever became of page, inputs and policy file.
THEOREM ConfirmationsSurvive == PolicySpec => []ConfirmationSurvivesRecording
<1>1. PolicyInv => ConfirmationSurvivesRecording
  BY DEF PolicyInv, Carried, ConfirmationSurvivesRecording
<1> QED
  BY PolicyInvariance, <1>1, PTL

-----------------------------------------------------------------------------
(* The order of the rules.                                                 *)

\* A file with its rules in another order classifies alike.
LEMMA ReorderedClass ==
    ASSUME NEW rules, IsRules(rules), NEW order \in Bijection(DOMAIN rules, DOMAIN rules),
           NEW p, NEW q, p.rules = rules, q.rules = [i \in DOMAIN rules |-> rules[order[i]]],
           NEW r, NEW u
    PROVE  Classify(q, r, u) = Classify(p, r, u)
<1> DEFINE n == Len(rules)
           moved == [i \in DOMAIN rules |-> rules[order[i]]]
<1>1. n \in Nat /\ DOMAIN rules = 1 .. n /\ \A i \in 1 .. n : rules[i].risk_class \in RiskClass
  BY DEF IsRules
<1>2. /\ \A i \in 1 .. n : order[i] \in 1 .. n
      /\ \A j \in 1 .. n : \E i \in 1 .. n : order[i] = j
  <2>1. order \in Surjection(1 .. n, 1 .. n)
    BY <1>1 DEF Bijection
  <2> QED
    BY <2>1 DEF Surjection
<1>3. DOMAIN moved = 1 .. n /\ Len(moved) = n /\ \A i \in 1 .. n : moved[i] = rules[order[i]]
  <2>1. moved \in [1 .. n -> {rules[i] : i \in 1 .. n}]
    BY <1>1, <1>2
  <2>2. moved \in Seq({rules[i] : i \in 1 .. n})
    BY <1>1, <2>1
  <2> QED
    BY <1>1, <2>1, <2>2
<1> HIDE DEF moved
<1>4. IsRules(moved)
  BY <1>1, <1>2, <1>3 DEF IsRules
<1>5. \A i \in 1 .. n : Matches(moved[i], r, u) <=> Matches(rules[order[i]], r, u)
  BY <1>3
<1>6. {moved[i].risk_class : i \in MatchingOf(moved, n, r, u)}
          = {rules[i].risk_class : i \in MatchingOf(rules, n, r, u)}
  <2>1. \A i \in MatchingOf(moved, n, r, u) :
            /\ order[i] \in MatchingOf(rules, n, r, u)
            /\ moved[i].risk_class = rules[order[i]].risk_class
    BY <1>2, <1>3, <1>5 DEF MatchingOf
  <2>2. \A j \in MatchingOf(rules, n, r, u) :
            \E i \in MatchingOf(moved, n, r, u) : moved[i].risk_class = rules[j].risk_class
    BY <1>2, <1>3, <1>5 DEF MatchingOf
  <2> QED
    BY <2>1, <2>2
<1>7. \A c : IsStrictest(c, moved, n, r, u) => IsStrictest(c, rules, n, r, u)
  <2>1. \A i \in MatchingOf(rules, n, r, u) :
            rules[i].risk_class \in {moved[j].risk_class : j \in MatchingOf(moved, n, r, u)}
    BY <1>6
  <2>2. \A i \in MatchingOf(rules, n, r, u) :
            \E j \in MatchingOf(moved, n, r, u) : rules[i].risk_class = moved[j].risk_class
    BY <2>1
  <2> QED
    BY <1>6, <2>2 DEF IsStrictest
<1>8. p.rules = rules /\ q.rules = moved
  BY DEF moved
<1>9. /\ Classify(p, r, u) \in RiskClass /\ IsStrictest(Classify(p, r, u), rules, n, r, u)
      /\ Classify(q, r, u) \in RiskClass /\ IsStrictest(Classify(q, r, u), moved, n, r, u)
  <2>1. IsRules(p.rules) /\ IsRules(q.rules) /\ Len(q.rules) = n /\ Len(p.rules) = n
    BY <1>3, <1>4, <1>8
  <2>2. /\ Classify(p, r, u) \in RiskClass
        /\ IsStrictest(Classify(p, r, u), p.rules, Len(p.rules), r, u)
    BY <2>1, ClassifyIs
  <2>3. /\ Classify(q, r, u) \in RiskClass
        /\ IsStrictest(Classify(q, r, u), q.rules, Len(q.rules), r, u)
    BY <2>1, ClassifyIs
  <2> QED
    BY <1>8, <2>1, <2>2, <2>3
<1> QED
  BY <1>1, <1>7, <1>9, StrictestIsOne

\* For every policy file and every order of its rules: the loop of classify, and
\* with it evaluate, decides alike; no rule is weakened by where it stands.
THEOREM OrderIrrelevant == PolicySpec => []RuleOrderIsIrrelevant
<1>1. PolicyTypeOK => RuleOrderIsIrrelevant
  <2> SUFFICES ASSUME PolicyTypeOK, NEW order \in RuleOrders[policy]
               PROVE  Evaluate(Reordered(order), request, url, proposed, secret)
                          = Evaluate(policy, request, url, proposed, secret)
    BY DEF RuleOrderIsIrrelevant
  <2>1. policy \in Policies
    BY DEF PolicyTypeOK
  <2>2. /\ Reordered(order).rules = [i \in DOMAIN policy.rules |-> policy.rules[order[i]]]
        /\ Reordered(order).allowed_actions = policy.allowed_actions
        /\ Reordered(order).allowed_urls = policy.allowed_urls
        /\ Reordered(order).denied_urls = policy.denied_urls
        /\ Reordered(order).sensitive_actions = policy.sensitive_actions
        /\ Reordered(order).irreversible_actions = policy.irreversible_actions
        /\ Reordered(order).secrets_only_into_masked_fields = policy.secrets_only_into_masked_fields
    BY <2>1, PoliciesAssumption DEF Reordered
  <2>3. IsRules(policy.rules)
    BY <2>1, PoliciesAssumption DEF IsRules
  <2>4. order \in Bijection(DOMAIN policy.rules, DOMAIN policy.rules)
    BY <2>1 DEF RuleOrders
  <2>5. Classify(Reordered(order), request, url) = Classify(policy, request, url)
    BY <2>2, <2>3, <2>4, ReorderedClass
  <2> QED
    BY <2>2, <2>5 DEF Evaluate, UrlAllowed
<1> QED
  BY PolicyInvariance, <1>1, PTL DEF PolicyInv

-----------------------------------------------------------------------------
(* Elements that are found.                                                *)

LEMMA OneOnly ==
    ASSUME NEW S \in SUBSET Elements, Unique(S)
    PROVE  Only(S) \in S /\ \A e \in S : S = {e} /\ e = Only(S)
<1>1. IsFiniteSet(S)
  BY ElementsAssumption, FS_Subset
<1>2. PICK e : S = {e}
  BY <1>1, FS_Singleton DEF Unique
<1> QED
  BY <1>2 DEF Only

LEMMA OneElement ==
    ASSUME NEW e
    PROVE  Unique({e})
  BY FS_Singleton DEF Unique

LEMMA NoneFound == ~Unique({}) /\ ~Several({})
  BY FS_EmptySet DEF Unique, Several

LEMMA FoundAreElements ==
    ASSUME NEW p \in Pages, NEW s \in Selectors, NEW container
    PROVE  /\ Match(p, s, container) \in SUBSET Elements
           /\ Seen(p, s, container) \in SUBSET Elements
           /\ Usable(Match(p, s, container)) \in SUBSET Elements
  BY PagesAssumption DEF Match, Seen, Usable

-----------------------------------------------------------------------------
(* What is left of the strategies of a control when a target is recorded.  *)

LEMMA RemainingIs ==
    ASSUME NEW strategies \in Strategies, NEW kept
    PROVE  /\ Remaining(strategies, kept) \in Strategies
           /\ ToSet(Remaining(strategies, kept)) = ToSet(strategies) \cap kept
<1> DEFINE n == Len(strategies)
           Grown(m, r) == IF strategies[m] \in kept THEN Append(r, strategies[m]) ELSE r
           Builds(g, k) == g = [m \in 0 .. k |-> IF m = 0 THEN <<>> ELSE Grown(m, g[m - 1])]
           T == {k \in Nat : \E g : Builds(g, k)}
           ofFirst == CHOOSE g : Builds(g, n)
<1>1. n \in Nat /\ DOMAIN strategies = 1 .. n /\ \A i \in 1 .. n : strategies[i] \in Selectors
  BY DEF Strategies
<1>2. 0 \in T
  <2>1. Builds([m \in 0 .. 0 |-> <<>>], 0)
    <3> HIDE DEF Grown
    <3> QED
      OBVIOUS
  <2> QED
    BY <2>1
<1>3. ASSUME NEW k \in Nat, k \in T PROVE k + 1 \in T
  <2> PICK g : Builds(g, k)
    BY <1>3
  <2> HIDE DEF Grown
  <2> DEFINE h == [m \in 0 .. k + 1 |-> IF m = 0 THEN <<>> ELSE Grown(m, g[m - 1])]
  <2>1. \A m \in 0 .. k : h[m] = g[m]
    OBVIOUS
  <2>2. Builds(h, k + 1)
    BY <2>1
  <2> HIDE DEF h, Builds
  <2> QED
    BY <2>2
<1>4. n \in T
  <2>1. \A k \in Nat : k \in T
    <3> HIDE DEF T
    <3> QED
      BY <1>2, <1>3, NatSetInduction
  <2> QED
    BY <1>1, <2>1
<1>5. Builds(ofFirst, n)
  <2> HIDE DEF Builds
  <2> QED
    BY <1>4
<1>6. Remaining(strategies, kept) = ofFirst[n]
  BY DEF Remaining
<1> HIDE DEF ofFirst
<1>7. ofFirst[0] = <<>> /\ \A m \in 1 .. n : ofFirst[m] = Grown(m, ofFirst[m - 1])
  <2> HIDE DEF Grown
  <2> QED
    BY <1>1, <1>5
<1> HIDE DEF Builds, Grown
<1> DEFINE Good(k) ==
             /\ ofFirst[k] \in Seq(Selectors)
             /\ ToSet(ofFirst[k]) = {strategies[i] : i \in 1 .. k} \cap kept
             /\ \A i, j \in DOMAIN ofFirst[k] :
                    i < j /\ ofFirst[k][j] \in Semantic => ofFirst[k][i] \in Semantic
           U == {k \in Nat : k <= n => Good(k)}
<1>8. 0 \in U
  <2>1. ofFirst[0] = <<>>
    BY <1>7
  <2>2. ToSet(<<>>) = {}
    BY DEF ToSet
  <2>3. {strategies[i] : i \in 1 .. 0} = {}
    OBVIOUS
  <2>4. <<>> \in Seq(Selectors) /\ DOMAIN <<>> = {}
    OBVIOUS
  <2>5. Good(0)
    BY <2>1, <2>2, <2>3, <2>4
  <2> QED
    BY <2>5
<1>9. ASSUME NEW k \in Nat, k \in U PROVE k + 1 \in U
  <2> SUFFICES ASSUME k + 1 <= n PROVE Good(k + 1)
    OBVIOUS
  <2>1. Good(k) /\ k + 1 \in 1 .. n /\ strategies[k + 1] \in Selectors
    BY <1>1, <1>9
  <2>2. {strategies[i] : i \in 1 .. k + 1} = {strategies[i] : i \in 1 .. k} \cup {strategies[k + 1]}
    OBVIOUS
  <2>3. CASE strategies[k + 1] \notin kept
    <3>1. ofFirst[k + 1] = ofFirst[k]
      BY <1>7, <2>1, <2>3 DEF Grown
    <3> QED
      BY <2>1, <2>2, <2>3, <3>1
  <2>4. CASE strategies[k + 1] \in kept
    <3> DEFINE s == ofFirst[k]
               x == strategies[k + 1]
    <3>1. ofFirst[k + 1] = Append(s, x)
      <4>1. ofFirst[k + 1] = Grown(k + 1, ofFirst[k])
        BY <1>7, <2>1
      <4> QED
        BY <2>4, <4>1, Zenon DEF Grown
    <3>2. s \in Seq(Selectors) /\ x \in Selectors
      BY <2>1
    <3>3. ToSet(s) = {strategies[i] : i \in 1 .. k} \cap kept
      BY <2>1
    <3>4. \A i, j \in DOMAIN s : i < j /\ s[j] \in Semantic => s[i] \in Semantic
      BY <2>1
    <3>5. x \in Semantic => \A i \in 1 .. k : strategies[i] \in Semantic
      BY <1>1, <2>1 DEF Strategies
    <3> HIDE DEF s, x
    <3>6. /\ Append(s, x) \in Seq(Selectors) /\ Len(s) \in Nat
          /\ DOMAIN Append(s, x) = 1 .. Len(s) + 1 /\ DOMAIN s = 1 .. Len(s)
          /\ Append(s, x)[Len(s) + 1] = x
          /\ \A i \in 1 .. Len(s) : Append(s, x)[i] = s[i]
      BY <3>2
    <3>7. ToSet(Append(s, x)) = ToSet(s) \cup {x}
      BY <3>6 DEF ToSet
    <3>8. \A i \in 1 .. Len(s) : x \in Semantic => s[i] \in Semantic
      <4> SUFFICES ASSUME NEW i \in 1 .. Len(s), x \in Semantic PROVE s[i] \in Semantic
        OBVIOUS
      <4>1. s[i] \in ToSet(s)
        BY <3>6 DEF ToSet
      <4>2. PICK j \in 1 .. k : s[i] = strategies[j]
        BY <3>3, <4>1
      <4> QED
        BY <3>5, <4>2
    <3>9. \A i, j \in DOMAIN Append(s, x) :
             i < j /\ Append(s, x)[j] \in Semantic => Append(s, x)[i] \in Semantic
      BY <3>4, <3>6, <3>8
    <3>10. ToSet(Append(s, x)) = {strategies[i] : i \in 1 .. k + 1} \cap kept
      BY <2>2, <2>4, <3>3, <3>7 DEF x
    <3> QED
      BY <3>1, <3>6, <3>9, <3>10
  <2> QED
    BY <2>3, <2>4
<1>10. Good(n)
  <2>1. \A k \in Nat : k \in U
    <3> HIDE DEF U
    <3> QED
      BY <1>8, <1>9, NatSetInduction
  <2>2. n \in U
    BY <1>1, <2>1
  <2> HIDE DEF Good
  <2> QED
    BY <1>1, <2>2
<1> QED
  BY <1>1, <1>6, <1>10 DEF Strategies, ToSet
-----------------------------------------------------------------------------
(* Where a resolution is, and how many passes it has made.                 *)

\* The target that is recorded of control c on page p.
Recording(p, c) == [candidates |-> <<verify_target_spec(p, c)>>, coordinates |-> FALSE]

Typed ==
    /\ TypeOK /\ target \in TargetSpec
    /\ control # NoControl => \E p \in Pages : target = Recording(p, control)
    /\ pc # "done" => passes < DeadlinePasses /\ streak < 2
    /\ pc \in {"scope", "match"} => cand \in DOMAIN Chain /\ ~Candidate.frame
    /\ pc = "match" => pos <= Len(Candidate.strategies) + 1
    /\ pc = "end" => cand = Len(Chain) + 1
    /\ pc = "scope" => scope = NoElement /\ ~tie
    /\ outcome # "resolved" => chosen = NotChosen

\* Two ambiguous passes in a row, or the deadline.
Patient ==
    /\ streak >= 2 => passes >= 2 /\ ties[passes] /\ ties[passes - 1]
    /\ outcome \in {"ambiguous", "not_found", "coordinates"} /\ ~expired => streak >= 2

LEMMA RecordingType ==
    ASSUME NEW p \in Pages, NEW c \in Controls
    PROVE  /\ verify_target_spec(p, c) \in CandidateSpec
           /\ Recording(p, c) \in TargetSpec
           /\ ~verify_target_spec(p, c).frame
           /\ verify_target_spec(p, c).within = IF KeptScoped(p, c) = {} THEN <<>> ELSE c.within
           /\ verify_target_spec(p, c).strategies
                  = IF Kept(p, c) = {} THEN c.strategies ELSE Remaining(c.strategies, Kept(p, c))
<1>1. c.within \in Strategies /\ c.strategies \in Strategies
  BY ControlsAssumption DEF ControlDescriptor
<1>2. Remaining(c.strategies, Kept(p, c)) \in Strategies
  BY <1>1, RemainingIs
<1>3. <<>> \in Strategies
  BY DEF Strategies
<1>4. verify_target_spec(p, c) \in CandidateSpec
  BY <1>1, <1>2, <1>3 DEF verify_target_spec, CandidateSpec
<1>5. Recording(p, c) \in TargetSpec
  BY <1>4 DEF Recording, TargetSpec
<1> QED
  BY <1>4, <1>5 DEF verify_target_spec

LEMMA ChainType ==
    ASSUME target \in TargetSpec
    PROVE  /\ Chain \in Seq(CandidateSpec) /\ Len(Chain) \in Nat /\ DOMAIN Chain = 1 .. Len(Chain)
           /\ \A c \in DOMAIN Chain :
                  /\ Chain[c].within \in Strategies /\ Chain[c].strategies \in Strategies
                  /\ Chain[c].frame \in BOOLEAN
<1>1. Chain \in Seq(CandidateSpec)
  BY DEF Chain, TargetSpec
<1>2. \A c \in DOMAIN Chain : Chain[c] \in CandidateSpec
  BY <1>1
<1> QED
  BY <1>1, <1>2 DEF CandidateSpec

LEMMA StrategiesType ==
    ASSUME NEW s \in Strategies
    PROVE  /\ s \in Seq(Selectors) /\ Len(s) \in Nat /\ DOMAIN s = 1 .. Len(s)
           /\ \A i \in DOMAIN s : s[i] \in Selectors
           /\ \A i, j \in DOMAIN s : i < j /\ s[j] \in Semantic => s[i] \in Semantic
  BY DEF Strategies

LEMMA InitTyped == Init => Typed /\ Patient
<1> SUFFICES ASSUME Init PROVE Typed /\ Patient
  OBVIOUS
<1>1. target \in TargetSpec /\ (control = NoControl => target \in Targets)
      /\ control \in Controls \cup {NoControl}
      /\ (control # NoControl => \E p \in Pages : target = Recording(p, control))
  <2>1. CASE target \in Targets /\ control = NoControl
    BY <2>1, TargetsAssumption
  <2>2. CASE /\ control \in Controls
             /\ target = [candidates |-> <<verify_target_spec(page, control)>>,
                         coordinates |-> FALSE]
    <3>1. control # NoControl
      BY <2>2, ControlsAssumption, ElementsAssumption DEF NoControl, ControlDescriptor
    <3> QED
      BY <2>2, <3>1, RecordingType DEF Init, Recording
  <2> QED
    BY <2>1, <2>2 DEF Init
<1>2. Len(Chain) \in Nat
  BY <1>1, ChainType
<1>3. TypeOK
  <2>1. ties \in Seq(BOOLEAN) /\ Len(ties) = 0 /\ passes = 0 /\ streak = 0 /\ moves = 0
    BY DEF Init
  <2>2. cand \in 1 .. Len(Chain) + 1 /\ pos \in Nat \ {0}
    BY <1>2 DEF Init
  <2>3. passes \in 0 .. DeadlinePasses /\ moves \in 0 .. MaxMoves
    BY <2>1, BoundsAssumption
  <2>4. tie \in BOOLEAN /\ ambiguous \in BOOLEAN /\ still \in BOOLEAN /\ expired \in BOOLEAN
    BY Zenon DEF Init
  <2>5. /\ page \in Pages /\ pc \in {"candidate", "scope", "match", "end", "sleep", "done"}
        /\ outcome = "waiting" /\ pc # "done" /\ scope \in Elements \cup {NoElement}
    BY DEF Init
  <2>6. streak \in 0 .. 2 /\ streak <= passes /\ ~(streak > 0)
    BY <2>1
  <2>7. outcome \in {"waiting", "resolved", "coordinates", "ambiguous", "not_found", "unsupported"}
    BY <2>5
  <2> QED
    BY <1>1, <2>1, <2>2, <2>3, <2>4, <2>5, <2>6, <2>7, Zenon DEF TypeOK
<1> QED
  BY <1>1, <1>3, BoundsAssumption DEF Init, Typed, Patient

LEMMA TypedNext ==
    ASSUME Typed, Patient, [Next]_vars
    PROVE  Typed' /\ Patient'
<1>1. target' = target /\ control' = control /\ Chain' = Chain /\ page' \in Pages
  BY PagesAssumption DEF Next, Resolve, EnterCandidate, ResolveScope, TryStrategy, LeaveCandidate,
     EndPass, NewPass, Move, pageVars, vars, Chain, Typed, TypeOK
<1>2. Len(Chain) \in Nat /\ DOMAIN Chain = 1 .. Len(Chain)
  BY ChainType DEF Typed
<1>0. /\ EnterCandidate \/ TryStrategy => tie' \in BOOLEAN
      /\ NewPass \/ LeaveCandidate => ambiguous' \in BOOLEAN
      /\ NewPass \/ Move => still' \in BOOLEAN
  BY Zenon DEF EnterCandidate, TryStrategy, NewPass, LeaveCandidate, Move, Typed, TypeOK
<1> USE DEF Typed, TypeOK, Patient
<1>3. CASE EnterCandidate
  <2>1. CASE cand > Len(Chain)
    BY <1>0, <1>1, <1>2, <1>3, <2>1 DEF EnterCandidate, pageVars, pollVars
  <2>2. CASE cand <= Len(Chain)
    BY <1>0, <1>1, <1>2, <1>3, <2>2 DEF EnterCandidate, pageVars, pollVars, Candidate
  <2> QED
    BY <1>2, <2>1, <2>2
<1>4. CASE ResolveScope
  <2> DEFINE visible == Match(page, Candidate.within[pos], NoElement) \cap Visible
  <2>1. pos <= Len(Candidate.within) /\ Unique(visible) => Only(visible) \in Elements
    <3>1. Candidate.within \in Strategies
      BY <1>4, ChainType DEF ResolveScope, Candidate
    <3>2. pos <= Len(Candidate.within) => Candidate.within[pos] \in Selectors
      BY <3>1, StrategiesType
    <3>3. pos <= Len(Candidate.within) => visible \in SUBSET Elements
      BY <3>2, FoundAreElements
    <3> QED
      BY <3>3, OneOnly
  <2> HIDE DEF visible
  <2>2. pos' \in Nat \ {0} /\ scope' \in Elements \cup {NoElement} /\ pc' \in {"scope", "match"}
        /\ (pc' = "scope" => scope' = NoElement)
    BY <1>4, <2>1 DEF ResolveScope, visible
  <2> QED
    BY <1>1, <1>4, <2>2 DEF ResolveScope, pageVars, pollVars, resultVars, Candidate
<1>5. CASE TryStrategy
  <2>1. pos' \in Nat \ {0} /\ tie' \in BOOLEAN /\ pc' \in {"match", "done"}
    BY <1>0, <1>5 DEF TryStrategy
  <2>2. \/ UNCHANGED <<pc, outcome, chosen>>
        \/ outcome' = "resolved" /\ pc' = "done"
    BY <1>5 DEF TryStrategy
  <2> QED
    BY <1>1, <1>5, <2>1, <2>2 DEF TryStrategy, pageVars, pollVars, Candidate
<1>6. CASE LeaveCandidate
  BY <1>1, <1>2, <1>6 DEF LeaveCandidate, pageVars, pollVars, resultVars
<1>7. CASE EndPass
  <2>1. passes' = passes + 1 /\ ties' = Append(ties, ambiguous) /\ streak' = NextStreak(ambiguous)
    BY <1>7 DEF EndPass
  <2>2. /\ ties' \in Seq(BOOLEAN) /\ Len(ties') = passes' /\ ties'[passes'] = ambiguous
        /\ passes > 0 => ties'[passes] = ties[passes]
    BY <2>1
  <2>3. /\ streak' \in 0 .. 2 /\ streak' <= passes' /\ passes' \in 0 .. DeadlinePasses
        /\ streak' > 0 => ties'[passes']
        /\ streak' >= 2 => streak > 0
    BY <1>7, <2>1, <2>2, BoundsAssumption DEF EndPass, NextStreak
  <2>4. streak' >= 2 => passes' >= 2 /\ ties'[passes'] /\ ties'[passes' - 1]
    BY <1>7, <2>1, <2>2, <2>3, BoundsAssumption DEF EndPass
  <2>5. /\ pc' \in {"sleep", "done"} /\ outcome' \in {"waiting", "ambiguous", "coordinates", "not_found"}
        /\ (outcome' = "waiting") <=> (pc' # "done")
        /\ expired' \in BOOLEAN
        /\ outcome' # "waiting" /\ ~expired' => streak' >= 2
        /\ pc' # "done" => streak' < 2 /\ passes' < DeadlinePasses
    BY <1>7, <2>1, <2>3 DEF EndPass, Failure, MayExpire
  <2>6. UNCHANGED <<pageVars, cand, pos, scope, tie, ambiguous, chosen>>
    BY <1>7 DEF EndPass
  <2> QED
    BY <1>1, <1>7, <2>2, <2>3, <2>4, <2>5, <2>6 DEF EndPass, pageVars
<1>8. CASE NewPass
  BY <1>0, <1>1, <1>2, <1>8 DEF NewPass, pollVars, resultVars
<1>9. CASE Move
  <2>1. moves' \in 0 .. MaxMoves
    BY <1>9, BoundsAssumption DEF Move
  <2>2. UNCHANGED <<target, control, pc, cand, pos, scope, tie, ambiguous, streak, passes, ties,
                    outcome, chosen, expired>>
    BY <1>9 DEF Move, pollVars, resultVars
  <2>3. still' \in BOOLEAN
    BY <1>0, <1>9
  <2> QED
    BY <1>1, <2>1, <2>2, <2>3 DEF Candidate
<1>10. CASE UNCHANGED vars
  BY <1>1, <1>10 DEF vars, Candidate
<1> QED
  BY <1>3, <1>4, <1>5, <1>6, <1>7, <1>8, <1>9, <1>10 DEF Next, Resolve

\* Every variable stays in its type, whatever the page shows and turns into.
THEOREM ResolverInvariance == Spec => [](Typed /\ Patient)
<1>1. Typed /\ Patient /\ [Next]_vars => (Typed /\ Patient)'
  BY TypedNext
<1> QED
  BY InitTyped, <1>1, PTL DEF Spec

\* A page that renders late gets its time: before the deadline, only ties in two
\* passes in a row end a resolution in a failure.
THEOREM FailsOnlyOnTies == Spec => []FailsEarlyOnlyOnTies
<1>1. Typed /\ Patient => FailsEarlyOnlyOnTies
  BY DEF Typed, Patient, FailsEarlyOnlyOnTies
<1> QED
  BY ResolverInvariance, <1>1, PTL

-----------------------------------------------------------------------------
(* What a pass has seen of a page that holds still.                        *)

Answer == [outcome |-> outcome, element |-> chosen.element]

Scanned ==
    still =>
        /\ pc \in {"candidate", "scope", "match", "end"} =>
             /\ \A c \in 1 .. cand - 1 : c \notin Decisive(page)
             /\ ambiguous <=> \E c \in 1 .. cand - 1 : IsTied(page, c)
        /\ pc = "scope" => \A i \in 1 .. pos - 1 : i \notin Containers(page, Candidate.within)
        /\ pc = "match" =>
             /\ scope = Container(page, Candidate.within)
             /\ \A i \in 1 .. pos - 1 : i \notin Identifies(page, cand)
             /\ tie <=> \E i \in 1 .. pos - 1 : /\ Candidate.strategies[i] \in Semantic
                                                /\ Several(Finds(page, cand, i))
        /\ pc = "done" => Answer = Promised(page)

\* What is promised depends on the target and on the page alone.
LEMMA SameView ==
    ASSUME UNCHANGED <<target, page>>
    PROVE  /\ \A c, i : Finds(page, c, i)' = Finds(page, c, i)
           /\ \A c : IsTied(page, c)' <=> IsTied(page, c)
           /\ \A c : Identifies(page, c)' = Identifies(page, c)
           /\ Decisive(page)' = Decisive(page)
           /\ Promised(page)' = Promised(page)
<1>1. Chain' = Chain /\ target' = target /\ page' = page
  BY DEF Chain
<1>2. \A c, i : Finds(page, c, i)' = Finds(page, c, i)
  BY <1>1 DEF Finds, SemanticApplies
<1>3. ASSUME NEW c PROVE IsTied(page, c)' <=> IsTied(page, c)
  BY <1>1, <1>2 DEF IsTied
<1>4. ASSUME NEW c PROVE Identifies(page, c)' = Identifies(page, c)
  BY <1>1, <1>2, <1>3 DEF Identifies
<1>5. Decisive(page)' = Decisive(page)
  BY <1>1, <1>4 DEF Decisive
<1>6. (\E c \in DOMAIN Chain' : IsTied(page, c)') <=> \E c \in DOMAIN Chain : IsTied(page, c)
  BY <1>1, <1>3
<1>7. Promised(page)' = Promised(page)
  BY <1>1, <1>2, <1>4, <1>5, <1>6 DEF Promised
<1> QED
  BY <1>2, <1>3, <1>4, <1>5, <1>7

LEMMA DecisiveType ==
    ASSUME target \in TargetSpec, NEW p
    PROVE  /\ Decisive(p) \in SUBSET DOMAIN Chain /\ Decisive(p) \in SUBSET Nat
           /\ \A c \in DOMAIN Chain : /\ Identifies(p, c) \in SUBSET DOMAIN Chain[c].strategies
                                      /\ Identifies(p, c) \in SUBSET Nat
<1>1. DOMAIN Chain \in SUBSET Nat
  BY ChainType
<1>2. \A c \in DOMAIN Chain : DOMAIN Chain[c].strategies \in SUBSET Nat
  BY ChainType, StrategiesType
<1> QED
  BY <1>1, <1>2 DEF Decisive, Identifies

\* The first of the strategies to find one visible container finds the container.
LEMMA ContainerIs ==
    ASSUME NEW p \in Pages, NEW within \in Strategies
    PROVE  /\ Containers(p, within) = {} => Container(p, within) = NoElement
           /\ \A i \in Containers(p, within) :
                  (\A j \in 1 .. i - 1 : j \notin Containers(p, within)) =>
                      Container(p, within) = Only(Seen(p, within[i], NoElement))
<1>1. Containers(p, within) \in SUBSET DOMAIN within /\ DOMAIN within \in SUBSET Nat
  BY StrategiesType DEF Containers
<1>2. ASSUME NEW i \in Containers(p, within), \A j \in 1 .. i - 1 : j \notin Containers(p, within)
      PROVE  Min(Containers(p, within)) = i
  <2>1. \A j \in Containers(p, within) : j \in 1 .. Len(within) /\ i <= j
    BY <1>1, <1>2, StrategiesType
  <2> QED
    BY <1>1, <2>1, MinIs
<1>3. \A i \in Containers(p, within) : Containers(p, within) # {}
  OBVIOUS
<1> QED
  BY <1>2, <1>3 DEF Container

\* What TryStrategy looks at is what the strategy finds, if it is not skipped.
LEMMA FindsWhat ==
    ASSUME pc = "match", Typed, pos \in DOMAIN Candidate.strategies,
           scope = Container(page, Candidate.within)
    PROVE  LET selector == Candidate.strategies[pos]
               container == IF selector \in Semantic THEN scope ELSE NoElement
           IN  /\ selector \in Semantic => ~Skipped(selector, scope, tie)
                                            \/ Finds(page, cand, pos) = {}
               /\ ~Skipped(selector, scope, tie) =>
                      Usable(Match(page, selector, container)) = Finds(page, cand, pos)
               /\ Finds(page, cand, pos) \in SUBSET Elements
<1> DEFINE selector == Candidate.strategies[pos]
           container == IF selector \in Semantic THEN scope ELSE NoElement
<1>1. Candidate = Chain[cand]
  BY DEF Candidate
<1>2. Skipped(selector, scope, tie) =
         IF selector \in Semantic THEN Candidate.within # <<>> /\ scope = NoElement ELSE tie
  BY DEF Skipped
<1>3. Finds(page, cand, pos) =
         IF selector \notin Semantic THEN Usable(Match(page, selector, NoElement))
         ELSE IF SemanticApplies(page, cand) THEN Usable(Match(page, selector, scope)) ELSE {}
  BY <1>1 DEF Finds
<1>4. SemanticApplies(page, cand) <=> Candidate.within = <<>> \/ scope # NoElement
  BY <1>1 DEF SemanticApplies
<1>5. selector \in Selectors /\ page \in Pages
  <2>1. Candidate.strategies \in Strategies
    BY ChainType DEF Typed, Candidate
  <2> QED
    BY <2>1, StrategiesType DEF Typed, TypeOK
<1>6. \A c : Usable(Match(page, selector, c)) \in SUBSET Elements
  BY <1>5, FoundAreElements
<1> HIDE DEF selector
<1>7. Finds(page, cand, pos) \in SUBSET Elements
  BY <1>3, <1>6
<1>8. selector \in Semantic => ~Skipped(selector, scope, tie) \/ Finds(page, cand, pos) = {}
  BY <1>2, <1>3, <1>4
<1>9. ~Skipped(selector, scope, tie) =>
         Usable(Match(page, selector, container)) = Finds(page, cand, pos)
  BY <1>2, <1>3, <1>4
<1> QED
  BY <1>7, <1>8, <1>9 DEF selector

\* The first strategy that identifies an element decides; a framed candidate does.
LEMMA PromisedIs ==
    ASSUME target \in TargetSpec, NEW p, NEW c \in Decisive(p),
           \A d \in 1 .. c - 1 : d \notin Decisive(p)
    PROVE  /\ Chain[c].frame => Promised(p) = [outcome |-> "unsupported", element |-> NoElement]
           /\ ~Chain[c].frame => \A i \in Identifies(p, c) :
                 (\A j \in 1 .. i - 1 : j \notin Identifies(p, c)) =>
                     Promised(p) = [outcome |-> "resolved", element |-> Only(Finds(p, c, i))]
<1>1. c \in DOMAIN Chain /\ DOMAIN Chain = 1 .. Len(Chain) /\ Len(Chain) \in Nat
  BY DecisiveType, ChainType
<1>2. Min(Decisive(p)) = c
  <2>1. \A d \in Decisive(p) : d \in 1 .. Len(Chain) /\ c <= d
    BY <1>1, DecisiveType
  <2> QED
    BY <2>1, DecisiveType, MinIs
<1>3. ASSUME NEW i \in Identifies(p, c), \A j \in 1 .. i - 1 : j \notin Identifies(p, c)
      PROVE  Min(Identifies(p, c)) = i
  <2>1. Identifies(p, c) \in SUBSET Nat /\ Identifies(p, c) \in SUBSET DOMAIN Chain[c].strategies
    BY <1>1, DecisiveType
  <2>2. DOMAIN Chain[c].strategies = 1 .. Len(Chain[c].strategies)
    BY <1>1, ChainType, StrategiesType
  <2>3. \A j \in Identifies(p, c) : i <= j
    BY <1>3, <2>1, <2>2
  <2> QED
    BY <2>1, <2>3, MinIs
<1>4. Decisive(p) # {}
  OBVIOUS
<1> QED
  BY <1>2, <1>3, <1>4 DEF Promised

LEMMA NothingChosen == NotChosen.element = NoElement
  BY DEF NotChosen

LEMMA EnterCandidateScans ==
    ASSUME Typed, Scanned, EnterCandidate
    PROVE  Scanned'
<1> SUFFICES ASSUME still' PROVE Scanned'
  BY DEF Scanned
<1>1. UNCHANGED <<target, page, still, cand, ambiguous, chosen>> /\ pos' = 1 /\ pc = "candidate"
  BY DEF EnterCandidate, pageVars
<1>2. /\ \A c \in 1 .. cand - 1 : c \notin Decisive(page)
      /\ ambiguous <=> \E c \in 1 .. cand - 1 : IsTied(page, c)
  BY <1>1 DEF Scanned
<1>3. /\ \A c \in 1 .. cand' - 1 : c \notin Decisive(page)'
      /\ ambiguous' <=> \E c \in 1 .. cand' - 1 : IsTied(page, c)'
  BY <1>1, <1>2, SameView
<1>4. CASE pc' \in {"end", "scope"}
  BY <1>1, <1>3, <1>4 DEF Scanned
<1>5. CASE pc' = "done" /\ outcome' = "unsupported" /\ cand <= Len(Chain) /\ Candidate.frame
  <2>1. cand \in Decisive(page)
    BY <1>5, ChainType DEF Decisive, Candidate, Typed, TypeOK
  <2>2. Promised(page) = [outcome |-> "unsupported", element |-> NoElement]
    BY <1>2, <1>5, <2>1, PromisedIs DEF Typed, Candidate
  <2>3. chosen'.element = NoElement
    <3>1. outcome = "waiting" /\ (outcome # "resolved" => chosen = NotChosen)
      BY <1>1 DEF Typed, TypeOK
    <3> QED
      BY <1>1, <3>1, NothingChosen
  <2>4. Answer' = Promised(page)'
    BY <1>1, <1>5, <2>2, <2>3, SameView DEF Answer
  <2> QED
    BY <1>5, <2>4 DEF Scanned
<1> QED
  BY <1>4, <1>5, ChainType DEF EnterCandidate, Typed, TypeOK

LEMMA ResolveScopeScans ==
    ASSUME Typed, Scanned, ResolveScope
    PROVE  Scanned'
<1> SUFFICES ASSUME still' PROVE Scanned'
  BY DEF Scanned
<1>1. UNCHANGED <<target, page, still, cand, ambiguous, tie>> /\ pc = "scope"
  BY DEF ResolveScope, pageVars
<1>2. /\ \A c \in 1 .. cand' - 1 : c \notin Decisive(page)'
      /\ ambiguous' <=> \E c \in 1 .. cand' - 1 : IsTied(page, c)'
  BY <1>1, SameView DEF Scanned
<1>3. \A i \in 1 .. pos - 1 : i \notin Containers(page, Candidate.within)
  BY <1>1 DEF Scanned
<1>4. /\ Candidate' = Candidate /\ Candidate.within \in Strategies
      /\ page \in Pages /\ pos \in Nat \ {0} /\ ~tie /\ scope = NoElement
  BY <1>1, ChainType DEF Typed, TypeOK, Candidate, Chain
<1>5. /\ Len(Candidate.within) \in Nat /\ DOMAIN Candidate.within = 1 .. Len(Candidate.within)
      /\ Containers(page, Candidate.within) \in SUBSET DOMAIN Candidate.within
  BY <1>4, StrategiesType DEF Containers
<1>6. ASSUME pc' = "match", pos' = 1, scope' = Container(page, Candidate.within) PROVE Scanned'
  BY <1>1, <1>2, <1>4, <1>6 DEF Scanned
<1>7. CASE pos > Len(Candidate.within)
  <2>1. Containers(page, Candidate.within) = {}
    BY <1>3, <1>4, <1>5, <1>7
  <2>2. Container(page, Candidate.within) = NoElement
    BY <1>4, <2>1, ContainerIs
  <2> QED
    BY <1>4, <1>6, <1>7, <2>2 DEF ResolveScope
<1>8. CASE pos <= Len(Candidate.within)
  <2> DEFINE visible == Seen(page, Candidate.within[pos], NoElement)
  <2>1. pos \in Containers(page, Candidate.within) <=> Unique(visible)
    BY <1>4, <1>5, <1>8 DEF Containers
  <2>2. CASE Unique(visible)
    <3>1. Container(page, Candidate.within) = Only(visible)
      BY <1>3, <1>4, <2>1, <2>2, ContainerIs
    <3>2. scope' = Only(visible) /\ pc' = "match" /\ pos' = 1
      <4>1. ~(pos > Len(Candidate.within))
        BY <1>4, <1>5, <1>8
      <4> QED
        BY <2>2, <4>1, Zenon DEF ResolveScope, Seen
    <3> QED
      BY <1>6, <3>1, <3>2
  <2>3. CASE ~Unique(visible)
    <3>1. pos' = pos + 1 /\ pc' = "scope"
      BY <1>1, <1>4, <1>8, <2>3 DEF ResolveScope, Seen
    <3>2. \A i \in 1 .. pos' - 1 : i \notin Containers(page', Candidate'.within)
      BY <1>1, <1>3, <1>4, <2>1, <2>3, <3>1
    <3> QED
      BY <1>2, <3>1, <3>2 DEF Scanned
  <2> QED
    BY <2>2, <2>3
<1> QED
  BY <1>4, <1>5, <1>7, <1>8

LEMMA TryStrategyScans ==
    ASSUME Typed, Scanned, TryStrategy
    PROVE  Scanned'
<1> SUFFICES ASSUME still' PROVE Scanned'
  BY DEF Scanned
<1> DEFINE selector == Candidate.strategies[pos]
           container == IF selector \in Semantic THEN scope ELSE NoElement
           usable == Usable(Match(page, selector, container))
           found == Finds(page, cand, pos)
           Ties(i) == Candidate.strategies[i] \in Semantic /\ Several(Finds(page, cand, i))
<1>1. /\ UNCHANGED <<target, page, still, cand, ambiguous, scope>> /\ pc = "match"
      /\ pos <= Len(Candidate.strategies)
  BY DEF TryStrategy, pageVars
<1>2. /\ \A c \in 1 .. cand - 1 : c \notin Decisive(page)
      /\ ambiguous <=> \E c \in 1 .. cand - 1 : IsTied(page, c)
      /\ scope = Container(page, Candidate.within)
      /\ \A i \in 1 .. pos - 1 : i \notin Identifies(page, cand)
      /\ tie <=> \E i \in 1 .. pos - 1 : Ties(i)
  BY <1>1 DEF Scanned
<1>3. /\ Candidate' = Candidate /\ Candidate = Chain[cand] /\ cand \in DOMAIN Chain
      /\ Candidate.strategies \in Strategies /\ pos \in Nat \ {0} /\ ~Candidate.frame
      /\ target \in TargetSpec /\ tie \in BOOLEAN
  BY <1>1, ChainType DEF Typed, TypeOK, Candidate, Chain
<1>4. /\ pos \in DOMAIN Candidate.strategies
      /\ DOMAIN Candidate.strategies = 1 .. Len(Candidate.strategies)
      /\ Len(Candidate.strategies) \in Nat
      /\ \A i, j \in DOMAIN Candidate.strategies :
            i < j /\ Candidate.strategies[j] \in Semantic => Candidate.strategies[i] \in Semantic
  BY <1>1, <1>3, StrategiesType
<1>5. /\ selector \in Semantic => ~Skipped(selector, scope, tie) \/ found = {}
      /\ ~Skipped(selector, scope, tie) => usable = found
      /\ found \in SUBSET Elements
  BY <1>1, <1>2, <1>4, FindsWhat
<1>6. IsTied(page, cand) <=> \E i \in DOMAIN Candidate.strategies : Ties(i)
  BY <1>3 DEF IsTied
<1>7. \A i : i \in Identifies(page, cand) <=>
               /\ i \in DOMAIN Candidate.strategies /\ Unique(Finds(page, cand, i))
               /\ Candidate.strategies[i] \notin Semantic => ~IsTied(page, cand)
  BY <1>3 DEF Identifies
<1>8. /\ \A c \in 1 .. cand' - 1 : c \notin Decisive(page)'
      /\ ambiguous' <=> \E c \in 1 .. cand' - 1 : IsTied(page, c)'
  BY <1>1, <1>2, SameView
<1>9. ASSUME pc' = "match", pos' = pos + 1, pos \notin Identifies(page, cand),
             tie' <=> tie \/ Ties(pos)
      PROVE  Scanned'
  <2>1. \A i \in 1 .. pos' - 1 : i \in 1 .. pos - 1 \/ i = pos
    BY <1>3, <1>9
  <2>2. \A i \in 1 .. pos' - 1 : i \notin Identifies(page, cand)
    BY <1>2, <1>9, <2>1
  <2>3. tie' <=> \E i \in 1 .. pos' - 1 : Ties(i)
    <3> HIDE DEF Ties
    <3> QED
      BY <1>2, <1>3, <1>9, <2>1
  <2>4. /\ \A i \in 1 .. pos' - 1 : i \notin Identifies(page, cand)'
        /\ tie' <=> \E i \in 1 .. pos' - 1 : /\ Candidate'.strategies[i] \in Semantic
                                             /\ Several(Finds(page, cand, i)')
    BY <1>1, <1>3, <2>2, <2>3, SameView
  <2> QED
    BY <1>1, <1>2, <1>3, <1>8, <1>9, <2>4 DEF Scanned
<1>10. CASE Skipped(selector, scope, tie) /\ pos' = pos + 1 /\ UNCHANGED <<pc, tie>>
  <2>1. CASE selector \in Semantic
    BY <1>1, <1>5, <1>7, <1>9, <1>10, <2>1, NoneFound
  <2>2. CASE selector \notin Semantic
    <3>1. tie
      BY <1>10, <2>2 DEF Skipped
    <3>2. IsTied(page, cand)
      BY <1>2, <1>4, <1>6, <3>1
    <3> QED
      BY <1>1, <1>7, <1>9, <1>10, <2>2, <3>2
  <2> QED
    BY <2>1, <2>2
<1>11. CASE /\ ~Skipped(selector, scope, tie) /\ ~Unique(usable)
            /\ tie' = (tie \/ (Several(usable) /\ selector \in Semantic))
            /\ pos' = pos + 1 /\ UNCHANGED pc
  <2>1. usable = found
    BY <1>5, <1>11
  <2>2. tie' <=> tie \/ Ties(pos)
    BY <1>3, <1>11, <2>1
  <2>3. pos \notin Identifies(page, cand)
    BY <1>7, <1>11, <2>1
  <2> QED
    BY <1>1, <1>9, <1>11, <2>2, <2>3
<1>12. CASE /\ ~Skipped(selector, scope, tie) /\ Unique(usable)
            /\ \E e \in usable : chosen' = [cand |-> cand, selector |-> selector, element |-> e]
            /\ outcome' = "resolved" /\ pc' = "done"
  <2>1. usable = found
    BY <1>5, <1>12
  <2>2. selector \notin Semantic => ~IsTied(page, cand)
    <3> SUFFICES ASSUME selector \notin Semantic, NEW i \in DOMAIN Candidate.strategies, Ties(i)
                 PROVE  FALSE
      BY <1>6
    <3>1. i < pos
      BY <1>3, <1>4
    <3>2. tie
      BY <1>2, <1>3, <1>4, <3>1
    <3> QED
      BY <1>12, <3>2 DEF Skipped
  <2>3. pos \in Identifies(page, cand)
    BY <1>4, <1>7, <1>12, <2>1, <2>2
  <2>4. cand \in Decisive(page)
    BY <1>3, <2>3 DEF Decisive
  <2>5. Promised(page) = [outcome |-> "resolved", element |-> Only(found)]
    BY <1>2, <1>3, <2>3, <2>4, PromisedIs
  <2>6. chosen'.element = Only(found)
    BY <1>5, <1>12, <2>1, OneOnly
  <2>7. Answer' = Promised(page)'
    BY <1>1, <1>12, <2>5, <2>6, SameView DEF Answer
  <2> QED
    BY <1>12, <2>7 DEF Scanned
<1> QED
  BY <1>10, <1>11, <1>12 DEF TryStrategy

LEMMA LeaveCandidateScans ==
    ASSUME Typed, Scanned, LeaveCandidate
    PROVE  Scanned'
<1> SUFFICES ASSUME still' PROVE Scanned'
  BY DEF Scanned
<1>1. /\ UNCHANGED <<target, page, still, scope, tie>> /\ pc = "match" /\ pc' = "candidate"
      /\ cand' = cand + 1 /\ ambiguous' = (ambiguous \/ tie) /\ pos > Len(Candidate.strategies)
  BY DEF LeaveCandidate, pageVars
<1>2. /\ \A c \in 1 .. cand - 1 : c \notin Decisive(page)
      /\ ambiguous <=> \E c \in 1 .. cand - 1 : IsTied(page, c)
      /\ \A i \in 1 .. pos - 1 : i \notin Identifies(page, cand)
      /\ tie <=> \E i \in 1 .. pos - 1 : /\ Candidate.strategies[i] \in Semantic
                                         /\ Several(Finds(page, cand, i))
  BY <1>1 DEF Scanned
<1>3. /\ Candidate = Chain[cand] /\ cand \in DOMAIN Chain /\ cand \in Nat \ {0}
      /\ Candidate.strategies \in Strategies /\ pos \in Nat \ {0} /\ ~Candidate.frame
      /\ target \in TargetSpec /\ tie \in BOOLEAN /\ ambiguous \in BOOLEAN
  BY <1>1, ChainType DEF Typed, TypeOK, Candidate
<1>4. /\ DOMAIN Candidate.strategies = 1 .. Len(Candidate.strategies)
      /\ Len(Candidate.strategies) \in Nat
      /\ Identifies(page, cand) \in SUBSET DOMAIN Candidate.strategies
  BY <1>3, StrategiesType, DecisiveType
<1>5. cand \notin Decisive(page)
  BY <1>1, <1>2, <1>3, <1>4 DEF Decisive
<1>6. IsTied(page, cand) => tie
  BY <1>1, <1>2, <1>3, <1>4 DEF IsTied
<1>7. CASE pos = Len(Candidate.strategies) + 1
  <2>1. tie <=> IsTied(page, cand)
    BY <1>2, <1>3, <1>4, <1>7 DEF IsTied
  <2>2. \A c \in 1 .. cand' - 1 : c \in 1 .. cand - 1 \/ c = cand
    BY <1>1, <1>3
  <2>3. \A c \in 1 .. cand' - 1 : c \notin Decisive(page)
    BY <1>2, <1>5, <2>2
  <2>4. ambiguous' <=> \E c \in 1 .. cand' - 1 : IsTied(page, c)
    BY <1>1, <1>2, <1>3, <2>1, <2>2
  <2>5. /\ \A c \in 1 .. cand' - 1 : c \notin Decisive(page)'
        /\ ambiguous' <=> \E c \in 1 .. cand' - 1 : IsTied(page, c)'
    BY <1>1, <2>3, <2>4, SameView
  <2> QED
    BY <1>1, <2>5 DEF Scanned
<1> QED
  BY <1>1, <1>3, <1>4, <1>7 DEF Typed

\* A pass that found nothing on a page that held still fails as promised.
LEMMA EndPassScans ==
    ASSUME Typed, Scanned, EndPass
    PROVE  Scanned'
<1> SUFFICES ASSUME still' PROVE Scanned'
  BY DEF Scanned
<1>1. /\ UNCHANGED <<target, page, still, chosen>> /\ pc = "end" /\ pc' \in {"done", "sleep"}
      /\ pc' = "done" => outcome' = Failure
  BY DEF EndPass, pageVars
<1>2. /\ cand = Len(Chain) + 1 /\ target \in TargetSpec
      /\ outcome # "resolved" => chosen = NotChosen
      /\ outcome = "waiting"
  BY <1>1 DEF Typed, TypeOK
<1>3. DOMAIN Chain = 1 .. cand - 1
  BY <1>2, ChainType
<1>4. /\ \A c \in DOMAIN Chain : c \notin Decisive(page)
      /\ ambiguous <=> \E c \in DOMAIN Chain : IsTied(page, c)
  BY <1>1, <1>3 DEF Scanned
<1>5. Decisive(page) = {}
  BY <1>2, <1>4, DecisiveType
<1>6. Promised(page) = [outcome |-> Failure, element |-> NoElement]
  BY <1>4, <1>5 DEF Promised, Failure
<1>7. CASE pc' = "done"
  <2>1. chosen'.element = NoElement
    BY <1>1, <1>2, NothingChosen
  <2>2. Answer' = Promised(page)'
    BY <1>1, <1>6, <1>7, <2>1, SameView DEF Answer
  <2> QED
    BY <1>7, <2>2 DEF Scanned
<1>8. CASE pc' = "sleep"
  BY <1>8 DEF Scanned
<1> QED
  BY <1>1, <1>7, <1>8

LEMMA ScannedNext ==
    ASSUME Typed, Scanned, [Next]_vars
    PROVE  Scanned'
<1>1. CASE NewPass
  <2>1. pc' = "candidate" /\ cand' = 1 /\ ~ambiguous'
    BY <1>1 DEF NewPass
  <2> QED
    BY <2>1 DEF Scanned
<1>2. CASE Move
  BY <1>2 DEF Move, Scanned
<1>3. CASE UNCHANGED vars
  <2>1. UNCHANGED <<target, page, still, pc, cand, pos, scope, tie, ambiguous, outcome, chosen>>
        /\ Candidate' = Candidate /\ Answer' = Answer
    BY <1>3 DEF vars, Candidate, Chain, Answer
  <2>2. UNCHANGED <<target, page>>
    BY <2>1
  <2> QED
    BY <2>1, <2>2, SameView DEF Scanned
<1> QED
  BY <1>1, <1>2, <1>3, EnterCandidateScans, ResolveScopeScans, TryStrategyScans,
     LeaveCandidateScans, EndPassScans DEF Next, Resolve

THEOREM ScanInvariance == Spec => []Scanned
<1>1. Init => Scanned
  BY DEF Init, Scanned
<1>2. Typed /\ Scanned /\ [Next]_vars => Scanned'
  BY ScannedNext
<1> QED
  BY ResolverInvariance, <1>1, <1>2, PTL DEF Spec

\* A resolution whose last pass saw one page gives the answer that the definition
\* without loops promises for it, whatever the pages before it were.
THEOREM ResolverKeepsPromise == Spec => []AgreesWithPromise
<1>1. Typed /\ Scanned => AgreesWithPromise
  BY DEF Typed, TypeOK, Scanned, Answer, AgreesWithPromise
<1> QED
  BY ResolverInvariance, ScanInvariance, <1>1, PTL

-----------------------------------------------------------------------------
(* Recorded targets.                                                       *)

\* A control that can be seen is in a container that can be seen, if in any.
ContainersShown == \A e \in Visible : Inside[e] \in Visible \cup {NoElement}

\* The container that is found for a control is the one it is in.
LEMMA ContainerOfControl ==
    ASSUME ContainersShown, NEW p \in Pages, NEW c \in Controls, Describes(c, p),
           c.element \in Visible, Container(p, c.within) # NoElement
    PROVE  Inside[c.element] = Container(p, c.within)
<1>1. c.element \in Elements /\ c.within \in Strategies
  BY ControlsAssumption DEF ControlDescriptor
<1> DEFINE found == Containers(p, c.within)
           selector == c.within[Min(found)]
           seen == Seen(p, selector, NoElement)
<1>2. found \in SUBSET DOMAIN c.within /\ found \in SUBSET Nat
  BY <1>1, StrategiesType DEF Containers
<1>3. found # {} /\ Container(p, c.within) = Only(seen)
  BY DEF Container
<1>4. Min(found) \in found
  BY <1>2, <1>3, MinIsLeast
<1>5. Unique(seen) /\ selector \in Selectors /\ selector \in ToSet(c.within)
  <2>1. Min(found) \in DOMAIN c.within /\ Unique(seen)
    BY <1>4 DEF Containers
  <2> QED
    BY <1>1, <2>1, StrategiesType DEF ToSet
<1> HIDE DEF selector
<1>6. seen \in SUBSET Elements
  BY <1>5, FoundAreElements
<1>7. seen # {}
  BY <1>5, NoneFound
<1>8. p[selector] # {} /\ p[selector] \in SUBSET Elements
  BY <1>5, <1>7, PagesAssumption DEF Seen, Match
<1>9. Inside[c.element] \in p[selector]
  BY <1>5, <1>8 DEF Describes
<1>10. Inside[c.element] \in Visible
  BY <1>8, <1>9, ElementsAssumption DEF ContainersShown
<1>11. Inside[c.element] \in seen
  BY <1>9, <1>10 DEF Seen, Match
<1> QED
  BY <1>3, <1>5, <1>6, <1>11, OneOnly

\* A strategy that sees just one control finds it, in its container as well.
LEMMA FindsTheControl ==
    ASSUME NEW p \in Pages, NEW s \in Selectors, NEW k, NEW e \in Usable(Elements),
           e \in Match(p, s, k), Unique(Seen(p, s, k)) \/ Unique(Seen(p, s, NoElement))
    PROVE  Usable(Match(p, s, k)) = {e}
<1>1. Match(p, s, k) \in SUBSET Match(p, s, NoElement)
  BY DEF Match
<1>2. e \in Seen(p, s, k) /\ e \in Seen(p, s, NoElement) /\ e \in Usable(Match(p, s, k))
  BY <1>1 DEF Seen, Usable
<1>3. Seen(p, s, k) \in SUBSET Elements /\ Seen(p, s, NoElement) \in SUBSET Elements
  BY FoundAreElements
<1>4. Seen(p, s, k) = {e} \/ Seen(p, s, NoElement) = {e}
  BY <1>2, <1>3, OneOnly
<1>5. Usable(Match(p, s, k)) \in SUBSET Seen(p, s, k)
  BY DEF Usable, Seen
<1>6. Seen(p, s, k) \in SUBSET Seen(p, s, NoElement)
  BY <1>1 DEF Seen
<1> QED
  BY <1>2, <1>4, <1>5, <1>6

LEMMA RecordedChain ==
    ASSUME NEW p \in Pages, NEW c \in Controls, target = Recording(p, c)
    PROVE  /\ Chain = <<verify_target_spec(p, c)>> /\ DOMAIN Chain = {1} /\ ~Chain[1].frame
           /\ Chain[1].within = IF KeptScoped(p, c) = {} THEN <<>> ELSE c.within
           /\ Chain[1].strategies \in Strategies
           /\ ToSet(Chain[1].strategies)
                  = IF Kept(p, c) = {} THEN ToSet(c.strategies) ELSE Kept(p, c)
<1>1. c.strategies \in Strategies
  BY ControlsAssumption DEF ControlDescriptor
<1>2. Chain = <<verify_target_spec(p, c)>>
  BY DEF Chain, Recording
<1>3. Chain[1] = verify_target_spec(p, c) /\ DOMAIN Chain = {1}
  BY <1>2
<1>4. Kept(p, c) \in SUBSET ToSet(c.strategies)
  BY DEF Kept, KeptScoped, KeptUnscoped
<1>5. /\ Remaining(c.strategies, Kept(p, c)) \in Strategies
      /\ ToSet(Remaining(c.strategies, Kept(p, c))) = Kept(p, c)
  BY <1>1, <1>4, RemainingIs
<1> QED
  BY <1>1, <1>2, <1>3, <1>5, RecordingType

\* On a page that its descriptor describes, whatever is identified is the control.
LEMMA IdentifiesTheControl ==
    ASSUME ContainersShown, Typed, control # NoControl, control.element \in Usable(Elements),
           Describes(control, page), NEW i \in Identifies(page, 1)
    PROVE  Finds(page, 1, i) = {control.element}
<1> DEFINE e == control.element
           s == Chain[1].strategies[i]
           k == Container(page, Chain[1].within)
<1>1. PICK p \in Pages : target = Recording(p, control)
  BY DEF Typed
<1>2. control \in Controls /\ page \in Pages
  BY DEF Typed, TypeOK
<1>3. i \in DOMAIN Chain[1].strategies /\ Unique(Finds(page, 1, i))
  BY DEF Identifies
<1>4. s \in ToSet(control.strategies) /\ s \in Selectors
  <2>1. s \in ToSet(Chain[1].strategies) /\ s \in Selectors
    BY <1>1, <1>2, <1>3, RecordedChain, StrategiesType DEF ToSet
  <2>2. Kept(p, control) \in SUBSET ToSet(control.strategies)
    BY DEF Kept, KeptScoped, KeptUnscoped
  <2> QED
    BY <1>1, <1>2, <2>1, <2>2, RecordedChain
<1>5. e \in Visible
  BY DEF Usable
<1>6. Finds(page, 1, i) # {}
  BY <1>3, NoneFound
<1>7. \/ Finds(page, 1, i) = Usable(Match(page, s, NoElement))
      \/ Finds(page, 1, i) = Usable(Match(page, s, k)) /\ (k # NoElement => k = Inside[e])
  <2>1. CASE s \notin Semantic
    BY <2>1 DEF Finds
  <2>2. CASE s \in Semantic
    <3>1. Finds(page, 1, i) = Usable(Match(page, s, k))
      BY <1>6, <2>2 DEF Finds
    <3>2. ASSUME k # NoElement PROVE k = Inside[e]
      <4>1. Chain[1].within = <<>> \/ Chain[1].within = control.within
        BY <1>1, <1>2, RecordedChain
      <4>2. Container(page, <<>>) = NoElement
        BY DEF Container, Containers
      <4>3. Chain[1].within = control.within
        BY <3>2, <4>1, <4>2
      <4> QED
        BY <1>2, <1>5, <3>2, <4>3, ContainerOfControl
    <3> QED
      BY <3>1, <3>2
  <2> QED
    BY <2>1, <2>2
<1> HIDE DEF s, k
<1>8. page[s] # {}
  BY <1>6, <1>7 DEF Usable, Match
<1>9. e \in page[s]
  BY <1>4, <1>8 DEF Describes
<1>10. e \in Finds(page, 1, i)
  BY <1>7, <1>9 DEF Usable, Match
<1>11. Finds(page, 1, i) \in SUBSET Elements
  BY <1>2, <1>4, <1>7, FoundAreElements
<1> QED
  BY <1>3, <1>10, <1>11, OneOnly

\* On the page of the recording, the verified strategies identify the control.
LEMMA RecordedDecides ==
    ASSUME ContainersShown, TypeOK, control # NoControl, control.element \in Usable(Elements),
           Describes(control, page), target = Recording(page, control), Kept(page, control) # {}
    PROVE  1 \in Decisive(page) /\ Promised(page).outcome = "resolved"
<1> DEFINE e == control.element
           strategies == Chain[1].strategies
           k == Container(page, Chain[1].within)
<1>1. control \in Controls /\ page \in Pages /\ e \in Visible
  BY DEF TypeOK, Usable
<1>2. /\ DOMAIN Chain = {1} /\ ~Chain[1].frame /\ strategies \in Strategies
      /\ ToSet(strategies) = Kept(page, control)
      /\ Chain[1].within = IF KeptScoped(page, control) = {} THEN <<>> ELSE control.within
  BY <1>1, RecordedChain
<1>3. Container(page, <<>>) = NoElement
  BY DEF Container, Containers
<1>4. ASSUME NEW i \in DOMAIN strategies PROVE Unique(Finds(page, 1, i))
  <2> DEFINE s == strategies[i]
  <2>1. s \in Kept(page, control) /\ s \in ToSet(control.strategies) /\ s \in Selectors
    <3>1. s \in Kept(page, control)
      BY <1>2 DEF ToSet
    <3> QED
      BY <1>2, <3>1, StrategiesType DEF Kept, KeptScoped, KeptUnscoped
  <2>2. ASSUME NEW c, Seen(page, s, c) # {} PROVE e \in page[s]
    BY <2>1, <2>2 DEF Describes, Seen, Match
  <2>3. CASE s \notin Semantic \/ KeptScoped(page, control) = {}
    <3>1. Unique(Seen(page, s, NoElement))
      BY <2>1, <2>3 DEF Kept, KeptScoped, KeptUnscoped
    <3>2. e \in Match(page, s, NoElement)
      BY <2>2, <3>1, NoneFound DEF Match
    <3>3. Finds(page, 1, i) = Usable(Match(page, s, NoElement))
      BY <1>2, <1>3, <2>3 DEF Finds, SemanticApplies
    <3>4. Usable(Match(page, s, NoElement)) = {e}
      <4> HIDE DEF s
      <4> QED
        BY <1>1, <2>1, <3>1, <3>2, FindsTheControl
    <3> QED
      BY <3>3, <3>4, OneElement
  <2>4. CASE s \in Semantic /\ KeptScoped(page, control) # {}
    <3>1. Chain[1].within = control.within /\ k # NoElement
      BY <1>2, <2>4 DEF KeptScoped
    <3>2. Inside[e] = k
      BY <1>1, <3>1, ContainerOfControl
    <3>3. Finds(page, 1, i) = Usable(Match(page, s, k))
      BY <2>4, <3>1 DEF Finds, SemanticApplies
    <3>4. Unique(Seen(page, s, k)) \/ Unique(Seen(page, s, NoElement))
      BY <2>1, <3>1 DEF Kept, KeptScoped, KeptUnscoped
    <3>5. e \in Match(page, s, k)
      BY <2>2, <3>2, <3>4, NoneFound DEF Match
    <3>6. Usable(Match(page, s, k)) = {e}
      <4> HIDE DEF s, k
      <4> QED
        BY <1>1, <2>1, <3>4, <3>5, FindsTheControl
    <3> QED
      BY <3>3, <3>6, OneElement
  <2> QED
    BY <2>3, <2>4
<1>5. ~IsTied(page, 1)
  <2>1. \A i \in DOMAIN strategies : ~Several(Finds(page, 1, i))
    BY <1>4 DEF Unique, Several
  <2> QED
    BY <2>1 DEF IsTied
<1>6. Identifies(page, 1) # {}
  <2>1. DOMAIN strategies # {}
    BY <1>2 DEF ToSet
  <2> QED
    BY <1>4, <1>5, <2>1 DEF Identifies
<1>7. 1 \in Decisive(page)
  BY <1>2, <1>6 DEF Decisive
<1>8. Min(Decisive(page)) = 1
  <2>1. Decisive(page) = {1}
    BY <1>2, <1>7 DEF Decisive
  <2> QED
    BY <2>1, MinIs
<1>9. Promised(page).outcome = "resolved"
  BY <1>2, <1>7, <1>8 DEF Promised
<1> QED
  BY <1>7, <1>9

\* A page that holds still from the beginning and decides does so in one pass.
AtOnce ==
    moves = 0 =>
        /\ still
        /\ control # NoControl => Describes(control, page) /\ target = Recording(page, control)
        /\ Decisive(page) # {} => passes = 0 /\ pc \notin {"end", "sleep"}

LEMMA AtOnceNext ==
    ASSUME Typed, Scanned, AtOnce, [Next]_vars
    PROVE  AtOnce'
<1> SUFFICES ASSUME moves' = 0 PROVE AtOnce'
  BY DEF AtOnce
<1>1. ~Move
  BY DEF Move, Typed, TypeOK
<1>2. UNCHANGED <<target, control, page, moves>>
  BY <1>1 DEF Next, Resolve, EnterCandidate, ResolveScope, TryStrategy, LeaveCandidate,
     EndPass, NewPass, pageVars, vars
<1>3. /\ still
      /\ control # NoControl => Describes(control, page) /\ target = Recording(page, control)
      /\ Decisive(page) # {} => passes = 0 /\ pc \notin {"end", "sleep"}
  BY <1>2 DEF AtOnce
<1>4. still'
  BY <1>1, <1>3 DEF Next, Resolve, EnterCandidate, ResolveScope, TryStrategy, LeaveCandidate,
     EndPass, NewPass, pageVars, vars
<1>5. Decisive(page)' = Decisive(page)
  BY <1>2, SameView
<1>6. ASSUME Decisive(page) # {} PROVE passes' = 0 /\ pc' \notin {"end", "sleep"}
  <2>1. pc' # "end"
    <3>1. CASE EnterCandidate
      <4>1. \A c \in 1 .. cand - 1 : c \notin Decisive(page)
        BY <1>3, <3>1 DEF Scanned, EnterCandidate
      <4>2. target \in TargetSpec /\ cand \in 1 .. Len(Chain) + 1
        BY DEF Typed, TypeOK
      <4>3. ~(cand > Len(Chain))
        BY <1>6, <4>1, <4>2, ChainType, DecisiveType
      <4> QED
        BY <3>1, <4>3 DEF EnterCandidate
    <3>2. CASE ~EnterCandidate
      BY <1>1, <1>3, <1>6, <3>2 DEF Next, Resolve, ResolveScope, TryStrategy, LeaveCandidate,
         EndPass, NewPass, vars
    <3> QED
      BY <3>1, <3>2
  <2>2. pc' # "sleep" /\ passes' = passes
    BY <1>1, <1>3, <1>6 DEF Next, Resolve, EnterCandidate, ResolveScope, TryStrategy,
       LeaveCandidate, EndPass, NewPass, pollVars, vars
  <2> QED
    BY <1>3, <1>6, <2>1, <2>2
<1>7. /\ Describes(control, page)' <=> Describes(control, page)
      /\ Recording(page, control)' = Recording(page, control)
  BY <1>2
<1> QED
  BY <1>2, <1>3, <1>4, <1>5, <1>6, <1>7 DEF AtOnce

\* What recording verified, a replay resolves: at once on the page of the recording,
\* and never to another control on a page that still has the control as described.
THEOREM RecordedResolves == ContainersShown => (Spec => []RecordedTargetResolves)
<1> SUFFICES ASSUME ContainersShown PROVE Spec => []RecordedTargetResolves
  OBVIOUS
<1>1. Init => AtOnce
  <2> SUFFICES ASSUME Init PROVE AtOnce
    OBVIOUS
  <2>1. control # NoControl => Describes(control, page) /\ target = Recording(page, control)
    BY DEF Init, Recording
  <2> QED
    BY <2>1 DEF Init, AtOnce
<1>2. Typed /\ Scanned /\ AtOnce /\ [Next]_vars => AtOnce'
  BY AtOnceNext
<1>3. Typed /\ Scanned /\ AtOnce => RecordedTargetResolves
  <2> SUFFICES ASSUME Typed, Scanned, AtOnce, control # NoControl,
                      control.element \in Usable(Elements), outcome # "waiting"
               PROVE  /\ moves = 0 /\ Kept(page, control) # {} => outcome = "resolved" /\ passes = 0
                      /\ still /\ Describes(control, page) /\ outcome = "resolved" =>
                             chosen.element = control.element
    BY DEF RecordedTargetResolves
  <2>1. pc = "done" /\ (still => Answer = Promised(page))
    BY DEF Typed, TypeOK, Scanned
  <2>2. ASSUME moves = 0, Kept(page, control) # {} PROVE outcome = "resolved" /\ passes = 0
    <3>1. still /\ 1 \in Decisive(page) /\ Promised(page).outcome = "resolved" /\ passes = 0
      BY <2>2, RecordedDecides DEF AtOnce, Typed
    <3> QED
      BY <2>1, <3>1 DEF Answer
  <2>3. ASSUME still, Describes(control, page), outcome = "resolved"
        PROVE  chosen.element = control.element
    <3>1. Promised(page).outcome = "resolved" /\ chosen.element = Promised(page).element
      BY <2>1, <2>3 DEF Answer
    <3>2. PICK p \in Pages : target = Recording(p, control)
      BY DEF Typed
    <3>3. DOMAIN Chain = {1} /\ ~Chain[1].frame
      BY <3>2, RecordedChain DEF Typed, TypeOK
    <3>4. Decisive(page) # {}
      <4>1. Decisive(page) = {} => Promised(page).outcome # "resolved"
        BY DEF Promised
      <4> QED
        BY <3>1, <4>1
    <3>5. Decisive(page) = {1} /\ Identifies(page, 1) # {}
      BY <3>3, <3>4 DEF Decisive
    <3>6. Min(Decisive(page)) = 1
      BY <3>5, MinIs
    <3>7. Min(Identifies(page, 1)) \in Identifies(page, 1)
      BY <3>3, <3>5, DecisiveType, MinIsLeast DEF Typed
    <3>8. Promised(page).element = Only(Finds(page, 1, Min(Identifies(page, 1))))
      BY <3>3, <3>4, <3>6 DEF Promised
    <3>9. Finds(page, 1, Min(Identifies(page, 1))) = {control.element}
      BY <2>3, <3>7, IdentifiesTheControl
    <3>10. Only({control.element}) = control.element
      BY DEF Only
    <3> QED
      BY <3>1, <3>8, <3>9, <3>10
  <2> QED
    BY <2>2, <2>3
<1> QED
  BY ResolverInvariance, ScanInvariance, <1>1, <1>2, <1>3, PTL DEF Spec
===============================================================================
