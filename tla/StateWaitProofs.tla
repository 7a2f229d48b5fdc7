--------------------------- MODULE StateWaitProofs ---------------------------
(***************************************************************************)
(* Proofs about StateWait, for any pages, conditions and rules, any        *)
(* deadline and any number of changes of the page: what two matches in a   *)
(* row are good for.                                                       *)
(***************************************************************************)
EXTENDS StateWait, WellFoundedInduction, TLAPS

-----------------------------------------------------------------------------
(* The first rule that holds.                                              *)

Before == {p \in Nat \X Nat : p[1] < p[2]}

\* Every set of numbers that is not empty has a least one.
LEMMA LeastExists ==
    ASSUME NEW S \in SUBSET Nat, S # {}
    PROVE  \E n \in S : \A m \in S : n <= m
<1>1. IsWellFoundedOn(Before, Nat)
  BY NatLessThanWellFounded DEF OpToRel, Before
<1>2. PICK n \in S : \A m \in S : ~(<<m, n>> \in Before)
  BY <1>1, WFMin
<1> SUFFICES ASSUME NEW m \in S PROVE n <= m
  OBVIOUS
<1>3. m \in Nat /\ n \in Nat
  OBVIOUS
<1>4. m < n => <<m, n>> \in Before
  BY <1>3 DEF Before
<1>5. ~(m < n)
  BY <1>2, <1>4
<1> QED
  BY <1>3, <1>5

\* first_match finds a rule that holds, if there is one.
LEMMA FirstMatchHolds ==
    ASSUME NEW s
    PROVE  /\ FirstMatch(s) \in RuleIds \cup {NoRule}
           /\ FirstMatch(s) # NoRule => Holds(Rules[FirstMatch(s)], s)
<1> DEFINE Holding == {r \in RuleIds : Holds(Rules[r], s)}
<1>1. CASE Holding = {}
  BY <1>1 DEF FirstMatch
<1>2. CASE Holding # {}
  <2>1. Holding \in SUBSET Nat
    BY RulesAssumption DEF RuleIds
  <2>2. \E r \in Holding : \A q \in Holding : r <= q
    BY <2>1, <1>2, LeastExists
  <2>3. \E r \in RuleIds :
            Holds(Rules[r], s) /\ \A q \in RuleIds : Holds(Rules[q], s) => r <= q
    BY <2>2
  <2>4. FirstMatch(s) = CHOOSE r \in RuleIds :
            Holds(Rules[r], s) /\ \A q \in RuleIds : Holds(Rules[q], s) => r <= q
    BY <1>2 DEF FirstMatch
  <2> QED
    BY <2>3, <2>4
<1> QED
  BY <1>1, <1>2

-----------------------------------------------------------------------------
(* The invariant.                                                          *)

Polling == {"url", "text", "heading", "expected", "rules", "sleep"}

\* The fields that the poll in progress has read of the page.
ReadSoFar ==
    CASE pc = "text" -> {"url"}
      [] pc = "heading" -> {"url", "text"}
      [] pc \in {"expected", "rules"} -> {"url", "text", "heading"}
      [] OTHER -> {}

Types ==
    /\ pc \in Polling \cup {"last_url", "last_text", "last_heading", "last_rules", "done"}
    /\ page \in Pages
    /\ state = [f \in Fields |-> state[f]]
    /\ moves \in Nat /\ polls \in Nat
    /\ matches \in (RuleIds \cup {NoRule}) \X (RuleIds \cup {NoRule})
    /\ page \in everShown /\ everShown \subseteq Pages
    /\ streak \in [rule : RuleIds \cup {NoRule}, length : 0 .. 2]

\* While it polls, there is a streak of one match at most; it is the latest match.
StreakIsLatest ==
    pc \in Polling =>
        /\ outcome = "waiting" /\ fired = NoRule
        /\ streak.length <= 1
        /\ streak.length = 1 => streak.rule # NoRule /\ matches[2] = streak.rule

\* The last look is taken after a timeout only.
LateAfterTimeout ==
    pc \in {"last_url", "last_text", "last_heading", "last_rules"} => outcome = "timeout"

\* What was read of a page that did not change is that page.
StillMeansRead == moves = 0 /\ pc # "done" => state = page

\* What matched was shown, unless the only change came in the middle of that poll:
\* then the poll in progress reads one page.
ShownOrSettled ==
    pc \in Polling /\ streak.length = 1 /\ moves <= 1 =>
        \/ \E p \in everShown : Holds(Rules[streak.rule], p)
        \/ moves = 1 /\ \A f \in ReadSoFar : state[f] = page[f]

\* On a page that does not change, the streak of a rule begins with the first poll.
StreakBegins ==
    pc \in Polling /\ moves = 0 /\ FirstMatch(page) # NoRule /\ polls > 0 =>
        streak = [rule |-> FirstMatch(page), length |-> 1]

Inv ==
    /\ Types /\ StreakIsLatest /\ LateAfterTimeout /\ StillMeansRead /\ ShownOrSettled /\ StreakBegins
    /\ RecognizedTwice /\ RecognizedWasShown /\ SteadyStateRecognized

-----------------------------------------------------------------------------

LEMMA InitInv == Init => Inv
<1> SUFFICES ASSUME Init PROVE Inv
  OBVIOUS
<1>1. page = [f \in Fields |-> page[f]]
  BY PagesAssumption DEF Init
<1>2. Types
  BY <1>1 DEF Init, Types, Polling, NoStreak
<1> QED
  BY <1>2 DEF Init, Inv, StreakIsLatest, LateAfterTimeout, StillMeansRead, ShownOrSettled,
              StreakBegins, RecognizedTwice, RecognizedWasShown, SteadyStateRecognized, NoStreak

LEMMA SnapshotInv == Inv /\ Snapshot => Inv'
<1> SUFFICES ASSUME Inv,
                    NEW from, NEW field, NEW to, Read(from, field, to),
                    <<from, field, to>> \in
                        {<<"url", "url", "text">>, <<"text", "text", "heading">>,
                         <<"heading", "heading", "expected">>,
                         <<"last_url", "url", "last_text">>,
                         <<"last_text", "text", "last_heading">>,
                         <<"last_heading", "heading", "last_rules">>}
             PROVE  Inv'
  BY DEF Snapshot
<1>1. field \in Fields /\ from = pc /\ pc' = to
  BY DEF Read, Fields
<1>2. /\ state' = [state EXCEPT ![field] = page[field]]
      /\ UNCHANGED <<page, moves, everShown, streak, outcome, fired, polls, matches>>
  BY DEF Read, resultVars
<1>3. Types'
  BY <1>1, <1>2 DEF Inv, Types, Polling
<1>4. StillMeansRead'
  <2> SUFFICES ASSUME moves = 0, pc # "done" PROVE state' = page
    BY <1>1, <1>2 DEF StillMeansRead
  <2>1. state = page
    BY DEF Inv, StillMeansRead
  <2>2. page = [f \in Fields |-> page[f]]
    BY PagesAssumption DEF Inv, Types
  <2> QED
    BY <1>2, <2>1, <2>2
<1>5. ShownOrSettled'
  <2>1. CASE pc \in Polling
    <3>1. ReadSoFar' \subseteq ReadSoFar \cup {field}
      BY <1>1, <2>1 DEF ReadSoFar, Polling
    <3>2. \A f \in ReadSoFar' : f \in Fields
      BY DEF ReadSoFar, Fields
    <3>3. (\A f \in ReadSoFar : state[f] = page[f]) => \A f \in ReadSoFar' : state'[f] = page[f]
      BY <1>2, <3>1, <3>2 DEF Inv, Types
    <3> QED
      BY <1>2, <2>1, <3>3 DEF Inv, ShownOrSettled
  <2>2. CASE pc \notin Polling
    BY <1>1, <2>2 DEF Polling, ShownOrSettled
  <2> QED
    BY <2>1, <2>2
<1> QED
  BY <1>1, <1>2, <1>3, <1>4, <1>5
  DEF Inv, StreakIsLatest, LateAfterTimeout, StreakBegins, RecognizedTwice, RecognizedWasShown,
      SteadyStateRecognized, Polling

\* What the conditions see of a page that was read while it did not change.
LEMMA SeenIsPage ==
    ASSUME Inv, \A f \in {"url", "text", "heading"} : state[f] = page[f]
    PROVE  Seen = page
<1>1. page = [f \in Fields |-> page[f]]
  BY PagesAssumption DEF Inv, Types
<1> QED
  BY <1>1 DEF Inv, Types, Seen, Fields

LEMMA SeenType == Inv => Seen = [f \in Fields |-> Seen[f]]
BY DEF Inv, Types, Seen, Fields

LEMMA CheckExpectedInv == Inv /\ CheckExpected => Inv'
<1> SUFFICES ASSUME Inv, CheckExpected PROVE Inv'
  OBVIOUS
<1>1. /\ pc = "expected" /\ state' = Seen
      /\ UNCHANGED <<page, moves, everShown, streak, fired, polls, matches>>
      /\ \/ outcome' = "expected" /\ pc' = "done"
         \/ outcome' = outcome /\ pc' = "rules"
  BY DEF CheckExpected, pageVars
<1>2. Types'
  BY <1>1, SeenType DEF Inv, Types, Polling
<1>3. StillMeansRead'
  <2>1. moves = 0 => Seen = page
    BY <1>1, SeenIsPage DEF Inv, StillMeansRead
  <2> QED
    BY <1>1, <2>1 DEF StillMeansRead
<1>4. ShownOrSettled'
  <2>1. (\A f \in {"url", "text", "heading"} : state[f] = page[f]) => Seen = page
    BY SeenIsPage
  <2>2. pc' = "rules" => ReadSoFar' = {"url", "text", "heading"}
    BY DEF ReadSoFar
  <2>3. ReadSoFar = {"url", "text", "heading"}
    BY <1>1 DEF ReadSoFar
  <2> QED
    BY <1>1, <2>1, <2>2, <2>3 DEF Inv, ShownOrSettled, Polling
<1> QED
  BY <1>1, <1>2, <1>3, <1>4
  DEF Inv, StreakIsLatest, LateAfterTimeout, StreakBegins, RecognizedTwice, RecognizedWasShown,
      SteadyStateRecognized, Polling

LEMMA CheckRulesInv == Inv /\ CheckRules => Inv'
<1> SUFFICES ASSUME Inv, CheckRules PROVE Inv'
  OBVIOUS
<1> DEFINE match == FirstMatch(Seen)
<1>1. /\ pc = "rules" /\ outcome = "waiting" /\ fired = NoRule
      /\ UNCHANGED <<page, moves, shown, everShown>>
      /\ state' = Seen /\ streak' = NextStreak(match) /\ Matched(match)
      /\ polls' = IF polls < DeadlinePolls THEN polls + 1 ELSE polls
  BY DEF CheckRules, Inv, StreakIsLatest, Polling, pageVars
<1>2. \/ streak'.length >= 2 /\ outcome' = "recognized" /\ fired' = match /\ pc' = "done"
      \/ streak'.length < 2 /\ outcome' = "timeout" /\ fired' = fired /\ pc' = "last_url"
      \/ streak'.length < 2 /\ outcome' = outcome /\ fired' = fired /\ pc' = "sleep"
  BY DEF CheckRules, RULE_CONFIRMATIONS, resultVars
<1>3. match \in RuleIds \cup {NoRule} /\ (match # NoRule => Holds(Rules[match], Seen))
  BY FirstMatchHolds
<1>4. /\ matches' \in (RuleIds \cup {NoRule}) \X (RuleIds \cup {NoRule})
      /\ matches' = <<matches[2], match>>
  BY <1>1, <1>3 DEF Matched, Inv, Types
<1> HIDE DEF match
<1>5. streak.length \in {0, 1} /\ streak.rule \in RuleIds \cup {NoRule}
  BY <1>1 DEF Inv, Types, StreakIsLatest, Polling
<1>6. \/ match = NoRule /\ streak' = [rule |-> NoRule, length |-> 0]
      \/ match # NoRule /\ streak' = [rule |-> match, length |-> 1]
         /\ ~(streak.rule = match /\ streak.length = 1)
      \/ match # NoRule /\ streak' = [rule |-> match, length |-> 2]
         /\ streak.rule = match /\ streak.length = 1
  BY <1>1, <1>5 DEF NextStreak, NoStreak
<1>7. Types'
  <2>1. polls' \in Nat
    BY <1>1 DEF Inv, Types
  <2>2. streak' \in [rule : RuleIds \cup {NoRule}, length : 0 .. 2]
    BY <1>3, <1>6
  <2> QED
    BY <1>1, <1>2, <1>4, <2>1, <2>2, SeenType DEF Inv, Types, Polling
<1>8. StreakIsLatest'
  BY <1>1, <1>2, <1>4, <1>6 DEF StreakIsLatest, Polling
<1>9. moves = 0 => Seen = page
  BY <1>1, SeenIsPage DEF Inv, StillMeansRead
<1>10. ShownOrSettled'
  <2> SUFFICES ASSUME pc' = "sleep", streak'.length = 1, moves <= 1
               PROVE  \/ \E p \in everShown : Holds(Rules[streak'.rule], p)
                      \/ moves = 1 /\ ReadSoFar' = {}
    BY <1>1, <1>2 DEF ShownOrSettled, Polling
  <2>1. CASE moves = 0
    BY <1>3, <1>6, <1>9, <2>1 DEF Inv, Types
  <2>2. CASE moves = 1
    BY <2>2 DEF ReadSoFar
  <2> QED
    BY <2>1, <2>2 DEF Inv, Types
<1>11. StreakBegins'
  BY <1>1, <1>2, <1>6, <1>9 DEF StreakBegins, Polling, match
<1>12. RecognizedTwice'
  <2> SUFFICES ASSUME outcome' = "recognized" PROVE matches' = <<fired', fired'>>
    BY DEF RecognizedTwice
  <2>1. streak.rule = match /\ streak.length = 1 /\ fired' = match
    BY <1>1, <1>2, <1>6
  <2>2. matches[2] = match
    BY <1>1, <2>1 DEF Inv, StreakIsLatest, Polling
  <2> QED
    BY <1>4, <2>1, <2>2
<1>13. RecognizedWasShown'
  <2> SUFFICES ASSUME outcome' = "recognized", moves <= 1
               PROVE  \E p \in everShown : Holds(Rules[fired'], p)
    BY <1>1 DEF RecognizedWasShown
  <2>1. streak.rule = match /\ streak.length = 1 /\ fired' = match /\ match # NoRule
    BY <1>1, <1>2, <1>6
  <2>2. CASE \E p \in everShown : Holds(Rules[match], p)
    BY <2>1, <2>2
  <2>3. CASE \A f \in ReadSoFar : state[f] = page[f]
    <3>1. Seen = page
      BY <1>1, <2>3, SeenIsPage DEF ReadSoFar
    <3> QED
      BY <1>3, <2>1, <3>1 DEF Inv, Types
  <2> QED
    BY <1>1, <2>1, <2>2, <2>3 DEF Inv, ShownOrSettled, Polling
<1>14. SteadyStateRecognized'
  <2> SUFFICES ASSUME outcome' = "timeout", moves = 0, FirstMatch(page) # NoRule
               PROVE  polls' < 2
    BY <1>1 DEF SteadyStateRecognized, RULE_CONFIRMATIONS
  <2>1. match = FirstMatch(page) /\ streak'.length < 2
    BY <1>1, <1>2, <1>9 DEF match
  <2>2. polls = 0
    BY <1>1, <1>6, <2>1 DEF Inv, StreakBegins, Types, Polling
  <2> QED
    BY <1>1, <2>2, BoundsAssumption
<1> QED
  BY <1>1, <1>2, <1>7, <1>8, <1>9, <1>10, <1>11, <1>12, <1>13, <1>14
  DEF Inv, LateAfterTimeout, StillMeansRead

LEMMA SleepInv == Inv /\ Sleep => Inv'
<1> SUFFICES ASSUME Inv, Sleep PROVE Inv'
  OBVIOUS
<1>1. /\ pc = "sleep" /\ pc' = "url"
      /\ UNCHANGED <<page, moves, everShown, state, streak, outcome, fired, polls, matches>>
  BY DEF Sleep, pageVars, resultVars
<1>2. ReadSoFar = {} /\ ReadSoFar' = {}
  BY <1>1 DEF ReadSoFar
<1> QED
  BY <1>1, <1>2
  DEF Inv, Types, StreakIsLatest, LateAfterTimeout, StillMeansRead, ShownOrSettled, StreakBegins,
      RecognizedTwice, RecognizedWasShown, SteadyStateRecognized, Polling

LEMMA LastLookInv == Inv /\ LastLook => Inv'
<1> SUFFICES ASSUME Inv, LastLook PROVE Inv'
  OBVIOUS
<1> DEFINE match == FirstMatch(Seen)
<1>1. /\ pc = "last_rules" /\ pc' = "done" /\ outcome = "timeout"
      /\ outcome' \in {"timeout", "recognized_late"} /\ fired' = match
      /\ Matched(match) /\ state' = Seen
      /\ UNCHANGED <<page, moves, everShown, streak, polls>>
  BY DEF LastLook, Inv, LateAfterTimeout, pageVars
<1>2. matches' \in (RuleIds \cup {NoRule}) \X (RuleIds \cup {NoRule})
  BY <1>1, FirstMatchHolds DEF Matched, Inv, Types
<1>3. Types'
  BY <1>1, <1>2, SeenType DEF Inv, Types, Polling
<1> QED
  BY <1>1, <1>3
  DEF Inv, StreakIsLatest, LateAfterTimeout, StillMeansRead, ShownOrSettled, StreakBegins,
      RecognizedTwice, RecognizedWasShown, SteadyStateRecognized, Polling

LEMMA MoveInv == Inv /\ Move => Inv'
<1> SUFFICES ASSUME Inv, Move PROVE Inv'
  OBVIOUS
<1>1. /\ pc # "done" /\ page' \in Pages /\ moves' = moves + 1
      /\ everShown' = everShown \cup {page'}
      /\ UNCHANGED <<pc, state, streak, outcome, fired, polls, matches>>
  BY DEF Move, resultVars
<1>2. moves \in Nat /\ moves' # 0
  BY <1>1 DEF Inv, Types
<1>3. Types'
  BY <1>1, <1>2 DEF Inv, Types
<1>4. ShownOrSettled'
  <2> SUFFICES ASSUME pc \in Polling, streak.length = 1, moves' <= 1
               PROVE  \E p \in everShown' : Holds(Rules[streak.rule], p)
    BY <1>1 DEF ShownOrSettled
  <2>1. moves = 0
    BY <1>1, <1>2
  <2> QED
    BY <1>1, <2>1 DEF Inv, ShownOrSettled
<1>5. RecognizedWasShown'
  BY <1>1, <1>2 DEF Inv, RecognizedWasShown
<1> QED
  BY <1>1, <1>2, <1>3, <1>4, <1>5
  DEF Inv, StreakIsLatest, LateAfterTimeout, StillMeansRead, StreakBegins, RecognizedTwice,
      SteadyStateRecognized

-----------------------------------------------------------------------------

THEOREM Invariance == Spec => []Inv
<1>1. Inv /\ UNCHANGED vars => Inv'
  <2> SUFFICES ASSUME Inv, UNCHANGED vars PROVE Inv'
    OBVIOUS
  <2>1. ReadSoFar' = ReadSoFar
    BY DEF vars, ReadSoFar
  <2> QED
    BY <2>1
    DEF vars, Inv, Types, StreakIsLatest, LateAfterTimeout, StillMeansRead, ShownOrSettled,
        StreakBegins, RecognizedTwice, RecognizedWasShown, SteadyStateRecognized
<1>2. Inv /\ [Next]_vars => Inv'
  BY <1>1, SnapshotInv, CheckExpectedInv, CheckRulesInv, SleepInv, LastLookInv, MoveInv
  DEF Next, Poll
<1> QED
  BY InitInv, <1>2, PTL DEF Spec

\* A rule that ends the wait was the first match of two polls in a row.
THEOREM TwiceInARow == Spec => []RecognizedTwice
BY Invariance, PTL DEF Inv

\* Two polls make torn snapshots harmless: where the page changed at most once
\* during the wait, what a rule recognized was really shown.
THEOREM WhatWasShown == Spec => []RecognizedWasShown
BY Invariance, PTL DEF Inv

\* A known state that stays is recognized and never times out, if there was time
\* for two polls.
THEOREM SteadyStates == Spec => []SteadyStateRecognized
BY Invariance, PTL DEF Inv
=============================================================================
