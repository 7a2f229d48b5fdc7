------------------------------ MODULE StateWait ------------------------------
(***************************************************************************)
(* RuleEngine.wait_for_expected_state: polling for the expected state of a *)
(* step, or for a known runtime state, until a deadline; and the last look *)
(* at the rules that the executor takes when the wait was in vain.         *)
(*                                                                         *)
(* A poll is not atomic: the URL, the text and the headings of the page    *)
(* are read one after the other, elements are probed after that, and the   *)
(* page may change at any moment in between.                               *)
(***************************************************************************)
EXTENDS Integers, Sequences

CONSTANTS
    Pages,          \* the pages that may be shown: records with the fields below
    Expected,       \* the expected conditions
    Rules,          \* the rules in artifact order, each with the conditions of `when`
    DeadlinePolls,  \* the deadline has expired after this many polls at the latest
    MaxMoves        \* bound: how often the page changes during the wait

Fields == {"url", "text", "heading", "element"}

\* A condition asks for one value of one field to be there, or (text_absent,
\* element_hidden) not to be; the conditions of a list must all hold.
Holds(conditions, state) == \A c \in conditions : (state[c.field] = c.value) <=> c.present

ASSUME PagesAssumption == \A p \in Pages : p = [f \in Fields |-> p[f]]
ASSUME RulesAssumption == Len(Rules) \in Nat
ASSUME BoundsAssumption == DeadlinePolls \in Nat \ {0} /\ MaxMoves \in Nat

RuleIds == 1 .. Len(Rules)

NoRule == 0

VARIABLES
    pc,         \* the next read of the poll, or what comes after it
    page,       \* the page that is shown
    state,      \* what the poll has read so far
    streak,     \* the rule of the latest streak and its length
    outcome,    \* how the wait ended, or "waiting"
    fired,      \* the rule that ended it
    polls,
    moves,
    \* history
    shown,      \* pages shown since the poll began
    everShown,  \* pages shown since the wait began
    matches     \* what the poll before the latest one and the latest one matched first

vars == <<pc, page, state, streak, outcome, fired, polls, moves, shown, everShown, matches>>
pageVars == <<page, moves, shown, everShown>>
resultVars == <<outcome, fired>>

TypeOK ==
    /\ pc \in {"url", "text", "heading", "expected", "rules", "sleep", "last_url", "last_text",
               "last_heading", "last_rules", "done"}
    /\ page \in Pages
    /\ DOMAIN state = Fields
    /\ streak \in [rule : RuleIds \cup {NoRule}, length : 0 .. 2]
    /\ outcome \in {"waiting", "expected", "recognized", "timeout", "recognized_late"}
    /\ fired \in RuleIds \cup {NoRule}
    /\ polls \in 0 .. DeadlinePolls /\ moves \in 0 .. MaxMoves
    /\ shown \subseteq Pages /\ everShown \subseteq Pages
    /\ matches \in (RuleIds \cup {NoRule}) \X (RuleIds \cup {NoRule})

NoStreak == [rule |-> NoRule, length |-> 0]

Init ==
    /\ pc = "url" /\ page \in Pages /\ state = page
    /\ streak = NoStreak /\ outcome = "waiting" /\ fired = NoRule
    /\ polls = 0 /\ moves = 0
    /\ shown = {page} /\ everShown = {page} /\ matches = <<NoRule, NoRule>>

\* first_match: the first rule, in artifact order, that holds.
FirstMatch(s) ==
    IF \E r \in RuleIds : Holds(Rules[r], s)
    THEN CHOOSE r \in RuleIds :
             Holds(Rules[r], s) /\ \A q \in RuleIds : Holds(Rules[q], s) => r <= q
    ELSE NoRule

\* snapshot_state: three reads, each an await of its own.
Read(from, field, to) ==
    /\ pc = from
    /\ state' = [state EXCEPT ![field] = page[field]]
    /\ shown' = IF field = "url" THEN {page} ELSE shown
    /\ pc' = to
    /\ UNCHANGED <<page, moves, everShown, streak, resultVars, polls, matches>>

Snapshot ==
    \/ Read("url", "url", "text") \/ Read("text", "text", "heading")
    \/ Read("heading", "heading", "expected")
    \/ Read("last_url", "url", "last_text") \/ Read("last_text", "text", "last_heading")
    \/ Read("last_heading", "heading", "last_rules")

\* What the conditions see: the snapshot, and the elements as they are now.
Seen == [state EXCEPT !["element"] = page["element"]]

\* Faulty: one match is enough.
RULE_CONFIRMATIONS_one == 1

RULE_CONFIRMATIONS == 2

\* Faulty: a poll without a match, or with another one, does not end the streak.
NextStreak_sticky(match) ==
    IF match = NoRule THEN streak
    ELSE [rule |-> match, length |-> streak.length + 1]

\* Faulty: every match starts the streak anew.
NextStreak_forgetful(match) ==
    IF match = NoRule THEN NoStreak ELSE [rule |-> match, length |-> 1]

\* The streak goes on only if the same rule matches again.
NextStreak(match) ==
    IF match = NoRule THEN NoStreak
    ELSE [rule |-> match, length |-> IF streak.rule = match THEN streak.length + 1 ELSE 1]

\* The deadline is looked at on every poll that does not end the wait.
Expires(match) == TRUE

CheckExpected ==
    /\ pc = "expected"
    /\ IF Holds(Expected, Seen) THEN outcome' = "expected" /\ pc' = "done"
       ELSE UNCHANGED outcome /\ pc' = "rules"
    /\ state' = Seen
    /\ UNCHANGED <<pageVars, streak, fired, polls, matches>>

Matched(match) == matches' = <<matches[2], match>>

\* The rest of a poll: the rules, then the deadline, which may have expired on
\* any poll.
CheckRules ==
    /\ pc = "rules"
    /\ LET match == FirstMatch(Seen)
       IN  /\ streak' = NextStreak(match)
           /\ Matched(match)
           /\ \/ /\ streak'.length >= RULE_CONFIRMATIONS
                 /\ outcome' = "recognized" /\ fired' = match /\ pc' = "done"
              \/ /\ streak'.length < RULE_CONFIRMATIONS /\ Expires(match)
                 /\ outcome' = "timeout" /\ fired' = fired /\ pc' = "last_url"
              \/ /\ streak'.length < RULE_CONFIRMATIONS
                 /\ polls + 1 < DeadlinePolls \/ ~Expires(match)
                 /\ pc' = "sleep"
                 /\ UNCHANGED resultVars
    /\ state' = Seen
    /\ polls' = IF polls < DeadlinePolls THEN polls + 1 ELSE polls
    /\ UNCHANGED pageVars

Sleep ==
    /\ pc = "sleep"
    /\ pc' = "url"
    /\ UNCHANGED <<pageVars, state, streak, resultVars, polls, matches>>

\* _handle_unexpected_state: without a match the executor looks at the rules
\* once more, on a snapshot of its own, and applies the one that holds.
LastLook ==
    /\ pc = "last_rules"
    /\ LET match == FirstMatch(Seen)
       IN  /\ fired' = match
           /\ outcome' = IF match = NoRule THEN outcome ELSE "recognized_late"
           /\ Matched(match)
    /\ state' = Seen
    /\ pc' = "done"
    /\ UNCHANGED <<pageVars, streak, polls>>

Poll == Snapshot \/ CheckExpected \/ CheckRules \/ Sleep \/ LastLook

\* The page changes, by a navigation under way or a script.
Move ==
    /\ pc # "done"
    /\ moves < MaxMoves
    /\ page' \in Pages \ {page}
    /\ moves' = moves + 1
    /\ shown' = shown \cup {page'}
    /\ everShown' = everShown \cup {page'}
    /\ UNCHANGED <<pc, state, streak, resultVars, polls, matches>>

Next == Poll \/ Move

\* Every await of a poll is bounded.
Spec == Init /\ [][Next]_vars /\ WF_vars(Poll)

-----------------------------------------------------------------------------

\* A rule that ends the wait was the first match of two polls in a row.
RecognizedTwice == outcome = "recognized" => matches = <<fired, fired>>

\* Two polls are what makes a torn snapshot harmless: if the page changed at
\* most once during the wait, the state that a rule recognized was really shown.
RecognizedWasShown ==
    outcome = "recognized" /\ moves <= 1 => \E p \in everShown : Holds(Rules[fired], p)

\* A state that keeps being shown is recognized, never timed out: if the page
\* does not change, the wait was long enough for two polls, and the expected
\* state does not hold but a rule does, that rule ends the wait.
SteadyStateRecognized ==
    outcome = "timeout" /\ moves = 0 /\ FirstMatch(page) # NoRule => polls < RULE_CONFIRMATIONS

-----------------------------------------------------------------------------
(* What the documents say, for the runs that refute it.                    *)

\* rules.py: "A rule must match on this many consecutive polls before it fires".
ConfirmedBeforeItFires == fired # NoRule => matches = <<fired, fired>>

\* rules.py and checkpoints.py: "one consistent page snapshot".
SnapshotConsistent ==
    pc = "expected" => \E p \in shown : \A f \in Fields \ {"element"} : state[f] = p[f]
==============================================================================
