# A TLA+ verification of interfaceai

`interfaceai` automates a bank's browser application. A *discovery* run lets a
language model work through a task once, under a policy and with human operators
at hand, and records it as a *capability artifact*. A *replay* run repeats the
artifact with new inputs, deterministically: it checks conditions before and
after each step, applies rules for known states, and turns to an operator when
it cannot or may not go on. A demonstration application (a teller workstation)
comes with it.

This directory models the parts of the program that decide, wait, retry, share
control and carry values from one run to the next. TLC checks the models on
small instances. TLAPS proves most of the safety properties for every instance:
those of the handoff between automation and humans, of the replay executor and
of the two composed, of discovery, waits, policy, parameters and of the
demonstration application.

1. [Inventory](#1-inventory) - 2. [Modules and runs](#2-modules-and-runs) -
3. [Correspondence to the code](#3-correspondence-to-the-code) -
4. [Fairness](#4-fairness) - 5. [Proofs](#5-proofs) -
6. [Where the code and its documents disagree](#6-where-the-code-and-its-documents-disagree) -
7. [Not modelled](#7-not-modelled) - 8. [Plan](#8-plan)

## 1. Inventory

| Part | State | Operations | Talks to |
|---|---|---|---|
| Session (`app/escalation/session.py`) | session state, owner derived from it | `transition` and its named forms, `authorize`, `complete`; `OwnedSurface` asks for ownership before each mutating call | escalation manager, surface |
| Escalation manager (`app/escalation/manager.py`) | interventions with status, log and waiter; `pause_requested`; `proxied_action_in_progress`; latest observation | `request` (blocks the run), `take_control`, `release`, `approve`, `abort`, `request_pause`, `perform_human_action`, `record_browser_action` | session, surface, console, both kinds of run |
| Operator console (`app/api/operator.py`), human recorder | none of their own | HTTP handlers and browser events, in any order | escalation manager |
| Replay executor (`app/replay/executor.py`) | position, approved steps, attempts of rules, completed steps, outputs | `replay`, step by step, with retry, recovery, escalation, approval, pause, final checkpoint | surface, policy, rules, escalation manager |
| Rules and waits (`app/replay/rules.py`, `checkpoints.py`, `app/automation/waits.py`) | streak of the latest match, deadline | `wait_for_expected_state`, `first_match`, `snapshot_state` | surface |
| Locator resolver (`app/automation/locators.py`) | streak of ambiguous passes, deadline | `resolve` | surface |
| Policy (`app/safety/policy.py`) | none (configuration) | `evaluate` | both kinds of run |
| Agent loop (`app/agent/loop.py`) | observation, step index, repetition and rejection counters | `discover`: observe, known states, decide, act, reject, escalate, finish | planner, policy, recorder, escalation manager |
| Recorder, schema (`app/agent/recorder.py`, `app/artifacts/schema.py`) | recorded steps, output types | `record`, `canonicalize`, `build_artifact`, `verify_target_spec`, validation | agent loop |
| Parameters (`app/artifacts/params.py`), redaction (`app/safety/redaction.py`) | the known secrets | `find_placeholders`, `substitute`, `validate_inputs`; `redact_text` | recorder, loop, executor, events |
| Wiring (`app/orchestration.py`, `app/automation/browser.py`) | browser, console server | `run_replay`, `run_discovery`, `launch_surface` | all of the above |
| Planner (`app/agent/planner.py`), events and evidence, Playwright, command line | see [Not modelled](#7-not-modelled) | | |
| Demonstration application (`demo_app/`) | sessions with a pending request and a last confirmation, accounts, fault flags | HTTP handlers behind a middleware | a browser with several tabs |

A run, its operator console and the browser's callbacks share one asyncio event
loop and one page. Control passes through the manager and the session; every
`await` is a place where others may run. What is hard to test:

* **Interleaving.** A console action is suspended while it resolves, acts and
  settles; control may be released, time out or be aborted meanwhile, and the
  run may end. Tabs of the demonstration share one session and one pending
  request.
* **Answers in every form.** Each request to a human may be approved, taken and
  released, aborted, timed out, or find nobody there; after a release the page
  may be before, after, or far beyond the step.
* **Ways round a loop.** Retries of a step, recoveries of several rules and the
  retry after a hand-off go round the same `while True`.
* **Pages that change while they are read.** A snapshot is three reads, a
  resolution dozens.
* **Judgement on one state, action on another.** Decisions are judged by an
  earlier observation; recorded risk classes meet another policy file.
* **Texts inside texts.** Values are looked for in what was typed and shown, and
  put back into it later: they may overlap, contain one another, look like a
  placeholder, or be a character short of a limit.

For each part, what makes it correct: nobody acts without control, and control
always comes back (handoff); every step is accounted for once, success is
earned, refusals are final, retries are bounded (replay); what the executor
believes of approvals is in the manager's records, and the browser outlives
whoever uses it (the two together); a rule ends a wait only if it really held,
and a state that stays is seen (waits); the answer does not depend on loops, a
late page gets its time, what was verified at recording is found at replay
(locator); a confirmation survives recording (policy); the gate holds, the loop
notices repetition and ends, the recording is a path and a valid artifact
(discovery); parameterization changes nothing, values follow their inputs,
secrets stay inside (parameters); one submission opens one account, the
confirmation page shows its own (demonstration). The hazards, line by line, are
listed in `PROJECT.json`.

## 2. Modules and runs

| Module | What it is |
|---|---|
| `Session` | states, transitions, owners of a session: constant-level operators |
| `Handoff` | manager, session, surfaces, console actions and browser events over the shared page, with the run reduced to what it does to them; EXTENDS `Session` |
| `ControlHandoff` | the abstract specification of `Handoff`: one token of control |
| `ReplayExecutor` | the executor, with the page and the manager as nondeterministic answers |
| `CapabilityRun` | the abstract specification of `ReplayExecutor`: steps are accounted for forwards, then one outcome |
| `SupervisedReplay` | `ReplayExecutor` and `Handoff` as `run_replay` puts them together, within the lifetime of browser and console; INSTANCEs both |
| `Recorder` | what a step records, what an artifact keeps, when it is valid: constant-level operators |
| `Discovery` | the agent loop; EXTENDS `Recorder` |
| `Parameters` | texts with placeholders: `find_placeholders`, `substitute`, `canonicalize`, `redact` as operators |
| `Contract` | the life of an input value from the discovery that records it to a replay with another one; EXTENDS `Parameters` |
| `StateWait` | polling for a state, one read at a time |
| `LocatorResolver` | resolution of a target, one match at a time; `Promised`, the same answer defined without loops; `verify_target_spec`, the targets that are recorded |
| `PolicyEngine` | the policy's `evaluate`, in discovery, recording and replay |
| `LegacyCore` | the demonstration application |
| `MC...` | instances of these for TLC |
| `HandoffProofs`, `ReplayProofs`, `SupervisedProofs`, `DiscoveryProofs`, `ContractProofs`, `StateWaitProofs`, `RecordedStepProofs`, `LegacyProofs` | the theorems about these modules |

Definitions that begin with *Faulty* (or *A faulty ...*) in their comment are
plausible mistakes in the definition that follows them. `PROJECT.json` names, for
each property, one that breaks it: the run then finds a violation.

| Run | Shows | Bounds |
|---|---|---|
| `handoff` | `TypeOK`, `StatusMatchesSession`, `NoIllegalTransition`, `LogImpliesControl`, `OverlapOnlyAfterRelease`, `ResolvedForGood`, `HumanNeverStartsOverAutomation`, `PauseHonoured`, `ImplementsControlHandoff` | 2 interventions (a console action of the first may meet the second), 2 concurrent console actions (two of them share the flag and the page), 3 records; 3 kinds, one for each way the code treats them |
| `replay` | `StepsAccountedFor`, `SuccessIsEarned`, `RecoveriesWithinBudget`, `TriesWithinBudgets`, `RefusalIsFinal`, `ImplementsCapabilityRun` | commit - press - read: an irreversible step, one that may be retried and one that reads a value; a retry rule, a click rule and a business outcome, one attempt each, and one pause: every budget can run out, alone or after another. Three steps are what it takes to resume beyond the next step |
| `supervised` | `ApprovalOnRecord`, `OutcomeMatchesSession`, `BrowserOutlivesConsole`, `TornDown` | read - commit, one click rule, one pause, one console request, one record; 6 interventions, more than such a run can ask for, so that the bound is not met |
| `discovery` | `GateNeedsApproval`, `NoBlindRepetition`, `PathUnlessTouched`, `SoundRecordingIsValid`, `DiscoveryReturns` | 4 steps (the entry, two actions and the end, or three actions), 2 screens one of which shows an input, 6 decisions, the input also in a heading that may be expected, rules of each category, stuck after 2 and failed after 2 so that both limits are met; one pause or one move of the page |
| `contract` | `RoundTrip`, `FollowsItsInput`, `SubstitutionIsTotal`, `SecretsStayInside` | 2 inputs with 5 values that are below, at and above the limits (2 and 3 characters, instead of 3 and 4), overlap, contain a placeholder, or are the name of an input; up to 2 texts typed, opened or seen; at replay the same values or 2 others, all, some or none of the inputs, and 2 base URLs, one containing a value |
| `wait` | `RecognizedTwice`, `RecognizedWasShown`, `SteadyStateRecognized` | 5 pages that differ in one field or several, 2 rules, 4 polls, 3 changes: enough for a rule to match, stop matching and match again |
| `locator` | `AgreesWithPromise`, `RecordedTargetResolves`, `FailsEarlyOnlyOnTies` | 4 targets (with and without a scope, a fallback, a frame, coordinates) and those recorded of 3 controls, on every page on which each selector finds nothing, one, two alike, or one beside a hidden and a disabled one (3078 pages); 3 changes to 6 pages, 4 passes |
| `policy` | `ConfirmationSurvivesRecording`, `RuleOrderIsIrrelevant` | the rules of `policies/demobank.json` and a laxer set, in all 16 modes of a policy file, and every permutation of the rules; a click, a typing, a key press and navigations on each sort of page |
| `legacy` | `SubmissionOpensOnce`, `ConfirmationIsOwn`, `NoticeIsOneShot`, `OneTabOpensWhatWasReviewed` | 2 tabs, 2 members, a teller and a supervisor, 1 sign-in, and 2 events: two submissions, or a submission and a fault or a reset, or a fault and a reset. Tabs and members are symmetric |
| `replay_unapproved` | `IrreversibleNeedsApproval` is violated | commit - read, no pause, no business outcome |
| `replay_retried` | `IrreversibleNeverRetried` is violated | as `replay_unapproved` |
| `discovery_lost` | `FinishSavesArtifact` is violated | as `discovery`, without rules and disturbances |

What the passing runs say together:

* *Handoff.* However operator calls, console actions, browser events, timeouts
  and the run interleave, manager and session agree, no call meets a session
  that refuses it, human actions are recorded only in an intervention a human
  controlled, no human action begins over one of the automation's, the two
  overlap only after a release, and every request for help is closed: by
  somebody, or by the timeout.
* *Replay.* The page answers every check as it likes and the humans every
  question; still each step is verified or was done by a human, once and in
  order, `SUCCESS` needs the final checkpoint, and after a refusal nothing more
  happens on the page. The tries of a step are bounded by the *sum* of retry
  policy, recoveries and hand-off, and that alone makes the run end.
* *Replay under supervision.* With the real manager in place of its answers: an
  action that wants a human is taken only with an approval or a release of
  *this* step on record; result, session and interventions agree at the end;
  the run ends whatever humans do or fail to do, its console is stopped, and
  the browser is closed after the last request that uses it.
* *Discovery.* The model proposes anything at any time. The gate opens for an
  approval only (here a release is *not* enough, unlike in replay), repetition
  is noticed, and what is recorded continues where the step before it ended,
  unless something unrecorded touched the page.
* *Values.* Replayed with the values it was recorded with, an artifact types,
  opens and expects exactly the recorded texts, whatever these values contain;
  with others, what was typed as an input follows that input; no placeholder is
  left open; secrets that are long enough are in no artifact and no event. The
  first two need that no value occurs inside a placeholder (`NamesApart`).
* *Waits and locators.* Two polls in a row make torn snapshots harmless for one
  change of the page; resolutions that saw a page hold still agree with a
  definition that has no passes, streaks or early exits, and find the control
  that was verified while recording.

A passing run checks no deadlock where the system stops by design (a run that
has ended; a server nobody calls once the bounds are reached). Modules whose
`TypeOK` is not among the properties of a run document the types of their
variables by it; it holds in their runs as well.

## 3. Correspondence to the code

`PROJECT.json` maps each definition to the lines it stands for. In general:

* **`Handoff`.** `session` is `SessionController._state`; `status`, `kind`, `log`
  are fields of the interventions, `created` their number; `pause`, `proxied`
  are the manager's flags. `run` is the suspension point of the run: `entering`
  (before the first step), `boundary` (top of the step loop), `stepping`,
  `acting` (a mutation in flight), `judging`, `recovering`, `reporting`
  (`request` gathers evidence), `waiting` (on the waiter), `closing`, `over`.
  Reading the page (`RunReads`) needs no ownership. `call[c]` is the suspension
  point of a console action. A step is the code between two suspensions, so a
  handler without `await` is one action, `perform_human_action` is five. After
  the waiter is set the run wakes later (`Wake`); until then others run.
* **`ReplayExecutor`.** `pc` is the place in `_run_step`; each check of the page
  may come out either way, each `request` may return any of its answers.
  `_handle_unexpected_state`, `_apply_rule`, `_fail_or_escalate` and
  `_after_handoff` are operators that the actions use, with every outcome the
  code distinguishes. An exception nobody catches leads to `crashed`; so does a
  control without an element, found by its coordinates, that is to be typed into
  or read (`actions.py:88`). The run's deadline is the `Abort` in `Top`.
* **`SupervisedReplay`.** Each action is one of the executor, one of the handoff,
  or both: a step of the executor that stays in Python is nothing to the handoff,
  one that asks a human begins an intervention there, and `Answered` is possible
  only with the answer that the manager's records give. `Follow` says what each
  move of `pc` is for `run`. `phase` is the progress of `run_replay`, which starts
  the console before its `try`, stops it in the `finally` (requests in progress
  are finished) and closes the browser last.
* **`Discovery`, `Recorder`.** One action for each stage of an iteration;
  `observed` is the observation the loop holds and `screen` what is there. A text
  is abstracted to the inputs whose value occurs in it and the names it writes as
  `${name}`; `Canonical` gives the placeholders it has after `canonicalize`, where
  values too short, or with names that no placeholder can have, stay as they are
  (`Short`). How values overlap in a text is the business of `Contract`. A step
  keeps the placeholders of its arguments, the screens of its page identities
  and, if the screen after it shows the heading the model expected, the
  placeholders of that heading. Names are compared with what the schema takes for
  an identifier, and with its reserved ones, in `Valid` only, as in the code.
  `Key` is what the stuck test compares.
* **`Parameters`, `Contract`.** A text is a sequence of characters, in which `${`
  and `}` count as one each. `Pass` is one pass over a text from left to right, of
  which `str.replace` (`Replace`) and `re.sub` (`substitute`) are two: what each
  position puts out, and where the pass goes on. `ReplaceEach` does replacements one
  after the other. The redactor's secrets come out of a Python set, sorted by length
  only, so equally long ones are in any order (`Orders`). `recorded` keeps the texts of typed values, URLs and derived conditions; `source` and `seen`, what
  the model wrote and what was on the page, are history.
* **`StateWait`, `LocatorResolver`.** Each awaited read is a step; `Move` changes
  the page between any two. The deadline may have expired at every look at it,
  and has at `DeadlinePolls` (`DeadlinePasses`). The targets recorded of a control
  are those `verify_target_spec` accepts on the page where they were made, from
  descriptors that find the control they describe (`Describes`).
* **`PolicyEngine`.** `Classify` goes through the rules in their order and keeps
  the first of a strictly higher class, as the code's loop does. `Discover`,
  `Record`, `Replay` follow one action; between recording and replay, the policy
  file, the page, the inputs and what the recording kept of the target may change.
* **`LegacyCore`.** A request is taken by the middleware (`Admit`) and, later, by
  its handler; `flags` keeps every `InjectionFlags` object made, since a request
  under way holds on to the one it found. A redirect is followed with the cookie
  that the browser has by then. The answer to a click is shown in its tab or in a
  new one.

History variables (marked in the modules) record what properties need and
influence nothing.

## 4. Fairness

* `Handoff`: weak fairness of the run. Its awaits are Playwright calls with
  timeouts and `asyncio.wait_for` with `escalation_timeout_s`; the event loop runs
  whatever is ready. Operators, console actions and pauses are not fair: humans
  may never answer. Hence `TimeOut` is what closes an unanswered request.
* `ReplayExecutor`, `Discovery`: weak fairness of the loop, for the same reason.
  The deadlines of both may or may not have come at the top of a step (`Top`),
  so termination is shown to follow from the budgets alone.
* `SupervisedReplay`: weak fairness of the run, of `run_replay`, and of each
  console request under way (it is a chain of Playwright calls with timeouts).
  Nothing is assumed of humans. `TornDown` needs the third: the server waits for
  requests in progress.
* `StateWait`, `LocatorResolver`: weak fairness of the polling; the page need not
  change, and need not hold still.
* `PolicyEngine`, `LegacyCore`, `Contract`: safety only.

## 5. Proofs

Eight modules hold the proofs, for every value of the constants that satisfies
the assumptions in the modules (bounds are natural numbers, the kinds the code
treats specially are among the kinds, and the like). `PROJECT.json` lists the
theorems; in most modules `Invariance` is the inductive invariant that the others
follow from. None of the properties is inductive by itself.

**`HandoffProofs`** (`TypeCorrect`, `SessionAgrees`, `OneOpen`, `AutomationOwns`,
`TransitionsLegal`, `LogsAreOfHumans`, `OverlapNeedsRelease`, `ResolutionIsFinal`,
`HumanStartsAlone`, `Refinement`). That manager and session agree survives an
operator's call only because the intervention it names is the one the run waits
for, and survives the run's next request only because nothing is open while the
run works. `Inv` ties everything to the place where the run is suspended:
exactly the interventions up to `created` exist (`Numbered`); only the latest one
may be open, and only while the run waits (`OpenIsCurrent`); the session is what
`SessionOf` gives for it (`InStep`); records, *and console actions that will leave
one*, belong to interventions a human has controlled (`LogsControlled`); a refusal
ends the session (`RefusalEnds`). `Refinement` is `Spec => Abstract!Safety`: each
step is one of `ControlHandoff`, or none.

**`ReplayProofs`** (`TypeCorrect`, `AllStepsAccountedFor`, `SuccessWasEarned`,
`RefusalsAreFinal`, `BudgetsKept`, `RecoveriesReported`, `TriesBounded`,
`Refinement`). `Accounted` is the exact form of the property: at every place the
verified steps and those of a human are disjoint and together the steps up to the
current position. `Placed` says which positions and results are possible where.
`RulesWithinBudget` bounds the recoveries of each rule; `RecoveriesCharged` says that
what is reported is the sum of these, so `RecoveriesReported` bounds it by the sum
of the rules' budgets. For `TriesBounded` the tries of a step are charged to what
pays for them: the first try, the retry policy, a recovery or a hand-off
(`Budgeted`, with `Spent`). Sums are folds over finite sets; that one exists, does
not depend on an order, and grows by one with one of its terms (`TotalOf`,
`TotalOneMore`) is shown by taking a least counterexample. `Kept` is all of these
together, which `SupervisedProofs` uses.

**`SupervisedProofs`** (`Composition`, `ExecutorComposition`, `HandoffHolds`,
`ExecutorHolds`, `RunsCapability`, `PassesControl`, `ApprovalsAreOnRecord`,
`BrowserClosesLast`, `OutcomesMatch`). Every step of the composed system is a step of
`Handoff` or leaves it alone, and a step of `ReplayExecutor` or leaves that alone
(the two composition theorems). Hence what is proved of each part, with the other
one abstracted to any answer at all, holds of the whole: the safety properties of
the manager (`HandoffHolds`) and of the executor (`ExecutorHolds`), and that the
whole implements both abstract specifications (`PassesControl`, `RunsCapability`).
On top of it: a step counts as approved by the executor only if an intervention
for it was answered so, which nothing changes afterwards; a request on the page
keeps the server from stopping; and the ways a run ends are matched with what the
manager saw.

**`DiscoveryProofs`** (`GatesHold`, `RepetitionIsBounded`, `RecordingIsAPath`,
`SoundRecordingsAreValid`). The loop counts equal *proposals*, the property is about
what was *carried out*: `CountInv` says that each repetition was counted before it
was carried out, and that one proposal is decided on between two performances.
`PathInv`: as long as nothing unrecorded touched the page, the loop sees the page
as it is and where the last step left it. `IndexInv` says that no
step number is given twice. `SoundRecordingsAreValid` has two sorts of hypotheses,
and both are needed: *names* - the schema looks at the names of inputs, outputs and
capability, and a run is not refused one before it ends (`schema.py:569`) - and
*placeholders* - every placeholder of an argument is one of an input, and every
one of a URL or of an expected heading is also one of an argument. The second is
what `discovery_lost` violates: `_used_inputs` does not look at conditions. Then
what is declared is what is referred to, and each output names the step that
read it.

**`ContractProofs`** (`TypeCorrectness`, `NothingIsUnbound`, `TypedInputsFollow`,
`SecretsAreKept`, `RecordingsRoundTrip`). `ContractInv` says, phase by phase, what
has been recorded, declared and sent, and that each is what the functions of
`Parameters` make of what was there before. `NothingIsUnbound`: what `Build` admits
(every placeholder is declared, those of conditions included) and what
`validate_inputs` admits (every declared input is given) meet in the same set of
names. The others rest on lemmas about these functions, for texts of any length.
A pass is a recursive function from the end of the text to its beginning;
`PassUnfolds` gives its equation by induction downwards, and everything else follows
from what the pass does at one position: a value that is replaced occurs no more
(`ReplacedIsGone`), replacements by placeholders and [REDACTED] make no text that
was not there (`NothingNewOccurs`), what is copied or put in is found again where it
stands (`StandsInRest`, `StandsInFirst`), and so `substitute` undoes every
replacement of `canonicalize`, one by one (`ReplacedSubstitutes`, `EachIsRestored`).

`SecretsAreKept` has the hypothesis `PlainSecrets`, `RecordingsRoundTrip` has
`PlainTexts`: no value that is looked for contains `${`, `}` or [REDACTED], and, for
the second, no text typed or seen looks like a placeholder. Without them the
theorems are false of the code, in cases that nobody enters by accident: a secret
that itself contains a placeholder may come into being when another value is
replaced by that placeholder; a secret that contains the word [REDACTED] may come
into being when another one is redacted; a shorter value that contains the placeholder of a
longer one is replaced around it (`a` = `123456`, `b` = `1${a}`); and a text that looks
like a placeholder is substituted as one. TLC checks `RoundTrip` and
`SecretsStayInside` without these hypotheses on the small values of `Contract.cfg`.

**`StateWaitProofs`** (`TwiceInARow`, `WhatWasShown`, `SteadyStates`). The streak counts
the latest polls with one first match; where a rule was first seen, the page
showed it then or had already settled, if it changed at most once; a state that
stays is matched from the next poll on. That `first_match` has an answer is the
existence of a least number, taken from the well-foundedness of the naturals.

**`RecordedStepProofs`** (`ConfirmationsSurvive`, `OrderIrrelevant`; `FailsOnlyOnTies`,
`ResolverKeepsPromise`, `RecordedResolves`). What a recorded step carries. *Its risk
class*: what was confirmed was recorded as irreversible, and a replay that proposes
this class is asked for a confirmation again or refused, under whatever policy
file. `OrderIrrelevant`: after each rule the loop has kept a rule of the strictest
class among those that matched so far, and the class alone counts; this goes by
induction over the rules (`ClassifyIs`), and a permutation has the same rules
(`ReorderedClass`). The number of rules is any. *Its target*:
`Scanned` relates the nested loops of a pass to `Promised`, the definition without
loops: on a page that held still since the pass began, what has been tried could
not have decided the resolution. `AtOnce` is about a recorded
target: as long as the page is the one of the recording, no pass ends without a
decision, since what is recorded decides there (`RecordedDecides`), and what is
identified on any page that the control's description fits is the control
(`IdentifiesTheControl`). `RecordedResolves` has the hypothesis `ContainersShown`: a
control that can be seen is in a container that can be seen. With a hidden form the
theorem is false of the resolver as modelled: the scope recorded for a control in
it then finds another form, since hidden elements are not counted, and there
another control of the same description (`recorder.py:94`). DOM allows this (a
visible child of a hidden parent), the demonstration does not do it.

**`LegacyProofs`** (`OpensOnce`, `ConfirmsItsOwn`, `NoticeShownOnce`,
`OneTabOpensTheReviewed`). Each submitted form is in one place: with the request that
carries it, pending in one session, or opened (`InOnePlace`); removing the pending
request before the account is opened is what keeps it so. Every link to a
confirmation, shown or under way, names an account of its own member. Notices
shown and waiting are counted over every flags object, the discarded ones
included, which requests under way still hold. The last theorem has the hypothesis
`NoneIsNoRecord`: the value that stands for Python's `None` is no record.

Only model-checked: liveness (`PauseHonoured`, `TornDown`, `DiscoveryReturns`, the
liveness half of `ImplementsControlHandoff` and `ImplementsCapabilityRun`), since TLAPS
handles neither liveness under fairness nor ENABLED. Every other property that a
passing run checks is stated by a theorem, two of them (`RoundTrip`,
`SecretsStayInside`) and `RecordedTargetResolves` under the hypotheses above.

## 6. Where the code and its documents disagree

Three runs end in a counterexample; the findings in `PROJECT.json` quote the lines.

1. `replay_unapproved`: in answer to a request for approval, taking control and
   releasing it without doing the step lets automation take the irreversible
   action (`executor.py:288` against `README.md:281`).
2. `replay_retried`: after a recovery rule an irreversible action that was
   executed is executed again (`executor.py:284` against `README.md:281`).
3. `discovery_lost`: an input that shows in a URL but was never typed is dropped,
   the artifact refers to it all the same, and the finished run crashes
   (`recorder.py:304` against `README.md:4`).

Further statements are kept at the end of the modules under *What the documents
say* (or the like). Each is violated in the instance named: put it in place of
the properties of that configuration to see how.

| Statement | Configuration | What happens |
|---|---|---|
| `OneActorAtATime` | `Handoff.cfg` | ownership is checked before an action is awaited, so a console action still in flight when control is released overlaps with the resumed automation (`session.py:185`, `session.py:3`). `OverlapOnlyAfterRelease` is what holds |
| `ProxiedWhileConsoleActs` | `Handoff.cfg` | the first of two concurrent console actions to finish clears the flag the other needs (`manager.py:304`, `manager.py:157`) |
| `OnlyPendingTimesOut` | `Handoff.cfg` | the timeout also ends an intervention under human control (`manager.py:222`, `manager.py:8`) |
| `EveryActionRecorded` | `Handoff.cfg` | a console action was carried out and the page cannot be read while it settles: nothing is recorded (`manager.py:298`, `REPORT.md:57`) |
| `PolicyBeforeEveryAction` | `Replay.cfg` | a recovery click is not put to the policy (`executor.py:524`, `REPORT.md:65`) |
| `AlwaysAResult` | `Replay.cfg` | errors of a recovery click or of the entry navigation escape `replay` (`executor.py:521`), as does the assertion that a control to type into or to read has an element, when it was found by coordinates (`actions.py:88`) |
| `SuccessHasItsOutputs` | `Replay.cfg` with `Step <- MCReadFirst`, `N = 2` | a hand-off that resumes beyond an extraction ends in SUCCESS without the output (`executor.py:811`, `schema.py:490`) |
| `ConsecutiveRejections` | `Discovery.cfg` | rejections with accepted waits in between add up (`loop.py:442`, `loop.py:639`) |
| `StuckMeansUnchanged` | `Discovery.cfg` | after a rejection nothing observes the page again (`loop.py:642`, `loop.py:360`) |
| `EchoesKept` | `Discovery.cfg` | an echoed input no step uses is dropped with its output (`recorder.py:307`, `models.py:77`) |
| `ActsOnlyWhereAllowed` | `Discovery.cfg` with `admin` in `Screens` and `Denied` | the policy judges the URL observed before the decision (`loop.py:451`, `REPORT.md:65`) |
| `NeverLoggedNeverStored` | `Contract.cfg` | a secret shorter than the limits stays in the artifact and in the events (`recorder.py:162`, `schema.py:457`) |
| `BaseIsOverridable` | `Contract.cfg` | an input's value that occurs in the base URL is replaced first, and the URL no longer contains the base URL (`recorder.py:161`, `schema.py:512`) |
| `EveryOccurrenceFollows` | `Contract.cfg` | the longer value is replaced first, also where it begins in one value and ends in the next: `12` and `121`, typed side by side as `12121`, are recorded as the second input and `21` (`recorder.py:163`, `recorder.py:5`) |
| `ConfirmedBeforeItFires`, `SnapshotConsistent` | `Wait.cfg` | the last look after a timeout needs no second match (`executor.py:402`, `rules.py:26`); a snapshot may mix two pages (`checkpoints.py:60`, `checkpoints.py:132`) |
| `TiesAreAmbiguous`, `CoordinatesAreLast` | `Locator.cfg` | a fallback resolves after a tie of the primary spec (`locators.py:160`, `locators.py:10`); coordinates are offered though a structural selector matched several (`locators.py:199`, `locators.py:13`) |
| `StructuralMeansDrift` | `Locator.cfg` | a structural strategy also answers where a semantic one only matched several elements (`locators.py:175`, `locators.py:8`) |
| `ProposalNeverPermits` | `Policy.cfg` | where sensitive actions are blocked and irreversible ones need a confirmation, a proposal of the higher class turns the refusal into a confirmation (`policy.py:174`, `policy.py:4`) |
| `OpensWhatWasReviewed` | `Legacy.cfg` | a second tab replaces the pending request after the first one has reviewed it (`demo_app/main.py:381`) |

`ConfirmationIsOwn` is stated up to the first reset: a reset of everything gives the
numbers of accounts out a second time, and an old page may name a new account.

## 7. Not modelled

* **Time.** There are no clocks. A deadline is a choice: the one of a run may
  have expired at every check of it (`_check_run_deadline`, the `Abort` in `Top`)
  and never must; those of waits and resolutions are bounded by polls.
* **Playwright, DOM scripts, HTML, HTTP.** What they return is an oracle of the
  page or of the person in front of it.
* **Values beyond text.** `Contract` works on short texts over a small alphabet,
  with the limits scaled from 3 and 4 characters to 2 and 3. Of the types of
  inputs it has only what a recording declares, required text or digits: dates,
  choices, numbers with bounds, defaults and optional inputs are left out, and
  so is `parse_value` for outputs. Hand-written artifacts may have optional
  inputs without a default; a replay that leaves such an input out ends in a
  `ParameterError` nobody catches. The placeholders in the conditions of rules
  are not looked at by the schema, and neither by the model. The outputs of a
  replay are "read" or "not read".
* **Redaction by pattern or key.** Only known secrets are modelled; the patterns
  of personal data and the masking of dictionary keys are not.
* **Events, evidence, logging.** Written, never read back. There is no recovery
  from files, so a crash of the process loses the run, and nothing is to be
  modelled there.
* **The planner's retries.** The model answers or fails. Behind that are two
  nested bounded loops, over transport errors and over answers that cannot be
  parsed, that share no state with the rest.
* **`run_discovery` and the command line.** `run_discovery` is wired like
  `run_replay`, which is modelled; commands, settings and the printing of results
  build one run's objects and end.
* **Delays and heading variants** of the demonstration, which change timing and
  wording only.

## 8. Plan

The order followed, most important behaviour first.

1. `Session`, `Handoff`, `ControlHandoff`: control of the page, with proofs.
2. `ReplayExecutor`, `CapabilityRun`: the step machine, with proofs.
3. `Recorder`, `Discovery`: the loop and what it records, with proofs.
4. `StateWait`, `LocatorResolver`: reading a page that changes, with proofs.
5. `LegacyCore`: the application that both kinds of run are tested on, with proofs.
6. `PolicyEngine`: the life of a risk class, with proofs.
7. `SupervisedReplay`: the executor with the manager of `Handoff` instead of its
   answers, inside `run_replay`, with proofs; both parts' theorems hold of it.
8. `Parameters`, `Contract`, `verify_target_spec`: values and targets from recording
   to replay, with proofs.

What is left: the same composition for discovery
(`Discovery` with `Handoff`, inside `run_discovery`); the planner's two retry
budgets against the deadline of the run; typed inputs and outputs.
