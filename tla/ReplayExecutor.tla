--------------------------- MODULE ReplayExecutor ---------------------------
(***************************************************************************)
(* One deterministic replay of a capability artifact: ReplayExecutor, the  *)
(* step loop with its preconditions, policy gate, target resolution,       *)
(* action, postconditions, runtime rules, recoveries, and hand-offs.       *)
(*                                                                         *)
(* The page is adversarial: every check of it may come out either way each *)
(* time it is made, every rule may match, every action may fail.  Nothing  *)
(* here depends on the page keeping still between two looks at it.         *)
(*                                                                         *)
(* The executor is one coroutine; pc says which call of it runs.  What the *)
(* operators do meanwhile is Handoff's business: here a request to them is *)
(* answered in one of the ways request() can return.                       *)
(***************************************************************************)
EXTENDS Integers, Sequences, FiniteSets, SequencesExt

CONSTANTS
    N,          \* number of steps of the artifact
    Step,       \* the steps, as far as the executor tells them apart
    Rules,      \* the runtime-condition rules of the artifact
    Rule,       \* what each rule does
    MaxPauses   \* bound: how often an operator asks for a pause

StepIds == 1 .. N

\* pre, post: the step has preconditions, postconditions; target: its action
\* needs a control; extracts: it reads an output; irreversible: its risk class;
\* attempts: retry_policy.max_attempts; escalates: on_error is ESCALATE.
StepSpec ==
    [pre : BOOLEAN, post : BOOLEAN, target : BOOLEAN, extracts : BOOLEAN,
     irreversible : BOOLEAN, attempts : Nat \ {0}, escalates : BOOLEAN]

RuleSpec ==
    [category : {"business_outcome", "recoverable", "hard_failure"},
     recovery : {"retry_step", "click"}, max_attempts : Nat \ {0}]

ASSUME SizeAssumption == N \in Nat \ {0} /\ MaxPauses \in Nat
ASSUME StepAssumption == Step \in [StepIds -> StepSpec]
ASSUME RuleAssumption == Rule \in [Rules -> RuleSpec]
ASSUME RulesFinite == IsFiniteSet(Rules)

VARIABLES
    pc,
    position,       \* steps accounted for; the current step is position + 1
    result,         \* ReplayStatus, "none" while the run goes on
    attended,       \* an operator console is attached; fixed for the run
    pause,          \* the manager's pause_requested
    pauses,         \* pauses asked for so far
    asking,         \* the kind of the request that is open
    confirm,        \* the policy decision on the current action wants a human
    attempts,       \* action_attempts of this call of _run_step
    ruleAttempts,   \* rule_attempts by step and rule
    approved,       \* approved_steps
    retried,        \* retried_after_handoff
    humanCompleted, \* human_completed
    recoveries,     \* recoveries applied
    extracted,      \* steps whose output was extracted
    \* history
    verified,       \* steps whose postconditions were seen to hold
    finalOk,        \* the final checkpoint was seen to hold
    refused,        \* a request was answered by abort, timeout or nobody
    evaluated,      \* the policy has evaluated the action about to be taken
    \* history of the current step
    granted,        \* a human has approved it
    acted           \* its action was executed since a human last answered

loopVars == <<position, attempts, granted, acted>>
humanVars == <<attended, pause, pauses>>
askVars == <<asking, refused>>
gateVars == <<confirm, approved, evaluated>>
recoveryVars == <<ruleAttempts, recoveries>>
doneVars == <<humanCompleted, verified>>
history == <<retried, finalOk>>
vars == <<pc, result, loopVars, humanVars, askVars, gateVars, recoveryVars,
          extracted, doneVars, history>>

ReplayStatus == {"SUCCESS", "BUSINESS_OUTCOME", "RECOVERABLE_EXHAUSTED",
                 "HARD_FAILURE", "ESCALATED"}

Ended == {"finishing", "done", "crashed"}

Pc == {"entry", "top", "pre", "policy", "resolve", "act", "post", "recovering",
       "asking", "handoff", "final"} \cup Ended

InterventionKind == {"operator_pause", "approval_required", "checkpoint_failed",
                     "target_unresolved"}

TypeOK ==
    /\ pc \in Pc
    /\ position \in 0 .. N
    /\ result \in ReplayStatus \cup {"none"}
    /\ attended \in BOOLEAN /\ pause \in BOOLEAN /\ pauses \in 0 .. MaxPauses
    /\ asking \in InterventionKind
    /\ confirm \in BOOLEAN /\ attempts \in Nat
    /\ ruleAttempts \in [StepIds \X Rules -> Nat]
    /\ approved \subseteq StepIds /\ retried \subseteq StepIds
    /\ humanCompleted \in Seq(StepIds)
    /\ recoveries \in Nat
    /\ extracted \subseteq StepIds /\ verified \subseteq StepIds
    /\ finalOk \in BOOLEAN
    /\ granted \in BOOLEAN /\ acted \in BOOLEAN
    /\ refused \in BOOLEAN /\ evaluated \in BOOLEAN

Init ==
    /\ pc = "entry" /\ position = 0 /\ result = "none"
    /\ attended \in BOOLEAN /\ pause = FALSE /\ pauses = 0
    /\ asking = "operator_pause" /\ confirm = FALSE /\ attempts = 0
    /\ ruleAttempts = [key \in StepIds \X Rules |-> 0]
    /\ approved = {} /\ retried = {} /\ humanCompleted = <<>>
    /\ recoveries = 0 /\ extracted = {}
    /\ verified = {} /\ finalOk = FALSE
    /\ granted = FALSE /\ acted = FALSE
    /\ refused = FALSE /\ evaluated = FALSE

current == position + 1

step == Step[current]

goto(l) == pc' = l

-----------------------------------------------------------------------------
(* Ways out of a call.  Each says what becomes of pc, result and loopVars.  *)

\* raise ReplayAbortError(status): replay() catches it and finishes.
Abort(status) ==
    /\ result' = status
    /\ goto("finishing")
    /\ UNCHANGED loopVars

Continue(l) == goto(l) /\ UNCHANGED <<result, loopVars>>

\* _run_step is left: on to another step, with all that belonged to this one gone.
GoOnAfter(n) ==
    /\ position' = n
    /\ attempts' = 0 /\ granted' = FALSE /\ acted' = FALSE
    /\ goto("top")
    /\ UNCHANGED result

StepDone == GoOnAfter(position + 1)

\* escalation.request(): the run is blocked until Answered.
Ask(kind) == asking' = kind /\ Continue("asking")

\* _fail_or_escalate.
FailOrEscalate(kind) ==
    IF step.escalates THEN Ask(kind) ELSE Abort("HARD_FAILURE") /\ UNCHANGED asking

\* A faulty budget: one recovery more than the rule allows.
ApplyRule_oneMore(r) ==
    LET key == <<current, r>>
    IN  CASE Rule[r].category = "business_outcome" ->
                 Abort("BUSINESS_OUTCOME") /\ UNCHANGED recoveryVars
          [] Rule[r].category = "hard_failure" ->
                 Abort("HARD_FAILURE") /\ UNCHANGED recoveryVars
          [] OTHER ->
                 /\ ruleAttempts' = [ruleAttempts EXCEPT ![key] = @ + 1]
                 /\ IF ruleAttempts[key] > Rule[r].max_attempts
                    THEN Abort("RECOVERABLE_EXHAUSTED") /\ UNCHANGED recoveries
                    ELSE /\ recoveries' = recoveries + 1
                         /\ Continue(IF Rule[r].recovery = "retry_step"
                                     THEN "top" ELSE "recovering")

\* A faulty budget: it is not kept.
ApplyRule_noBudget(r) ==
    CASE Rule[r].category = "business_outcome" ->
             Abort("BUSINESS_OUTCOME") /\ UNCHANGED recoveryVars
      [] Rule[r].category = "hard_failure" ->
             Abort("HARD_FAILURE") /\ UNCHANGED recoveryVars
      [] OTHER ->
             /\ UNCHANGED recoveryVars
             /\ Continue(IF Rule[r].recovery = "retry_step" THEN "top" ELSE "recovering")

\* _apply_rule: the budget is per step and rule.
ApplyRule(r) ==
    LET key == <<current, r>>
    IN  CASE Rule[r].category = "business_outcome" ->
                 Abort("BUSINESS_OUTCOME") /\ UNCHANGED recoveryVars
          [] Rule[r].category = "hard_failure" ->
                 Abort("HARD_FAILURE") /\ UNCHANGED recoveryVars
          [] OTHER ->
                 /\ ruleAttempts' = [ruleAttempts EXCEPT ![key] = @ + 1]
                 /\ IF ruleAttempts[key] + 1 > Rule[r].max_attempts
                    THEN Abort("RECOVERABLE_EXHAUSTED") /\ UNCHANGED recoveries
                    ELSE /\ recoveries' = recoveries + 1
                         /\ Continue(IF Rule[r].recovery = "retry_step"
                                     THEN "top" ELSE "recovering")

\* _handle_unexpected_state and _handle_unresolved: a rule that matches comes
\* first; otherwise the run fails or asks.
Unexpected(kind) ==
    \/ \E r \in Rules : ApplyRule(r) /\ UNCHANGED asking
    \/ FailOrEscalate(kind) /\ UNCHANGED recoveryVars

-----------------------------------------------------------------------------
(* replay(): before and after the steps.                                   *)

\* _prepare and _ensure_entry: invalid inputs, an incompatible artifact or a
\* forbidden URL end the run before it touches the page; a failing navigation
\* is an exception that nobody catches.
Enter ==
    /\ pc = "entry"
    /\ \/ Continue("top")
       \/ Continue("crashed")
       \/ Abort("HARD_FAILURE")
    /\ UNCHANGED <<humanVars, askVars, gateVars, recoveryVars, extracted, doneVars, history>>

\* The head of the step loop, with _check_run_deadline and _check_operator_pause.
Top ==
    /\ pc = "top"
    /\ IF position = N
       THEN Continue("final") /\ UNCHANGED <<pause, asking>>
       ELSE \/ Abort("HARD_FAILURE") /\ UNCHANGED <<pause, asking>>
            \/ /\ pause
               /\ pause' = FALSE
               /\ Ask("operator_pause")
            \/ ~pause /\ Continue("pre") /\ UNCHANGED <<pause, asking>>
    /\ UNCHANGED <<attended, pauses, refused, gateVars,
                   recoveryVars, extracted, doneVars, history>>

\* A faulty end: the final checkpoint is not looked at after a recovery.
FinalCheckpoint_lenient ==
    /\ pc = "final"
    /\ \/ finalOk' = TRUE /\ Abort("SUCCESS")
       \/ UNCHANGED finalOk /\ Abort(IF recoveries > 0 THEN "SUCCESS" ELSE "HARD_FAILURE")
    /\ UNCHANGED <<humanVars, askVars, gateVars, recoveryVars, extracted, doneVars,
                   retried>>

\* _verify_final_checkpoint.
FinalCheckpoint ==
    /\ pc = "final"
    /\ \/ finalOk' = TRUE /\ Abort("SUCCESS")
       \/ UNCHANGED finalOk /\ Abort("HARD_FAILURE")
    /\ UNCHANGED <<humanVars, askVars, gateVars, recoveryVars, extracted, doneVars,
                   retried>>

\* _finish.
Finish ==
    /\ pc = "finishing"
    /\ Continue("done")
    /\ UNCHANGED <<humanVars, askVars, gateVars, recoveryVars, extracted, doneVars, history>>

-----------------------------------------------------------------------------
(* _run_step.                                                              *)

\* A step without preconditions is ready at once.
CheckPreconditions ==
    /\ pc = "pre"
    /\ \/ Continue("policy") /\ UNCHANGED <<asking, recoveryVars>>
       \/ step.pre /\ Unexpected("checkpoint_failed")
    /\ UNCHANGED <<humanVars, refused, gateVars, extracted,
                   doneVars, history>>

\* A faulty gate: one approval opens it for the rest of the run.
EvaluatePolicy_once ==
    /\ pc = "policy"
    /\ \/ Abort("HARD_FAILURE") /\ UNCHANGED <<gateVars, asking>>
       \/ /\ confirm' \in IF step.irreversible THEN {TRUE} ELSE BOOLEAN
          /\ evaluated' = TRUE
          /\ IF confirm' /\ approved = {}
             THEN Ask("approval_required")
             ELSE Continue("resolve") /\ UNCHANGED asking
          /\ UNCHANGED approved
    /\ UNCHANGED <<humanVars, refused, recoveryVars, extracted,
                   doneVars, history>>

\* policy.evaluate: an irreversible step always wants a human; the page may
\* raise the class of any other, and may forbid it altogether.
EvaluatePolicy ==
    /\ pc = "policy"
    /\ \/ Abort("HARD_FAILURE") /\ UNCHANGED <<gateVars, asking>>
       \/ /\ confirm' \in IF step.irreversible THEN {TRUE} ELSE BOOLEAN
          /\ evaluated' = TRUE
          /\ IF confirm' /\ current \notin approved
             THEN Ask("approval_required")
             ELSE Continue("resolve") /\ UNCHANGED asking
          /\ UNCHANGED approved
    /\ UNCHANGED <<humanVars, refused, recoveryVars, extracted,
                   doneVars, history>>

Resolve ==
    /\ pc = "resolve"
    /\ \/ Continue("act") /\ UNCHANGED <<asking, recoveryVars, evaluated>>
       \/ /\ step.target
          /\ evaluated' = FALSE
          /\ Unexpected("target_unresolved")
    /\ UNCHANGED <<humanVars, refused, confirm, approved,
                   extracted, doneVars, history>>

\* perform_action: a SurfaceActionError is retried while the retry policy lets
\* it be; an extracted text that does not parse ends the run.  A target found by
\* its coordinates only, which the policy may allow for a safe action, has no
\* element: typing, selecting and extracting assert one.
Act ==
    /\ pc = "act"
    /\ evaluated' = FALSE
    /\ attempts' = attempts + 1
    /\ UNCHANGED <<position, granted>>
    /\ \/ /\ UNCHANGED <<acted, extracted>>
          /\ IF attempts + 1 < step.attempts
             THEN goto("top") /\ UNCHANGED result
             ELSE goto("finishing") /\ result' = "HARD_FAILURE"
       \/ /\ step.target /\ ~confirm
          /\ goto("crashed")
          /\ UNCHANGED <<result, acted, extracted>>
       \/ /\ acted' = TRUE
          /\ \/ /\ extracted' = IF step.extracts THEN extracted \cup {current} ELSE extracted
                /\ goto("post") /\ UNCHANGED result
             \/ /\ step.extracts
                /\ goto("finishing") /\ result' = "HARD_FAILURE"
                /\ UNCHANGED extracted
    /\ UNCHANGED <<humanVars, askVars, confirm, approved, recoveryVars, doneVars, history>>

\* A step without postconditions is done once it has acted.
CheckPostconditions ==
    /\ pc = "post"
    /\ \/ /\ verified' = verified \cup {current}
          /\ StepDone
          /\ UNCHANGED <<asking, recoveryVars>>
       \/ /\ step.post
          /\ Unexpected("checkpoint_failed")
          /\ UNCHANGED verified
    /\ UNCHANGED <<humanVars, refused, gateVars, extracted,
                   humanCompleted, history>>

\* A faulty recovery: the step is done once the click is.
Recover_trusting ==
    /\ pc = "recovering"
    /\ \/ Continue("crashed")
       \/ StepDone
    /\ UNCHANGED <<humanVars, askVars, gateVars, recoveryVars, extracted, doneVars, history>>

\* The click of a ClickRecovery: its errors are not caught; afterwards the step
\* is done if its postconditions hold, and tried again otherwise.
Recover ==
    /\ pc = "recovering"
    /\ \/ Continue("crashed") /\ UNCHANGED verified
       \/ step.post /\ verified' = verified \cup {current} /\ StepDone
       \/ Continue("top") /\ UNCHANGED verified
    /\ UNCHANGED <<humanVars, askVars, gateVars, recoveryVars, extracted,
                   humanCompleted, history>>

-----------------------------------------------------------------------------
(* Requests to the operators, and what follows a hand-off.                 *)

\* A faulty set of refusals: a run whose request times out goes on.
Refusals_patient == {"aborted", "unattended"}

Refusals == {"aborted", "timed_out", "unattended"}

\* The ways request() returns.
Answers ==
    IF ~attended THEN {"unattended"}
    ELSE {"released", "aborted", "timed_out"}
         \cup IF asking = "approval_required" THEN {"approved"} ELSE {}

\* request() returns: to _check_operator_pause, _seek_approval or _fail_or_escalate.
AnsweredBy(answer) ==
    /\ pc = "asking"
    /\ answer \in Answers
    /\ acted' = FALSE
    /\ refused' = (answer \notin {"approved", "released"})
    /\ granted' = (granted \/ answer = "approved")
    /\ approved' = IF answer = "approved" THEN approved \cup {current} ELSE approved
    /\ result' = IF answer \in Refusals THEN "ESCALATED" ELSE result
    /\ goto(CASE answer \in Refusals -> "finishing"
              [] answer = "approved" -> "resolve"
              [] answer = "released" /\ asking = "operator_pause" -> "pre"
              [] OTHER -> "handoff")
    /\ UNCHANGED <<position, attempts, humanVars, asking, confirm, evaluated,
                   recoveryVars, extracted, doneVars, history>>

Answered == \E answer \in Answers : AnsweredBy(answer)

\* _after_handoff, third case: the steps from the current one up to the first
\* later step whose preconditions hold were done by the human.
ResumeAt(later) ==
    /\ humanCompleted' = humanCompleted \o [k \in 1 .. later - current |-> position + k]
    /\ GoOnAfter(later - 1)

\* A faulty hand-off: it does not remember that it retried the step.
AfterHandoff_forgetful ==
    /\ pc = "handoff"
    /\ \/ /\ step.post
          /\ verified' = verified \cup {current}
          /\ StepDone
          /\ UNCHANGED <<approved, humanCompleted>>
       \/ /\ IF asking = "approval_required"
             THEN approved' = approved \cup {current} /\ Continue("resolve")
             ELSE UNCHANGED approved /\ Continue("top")
          /\ UNCHANGED doneVars
       \/ /\ step.pre
          /\ \E later \in current + 1 .. N : Step[later].pre /\ ResumeAt(later)
          /\ UNCHANGED <<approved, verified>>
       \/ /\ step.pre
          /\ Abort("ESCALATED")
          /\ UNCHANGED <<approved, doneVars>>
    /\ evaluated' = (evaluated /\ pc' = "resolve")
    /\ UNCHANGED <<humanVars, askVars, confirm, recoveryVars, extracted, retried, finalOk>>

\* _after_handoff.  A step to be retried goes back to the top of _run_step, but
\* out of _seek_approval the retry falls through: only DONE returns there, so
\* the step is marked approved and its action is next.
AfterHandoff ==
    /\ pc = "handoff"
    /\ \/ /\ step.post
          /\ verified' = verified \cup {current}
          /\ StepDone
          /\ UNCHANGED <<approved, retried, humanCompleted>>
       \/ /\ current \notin retried
          /\ retried' = retried \cup {current}
          /\ IF asking = "approval_required"
             THEN approved' = approved \cup {current} /\ Continue("resolve")
             ELSE UNCHANGED approved /\ Continue("top")
          /\ UNCHANGED doneVars
       \/ /\ step.pre
          /\ \E later \in current + 1 .. N : Step[later].pre /\ ResumeAt(later)
          /\ UNCHANGED <<approved, retried, verified>>
       \/ /\ step.pre \/ current \in retried
          /\ Abort("ESCALATED")
          /\ UNCHANGED <<approved, retried, doneVars>>
    /\ evaluated' = (evaluated /\ pc' = "resolve")
    /\ UNCHANGED <<humanVars, askVars, confirm, recoveryVars, extracted, finalOk>>

-----------------------------------------------------------------------------

\* Looking at the page fails: its text, headings or screenshot are read in all
\* of these places, and nobody catches the error of the browser.
ReadFails ==
    /\ pc \in {"pre", "policy", "resolve", "post", "asking", "handoff", "final", "finishing"}
    /\ Continue("crashed")
    /\ UNCHANGED <<humanVars, askVars, gateVars, recoveryVars, extracted, doneVars, history>>

\* The operator console: request_pause.
RequestPause ==
    /\ attended
    /\ pc \notin {"done", "crashed"}
    /\ ~pause
    /\ pauses < MaxPauses
    /\ pause' = TRUE
    /\ pauses' = pauses + 1
    /\ UNCHANGED <<pc, result, loopVars, attended, askVars, gateVars, recoveryVars,
                   extracted, doneVars, history>>

Executor ==
    \/ Enter \/ Top \/ FinalCheckpoint \/ Finish
    \/ CheckPreconditions \/ EvaluatePolicy \/ Resolve \/ Act \/ CheckPostconditions
    \/ Recover \/ Answered \/ AfterHandoff \/ ReadFails

Next == Executor \/ RequestPause

\* Every await of the executor is under a timeout, the one for a human included.
Spec == Init /\ [][Next]_vars /\ WF_vars(Executor)

-----------------------------------------------------------------------------
(* Safety.                                                                 *)

\* Every step before the current one is accounted for exactly once: either its
\* postconditions were seen to hold, or a human did it during a hand-off and it
\* is listed in human_completed_steps; the list is in the order of the steps.
StepsAccountedFor ==
    /\ {s \in verified : s <= position} \cup ToSet(humanCompleted) = 1 .. position
    /\ verified \cap ToSet(humanCompleted) = {}
    /\ \A i, j \in DOMAIN humanCompleted : i < j => humanCompleted[i] < humanCompleted[j]

\* SUCCESS is never reported but for a run all of whose steps are accounted for
\* and whose final checkpoint was seen to hold, whatever recoveries, retries
\* and hand-offs it went through.
SuccessIsEarned == result = "SUCCESS" => position = N /\ finalOk

\* The attempt that exhausts a budget is counted, and not made.
NotMade == IF result = "RECOVERABLE_EXHAUSTED" THEN 1 ELSE 0

\* No rule is applied to a step more often than its max_attempts, over all
\* phases, retries and hand-offs of the step.
RulesWithinBudget ==
    \A s \in StepIds, r \in Rules :
        ruleAttempts[<<s, r>>] <= Rule[r].max_attempts + NotMade

\* The rules stay within their budgets, and the run reports every recovery that
\* was charged to one.
RecoveriesWithinBudget ==
    /\ RulesWithinBudget
    /\ recoveries + NotMade = FoldFunction(LAMBDA n, m : n + m, 0, ruleAttempts)

Recoverable == {r \in Rules : Rule[r].category = "recoverable"}

\* The three ways of trying a step again - the retry policy, the recoveries of
\* the rules, the one retry after a hand-off - do not multiply: the tries of a
\* step never exceed the sum of their budgets.
TriesWithinBudgets ==
    position < N =>
        attempts <= step.attempts + 1
                    + FoldFunctionOnSet(+, 0, [r \in Rules |-> Rule[r].max_attempts],
                                        Recoverable)

\* Once a human has said no, or nobody has answered, the run takes no further
\* action on the page and ends as ESCALATED.
RefusalIsFinal ==
    [][refused => attempts' = attempts /\ pc' # "recovering" /\ result' = "ESCALATED"]_vars

-----------------------------------------------------------------------------
(* Liveness and refinement.                                                *)

\* The outcome of a run is what replay() returns; a run that ends in an exception
\* nobody catches has the outcome "crashed", whatever it had found.
Outcome ==
    CASE pc = "crashed" -> "crashed"
      [] pc = "done" -> result
      [] OTHER -> "none"

\* The abstract run.
Contract ==
    INSTANCE CapabilityRun WITH
        Outcomes <- (ReplayStatus \ {"SUCCESS"}) \cup {"crashed"},
        accounted <- position,
        outcome <- Outcome

\* The executor implements CapabilityRun: steps are accounted for forwards
\* only, and the run ends.  It does so by its budgets: the run's deadline may end
\* it at the top of any step (Top), but nothing makes it expire.
ImplementsCapabilityRun == Contract!Spec

-----------------------------------------------------------------------------
(* What the documents say, for the runs that refute it.                    *)

\* README.md: "Irreversible steps require a human approval".
IrreversibleNeedsApproval == pc = "act" /\ step.irreversible => granted

\* README.md: irreversible steps "are never retried automatically": what was
\* executed is not about to be executed again before a human has answered.
IrreversibleNeverRetried == pc = "act" /\ step.irreversible => ~acted

\* REPORT.md on the policy: "Enforced before every action in both discovery and
\* replay".
PolicyBeforeEveryAction == pc \in {"act", "recovering"} => evaluated

\* README.md: replay returns "typed outputs, a business outcome, or a
\* structured failure".
AlwaysAResult == pc # "crashed"

\* schema.py on a nullable output: "Null when a business outcome pre-empts it".
SuccessHasItsOutputs ==
    result = "SUCCESS" => \A s \in StepIds : Step[s].extracts => s \in extracted
==============================================================================
