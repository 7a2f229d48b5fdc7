------------------------------ MODULE Discovery ------------------------------
(***************************************************************************)
(* Discovery: AgentLoop, which asks a model for one decision at a time,    *)
(* checks it, acts, and has the Recorder write down what worked.           *)
(*                                                                         *)
(* The model may propose anything, the page may move by itself, rules may  *)
(* match or not, and actions may fail.  screen is the page as it is, and   *)
(* observed what the loop last saw of it; the difference matters, for the  *)
(* loop decides on what it saw.  The answers of the operators are those    *)
(* request() can return, as in ReplayExecutor.                             *)
(***************************************************************************)
EXTENDS Recorder, FiniteSets

CONSTANTS
    Proposals,       \* the decisions a model may make
    Gated,           \* actions an irreversible rule of the policy may match
    Denied,          \* screens whose URL the policy denies
    Rules,           \* rules of the profile
    Category,        \* the category of each rule
    Recovery,        \* its recovery
    Objects,         \* what else identifies a decision: target, key and wording
    EntryUrl,        \* the text of the entry URL
    Echo,            \* the outputs a finishing decision echoes
    MaxSteps,        \* agent_max_steps
    StuckRepeats,    \* agent_stuck_repeats
    MaxRejections,   \* MAX_CONSECUTIVE_REJECTIONS
    MaxDisturbances  \* bound: pauses asked for and moves of the page by itself, together

AgentAction == ActionType \cup {"wait", "finish", "escalate"}

\* A Decision.
ProposalType ==
    [action : AgentAction, object : Objects, value : SUBSET Text, url : SUBSET Text,
     output : Outputs \cup {NoOutput}, heading : Headings \cup {NoHeading}]

ASSUME ProposalsAssumption == Proposals \subseteq ProposalType /\ EntryUrl \subseteq Text
ASSUME BudgetsAssumption ==
    /\ MaxSteps \in Nat \ {0} /\ StuckRepeats \in Nat \ {0, 1}
    /\ MaxRejections \in Nat \ {0} /\ MaxDisturbances \in Nat
ASSUME RulesAssumption ==
    /\ Category \in [Rules -> {"business_outcome", "recoverable", "hard_failure"}]
    /\ Recovery \in [Rules -> {"retry_step", "click"}]
ASSUME ScreensAssumption == Denied \subseteq Screens /\ Screens # {}
ASSUME EchoAssumption == \A o \in DOMAIN Echo : \E n \in Names : Echo[o] = Ref(n)

VARIABLES
    pc,
    screen,       \* the page
    observed,     \* the latest observation of it
    stepIndex,    \* step_index
    decision,     \* the current decision
    signature,    \* the latest entry of fingerprints
    repeats,      \* how many of its latest entries are equal
    rejections,
    steps,        \* the recorder's steps
    result,       \* DiscoveryStatus, "none" while the run goes on
    attended, pause, pauses, asking, drifts,
    \* history
    confirm,      \* the policy wants a human for the current decision
    approved,     \* a human approved the current decision
    rejectedRow,  \* proposals rejected since one was not
    moved,        \* the page changed since the first of the latest repeats
    blind,        \* how often in a row the same proposal was carried out on the
                  \* same observation with no human in between
    carriedOut,   \* that observation and proposal
    touched,      \* something not recorded touched the page since the last step
    gaps          \* positions of steps before which that had happened

pageVars == <<screen, observed>>
humanVars == <<attended, pause, pauses>>
askVars == <<asking, confirm, approved>>
stuckVars == <<signature, repeats>>
recordVars == <<steps, touched, gaps>>
rejectVars == <<rejections, rejectedRow>>
stepVars == <<stepIndex, decision>>
blindVars == <<blind, carriedOut>>
vars == <<pc, result, pageVars, humanVars, askVars, stuckVars, moved, blindVars,
          recordVars, rejectVars, stepVars, drifts>>

DiscoveryStatus == {"COMPLETED", "BUSINESS_OUTCOME", "ESCALATED", "FAILED"}

\* A decision to go somewhere, as _enter makes it.
Going(url) ==
    [action |-> "navigate", object |-> "none", value |-> {}, url |-> url, output |-> NoOutput,
     heading |-> NoHeading]

\* What _is_stuck compares: the output and the expected heading are left out.
Key(p) == <<p.action, p.object, p.value, p.url>>

NoSignature == <<NoScreen, Key(Going({}))>>

Pc == {"enter", "top", "known", "decide", "act", "perform", "asking", "build",
       "finishing", "done", "crashed"}

InterventionKind == {"operator_pause", "agent_stuck", "agent_requested",
                     "approval_required"}

TypeOK ==
    /\ pc \in Pc /\ result \in DiscoveryStatus \cup {"none"}
    /\ screen \in Screens /\ observed \in Screens
    /\ stepIndex \in 0 .. MaxSteps
    /\ decision \in Proposals \cup {Going({})}
    /\ signature \in (Screens \X {Key(p) : p \in Proposals}) \cup {NoSignature}
    /\ repeats \in 0 .. StuckRepeats
    /\ rejections \in 0 .. MaxRejections /\ rejectedRow \in 0 .. MaxRejections
    /\ steps \in Seq(StepType) /\ touched \in BOOLEAN /\ gaps \subseteq DOMAIN steps
    /\ attended \in BOOLEAN /\ pause \in BOOLEAN /\ pauses \in 0 .. MaxDisturbances
    /\ asking \in InterventionKind /\ confirm \in BOOLEAN
    /\ approved \in BOOLEAN
    /\ moved \in BOOLEAN /\ blind \in Nat
    /\ carriedOut \in (Screens \X {Key(p) : p \in Proposals}) \cup {NoSignature}
    /\ drifts \in 0 .. MaxDisturbances

Init ==
    /\ pc = "enter" /\ result = "none"
    /\ screen \in Screens /\ observed = screen
    /\ stepIndex = 0 /\ decision = Going({})
    /\ signature = NoSignature /\ repeats = 0 /\ moved = FALSE
    /\ blind = 0 /\ carriedOut = NoSignature
    /\ rejections = 0 /\ rejectedRow = 0
    /\ steps = <<>> /\ touched = FALSE /\ gaps = {}
    /\ attended \in BOOLEAN /\ pause = FALSE /\ pauses = 0
    /\ asking = "operator_pause" /\ confirm = FALSE
    /\ approved = FALSE
    /\ drifts = 0

goto(l) == pc' = l

Continue(l) == goto(l) /\ UNCHANGED result

\* raise _Stop(status).
Stop(status) == goto("finishing") /\ result' = status

\* _observe, after something that may have moved the page.
ObserveAny ==
    /\ screen' \in Screens
    /\ observed' = screen'
    /\ moved' = (moved \/ screen' # screen)

\* request() is called: the loop waits for Answered.
Ask(kind) == asking' = kind /\ Continue("asking")

Record(index, proposal, before, after, text) ==
    /\ steps' = Append(steps, Recorded(index, proposal, before, after, text))
    /\ gaps' = IF touched THEN gaps \cup {Len(steps')} ELSE gaps
    /\ touched' = FALSE

-----------------------------------------------------------------------------
(* discover(): the entry, the head of the loop, and the end.               *)

\* _enter: a forbidden entry URL fails the run, a failing navigation escapes it.
Enter ==
    /\ pc = "enter"
    /\ \/ Stop("FAILED") /\ UNCHANGED <<pageVars, moved, recordVars, stepIndex>>
       \/ Continue("crashed") /\ UNCHANGED <<pageVars, moved, recordVars, stepIndex>>
       \/ /\ stepIndex' = stepIndex + 1
          /\ ObserveAny
          /\ Record(stepIndex', Going(EntryUrl), observed, observed', FALSE)
          /\ Continue("top")
    /\ UNCHANGED <<humanVars, askVars, stuckVars, blindVars, rejectVars, decision, drifts>>

\* The deadline may be over at any time; the step budget is.
Top ==
    /\ pc = "top"
    /\ \/ Stop("FAILED")
       \/ stepIndex < MaxSteps /\ Continue("known")
    /\ UNCHANGED <<pageVars, humanVars, askVars, stuckVars, moved, blindVars, recordVars,
                   rejectVars, stepVars, drifts>>

\* _check_pause, once the known states are handled.
CheckPause ==
    IF pause
    THEN pause' = FALSE /\ Ask("operator_pause")
    ELSE Continue("decide") /\ UNCHANGED <<pause, asking>>

\* _handle_known_states: one look at the rules; the errors of a recovery click
\* are not caught, and a recovery ends in a fresh observation.
HandleKnownStates ==
    /\ pc = "known"
    /\ \/ CheckPause /\ UNCHANGED <<pageVars, moved, touched>>
       \/ \E r \in Rules :
              \/ /\ \/ Category[r] = "business_outcome" /\ Stop("BUSINESS_OUTCOME")
                    \/ Category[r] = "hard_failure" /\ Stop("FAILED")
                    \/ Category[r] = "recoverable" /\ Recovery[r] = "click" /\ Continue("crashed")
                 /\ UNCHANGED <<pageVars, moved, touched, pause, asking>>
              \/ /\ Category[r] = "recoverable" /\ Recovery[r] = "click"
                 /\ ObserveAny
                 /\ touched' = TRUE
                 /\ CheckPause
              \/ /\ Category[r] = "recoverable" /\ Recovery[r] = "retry_step"
                 /\ observed' = screen
                 /\ CheckPause
                 /\ UNCHANGED <<screen, moved, touched>>
    /\ UNCHANGED <<attended, pauses, confirm, approved, stuckVars, blindVars, steps, gaps,
                   rejectVars, stepVars, drifts>>

\* build_artifact and save_artifact: a recording that the artifact's validation
\* does not accept is an exception that nobody catches.
Build ==
    /\ pc = "build"
    /\ IF Valid(steps, Echo, observed) THEN Stop("COMPLETED") ELSE Continue("crashed")
    /\ UNCHANGED <<pageVars, humanVars, askVars, stuckVars, moved, blindVars, recordVars,
                   rejectVars, stepVars, drifts>>

Finish ==
    /\ pc = "finishing"
    /\ Continue("done")
    /\ UNCHANGED <<pageVars, humanVars, askVars, stuckVars, moved, blindVars, recordVars,
                   rejectVars, stepVars, drifts>>

-----------------------------------------------------------------------------
(* One decision.                                                           *)

\* A faulty test: one repetition too many before the loop is stuck.
IsStuck_late(p) == signature = <<observed, Key(p)>> /\ repeats >= StuckRepeats

\* _is_stuck: with this decision the last StuckRepeats entries are equal.
IsStuck(p) == signature = <<observed, Key(p)>> /\ repeats + 1 >= StuckRepeats

\* A faulty budget: waiting is free.
Counted_work(p) == IF p.action = "wait" THEN stepIndex ELSE stepIndex + 1

\* Every decision counts as a step, carried out or not.
Counted(p) == stepIndex + 1

\* _decide and _is_stuck: the model answers or the planner gives up.
Decide ==
    /\ pc = "decide"
    /\ \/ /\ Stop("FAILED")
          /\ stepIndex' = stepIndex + 1
          /\ UNCHANGED <<decision, stuckVars, asking, moved, rejectedRow>>
       \/ \E p \in Proposals :
              /\ decision' = p
              /\ stepIndex' = Counted(p)
              /\ IF IsStuck(p)
                 THEN /\ signature' = NoSignature /\ repeats' = 0
                      /\ rejectedRow' = 0
                      /\ Ask("agent_stuck")
                      /\ UNCHANGED moved
                 ELSE /\ repeats' = IF signature = <<observed, Key(p)>> THEN repeats + 1 ELSE 1
                      /\ signature' = <<observed, Key(p)>>
                      /\ moved' = (moved /\ signature = <<observed, Key(p)>>)
                      /\ Continue(IF p.action = "finish" THEN "build" ELSE "act")
                      /\ UNCHANGED <<asking, rejectedRow>>
    /\ confirm' = FALSE
    /\ approved' = FALSE
    /\ UNCHANGED <<pageVars, humanVars, blindVars, recordVars, rejections, drifts>>

\* _reject: the loop goes on with the observation it had.
Reject ==
    /\ rejections' = rejections + 1
    /\ rejectedRow' = rejectedRow + 1
    /\ IF rejections' >= MaxRejections THEN Stop("FAILED") ELSE Continue("top")
    /\ UNCHANGED observed

\* _prepare_request lets only declared inputs stand in a value.
Prepared(p) == {n \in Names : Ref(n) \in p.value} \subseteq Inputs

\* _act up to the approval: the URL the policy judges is the one observed.
Act ==
    /\ pc = "act"
    /\ \/ /\ decision.action = "escalate"
          /\ Ask("agent_requested")
          /\ rejectedRow' = 0 /\ blind' = 0
          /\ UNCHANGED <<observed, rejections, confirm>>
       \/ /\ decision.action = "wait"
          /\ observed' = screen
          /\ Continue("top")
          /\ rejectedRow' = 0 /\ blind' = 0
          /\ UNCHANGED <<rejections, asking, confirm>>
       \/ /\ decision.action \notin {"escalate", "wait"}
          /\ Reject
          /\ blind' = 0
          /\ UNCHANGED <<asking, confirm>>
       \/ /\ decision.action \notin {"escalate", "wait"}
          /\ Prepared(decision)
          /\ decision.action = "navigate" \/ observed \notin Denied
          /\ \/ Continue("perform") /\ UNCHANGED <<asking, confirm>>
             \/ /\ decision.action \in Gated
                /\ confirm' = TRUE
                /\ Ask("approval_required")
          /\ UNCHANGED <<observed, rejectVars, blind>>
    /\ UNCHANGED <<screen, humanVars, approved, stuckVars, moved, carriedOut,
                   recordVars, stepVars, drifts>>

\* _act from the resolution of the target on: what fails is rejected, and may
\* have moved the page; what works is observed and recorded.
Perform ==
    /\ pc = "perform"
    /\ \/ /\ screen' \in IF decision.action = "extract" THEN {screen} ELSE Screens
          /\ moved' = (moved \/ screen' # screen)
          /\ touched' = (touched \/ screen' # screen)
          /\ Reject
          /\ UNCHANGED <<steps, gaps>>
       \/ /\ IF decision.action = "extract"
             THEN observed' = screen /\ UNCHANGED <<screen, moved>>
             ELSE ObserveAny
          /\ Record(stepIndex, decision, observed, observed', decision.action = "extract")
          /\ rejections' = 0 /\ rejectedRow' = 0
          /\ Continue("top")
    /\ blind' = IF carriedOut = <<observed, Key(decision)>> THEN blind + 1 ELSE 1
    /\ carriedOut' = <<observed, Key(decision)>>
    /\ UNCHANGED <<humanVars, askVars, stuckVars, stepVars, drifts>>

-----------------------------------------------------------------------------
(* Requests to the operators.                                              *)

\* A faulty gate: control given back counts as an approval.
Proceeds_lenient(answer) == answer \in {"approved", "released"} /\ asking = "approval_required"

Proceeds(answer) == answer = "approved" /\ asking = "approval_required"

Refusals == {"aborted", "timed_out", "unattended"}

Answers ==
    IF ~attended THEN {"unattended"}
    ELSE {"released", "aborted", "timed_out"}
         \cup IF asking = "approval_required" THEN {"approved"} ELSE {}

\* request() returns, to _act or to _escalate.  A human who gives control back
\* instead of approving is taken to have performed the action.
Answered ==
    /\ pc = "asking"
    /\ \E answer \in Answers :
           /\ approved' = (answer = "approved")
           /\ \/ /\ \/ answer \in Refusals /\ Stop("ESCALATED")
                    \/ Proceeds(answer) /\ Continue("perform")
                 /\ UNCHANGED <<pageVars, moved, recordVars, stuckVars, blind, rejectedRow>>
              \/ /\ answer \notin Refusals /\ ~Proceeds(answer)
                 /\ asking = "approval_required"
                 /\ ObserveAny
                 /\ Record(stepIndex, decision, observed, observed', FALSE)
                 /\ rejectedRow' = 0 /\ blind' = 0
                 /\ Continue("top")
                 /\ UNCHANGED stuckVars
              \/ /\ answer \notin Refusals
                 /\ asking # "approval_required"
                 /\ ObserveAny
                 /\ touched' = TRUE
                 /\ signature' = NoSignature /\ repeats' = 0 /\ blind' = 0
                 /\ Continue(IF asking = "operator_pause" THEN "decide" ELSE "top")
                 /\ UNCHANGED <<steps, gaps, rejectedRow>>
    /\ UNCHANGED <<humanVars, asking, confirm, carriedOut, rejections, stepVars, drifts>>

-----------------------------------------------------------------------------
(* The environment.                                                        *)

RequestPause ==
    /\ attended
    /\ pc \notin {"done", "crashed"}
    /\ ~pause
    /\ pauses + drifts < MaxDisturbances
    /\ pause' = TRUE
    /\ pauses' = pauses + 1
    /\ UNCHANGED <<pc, result, pageVars, attended, askVars, stuckVars, moved, blindVars,
                   recordVars, rejectVars, stepVars, drifts>>

\* The page moves by itself.
Drift ==
    /\ pc \notin {"enter", "done", "crashed"}
    /\ pauses + drifts < MaxDisturbances
    /\ drifts' = drifts + 1
    /\ screen' \in Screens \ {screen}
    /\ moved' = TRUE
    /\ touched' = TRUE
    /\ UNCHANGED <<pc, result, observed, humanVars, askVars, stuckVars, blindVars,
                   steps, gaps, rejectVars, stepVars>>

Loop ==
    \/ Enter \/ Top \/ HandleKnownStates \/ Decide \/ Act \/ Perform \/ Answered
    \/ Build \/ Finish

Next == Loop \/ RequestPause \/ Drift

\* Every await of the loop is under a timeout, the one for a human included.
Spec == Init /\ [][Next]_vars /\ WF_vars(Loop)

-----------------------------------------------------------------------------
(* Properties.                                                             *)

\* An action the policy wants a human for is carried out by automation only
\* after a human approved this very decision; giving control back does not do.
GateNeedsApproval == pc = "perform" /\ confirm => approved

\* The same proposal is never carried out StuckRepeats times in a row on the
\* same observation, unless a human stepped in.
NoBlindRepetition == blind < StuckRepeats

\* The recording is a path: each step starts on the screen on which the one
\* before it ended, unless something that is not recorded touched the page in
\* between: a human, a recovery, a failed action, or the page itself.
PathUnlessTouched ==
    \A k \in 2 .. Len(steps) :
        k \notin gaps /\ steps[k].pre # NoScreen /\ steps[k - 1].post # NoScreen
            => steps[k].pre = steps[k - 1].post

\* The arguments of the steps, as the placeholders in them.
Arguments == UNION {steps[k].args : k \in DOMAIN steps}

\* The names are what the schema wants names to be; discovery looks at none of
\* them before the end.
NamesAccepted ==
    /\ Inputs \subseteq Identifiers \ RESERVED_PARAMETERS
    /\ DOMAIN Echo \cup {CapabilityName} \subseteq Identifiers

\* Under names the schema accepts, a recording makes a valid artifact if its
\* arguments refer to inputs, every input that a URL or an expected heading
\* mentions is also an argument of some step, and automation did every
\* extraction.
SoundRecordingIsValid ==
    /\ pc = "build"
    /\ NamesAccepted
    /\ Arguments \subseteq Inputs
    /\ Placeholders(steps, observed) \subseteq Arguments
    /\ \A k \in DOMAIN steps : steps[k].action = "extract" => steps[k].text
    => Valid(steps, Echo, observed)

\* Discovery always returns.
DiscoveryReturns == <>(pc \in {"done", "crashed"})

-----------------------------------------------------------------------------
(* What the documents say, for the runs that refute it.                    *)

\* loop.py: the run fails because "consecutive proposals were rejected".
ConsecutiveRejections ==
    [][(pc = "act" \/ pc = "perform") /\ result' = "FAILED" => rejectedRow' >= MaxRejections]_vars

\* loop.py: "Stuck = the same proposal on an unchanged screen".
StuckMeansUnchanged == [][pc = "decide" /\ pc' = "asking" => ~moved]_vars

\* README.md: "The successful run becomes a typed, versioned capability artifact".
FinishSavesArtifact == decision.action = "finish" => pc # "crashed"

\* REPORT.md: "navigation targets and the current page are both checked".
ActsOnlyWhereAllowed ==
    pc = "perform" /\ decision.action # "navigate" => screen \notin Denied

\* models.py on the outputs of finish: "extra outputs to echo".
EchoesKept == result = "COMPLETED" => Echoes(steps, Echo) = DOMAIN Echo
==============================================================================
