--------------------------- MODULE SupervisedProofs ---------------------------
(***************************************************************************)
(* Proofs about SupervisedReplay, for any artifact, rules, operators and   *)
(* console requests.  First the composition: a step of the supervised      *)
(* replay is a step of the handoff and a step of the executor.  Then, with *)
(* the handoff's invariant at hand, that approvals are on record, that the *)
(* browser closes last and that outcome and session agree.  At last, what  *)
(* HandoffProofs and ReplayProofs show of the parts, of the whole.         *)
(***************************************************************************)
EXTENDS SupervisedReplay, TLAPS

H == INSTANCE HandoffProofs

R == INSTANCE ReplayProofs

-----------------------------------------------------------------------------
(* The supervised replay is a handoff.                                     *)

\* The executor touches what it shares with the handoff at two places only.
LEMMA ThinkShares ==
    ASSUME Think
    PROVE  UNCHANGED <<attended, pause>> /\ (pc' # "asking" => UNCHANGED asking)
<1> USE DEF E!humanVars, E!askVars, E!goto
<1>1. ASSUME NEW k, E!Unexpected(k) PROVE pc' # "asking" => UNCHANGED asking
  <2>1. ASSUME E!FailOrEscalate(k) PROVE pc' # "asking" => UNCHANGED asking
    BY <2>1 DEF E!FailOrEscalate, E!Ask, E!Continue
  <2> QED
    BY <1>1, <2>1 DEF E!Unexpected
<1>2. CASE E!CheckPreconditions
  BY <1>1, <1>2 DEF E!CheckPreconditions
<1>3. CASE E!EvaluatePolicy
  BY <1>3 DEF E!EvaluatePolicy, E!Ask, E!Continue
<1>4. CASE E!Resolve
  BY <1>1, <1>4 DEF E!Resolve
<1>5. CASE E!CheckPostconditions
  BY <1>1, <1>5 DEF E!CheckPostconditions
<1>6. CASE E!AfterHandoff \/ E!FinalCheckpoint \/ E!ReadFails
  BY <1>6 DEF E!AfterHandoff, E!FinalCheckpoint, E!ReadFails
<1> QED
  BY <1>2, <1>3, <1>4, <1>5, <1>6 DEF Think

LEMMA ThinkIsHandoff == Think => [M!Next]_(M!vars)
<1> SUFFICES ASSUME Think PROVE [M!Next]_(M!vars)
  OBVIOUS
<1>0. UNCHANGED <<attended, pause>> /\ (pc' # "asking" => UNCHANGED asking)
  BY ThinkShares
<1>1. CASE pc' = "asking"
  BY <1>1 DEF Think, Follow, M!Next, M!RunNext
<1>2. CASE pc' = "top"
  BY <1>2 DEF Think, Follow, M!Next, M!RunNext
<1>3. CASE pc' \notin {"asking", "top"}
  BY <1>0, <1>3 DEF Think, Follow, M!Next, M!RunNext, HandoffWaits, handoffVars, M!vars,
                    M!managerVars
<1> QED
  BY <1>1, <1>2, <1>3

LEMMA RunIsHandoff == Replay => [M!Next]_(M!vars)
<1> SUFFICES ASSUME Replay PROVE [M!Next]_(M!vars)
  OBVIOUS
<1> USE DEF M!Next, M!RunNext, HandoffWaits, handoffVars, M!vars, M!managerVars
<1>1. CASE Think
  BY <1>1, ThinkIsHandoff
<1>2. CASE Enter
  BY <1>2 DEF Enter, E!Enter, E!humanVars, E!askVars
<1>3. CASE Top
  <2>1. CASE pc' \in {"asking", "pre"}
    BY <1>3, <2>1 DEF Top
  <2>2. CASE pc' \notin {"asking", "pre"}
    BY <1>3, <2>2 DEF Top, E!Top, E!Ask, E!Continue, E!goto
  <2> QED
    BY <2>1, <2>2
<1>4. CASE Act
  <2>1. CASE run = "acting" /\ M!RunActed
    BY <2>1
  <2>2. CASE run = "stepping" /\ ~M!RunActed
    BY <1>4, <2>2 DEF Act, E!Act, E!humanVars, E!askVars
  <2> QED
    BY <1>4, <2>1, <2>2 DEF Act
<1>5. CASE Recover
  BY <1>5 DEF Recover
<1>6. CASE EntryNavigates \/ ActionBegins \/ Finish \/ TimeOut \/ Wake \/ Escalate
  BY <1>6 DEF EntryNavigates, ActionBegins, Finish, TimeOut, Wake, Escalate
<1> QED
  BY <1>1, <1>2, <1>3, <1>4, <1>5, <1>6 DEF Replay

LEMMA StepIsHandoff == [Next]_vars => [M!Next]_(M!vars)
<1> SUFFICES ASSUME [Next]_vars PROVE [M!Next]_(M!vars)
  OBVIOUS
<1>1. CASE Replay
  BY <1>1, RunIsHandoff
<1>2. CASE RunReplay
  BY <1>2 DEF RunReplay, Start, StopConsole, ConsoleStopped, CloseBrowser, Stays,
              HandoffWaits, handoffVars, M!vars, M!managerVars
<1>3. CASE Operator
  BY <1>3 DEF Operator, M!Next, M!OperatorNext, M!ConsoleNext
<1>4. CASE Pause
  BY <1>4 DEF Pause, M!Next, M!OperatorNext
<1>5. ASSUME NEW c \in Calls, ConsoleCall(c) PROVE M!Next
  BY <1>5 DEF ConsoleCall, M!Next, M!ConsoleNext
<1>6. CASE UNCHANGED vars
  BY <1>6 DEF vars, handoffVars, M!vars, M!managerVars
<1> QED
  BY <1>1, <1>2, <1>3, <1>4, <1>5, <1>6 DEF Next

\* Every step of the supervised replay is one of the handoff, or none of its
\* business.
THEOREM Composition == Spec => SupervisesHandoff
<1>1. Init => M!Init
  BY DEF Init
<1> QED
  BY <1>1, StepIsHandoff, PTL DEF Spec, SupervisesHandoff

-----------------------------------------------------------------------------
(* The supervised replay is a replay.                                      *)

\* Where the handoff takes a step of its own, it leaves the shared variables alone.
LEMMA ExecutorStutters ==
    ASSUME ExecutorWaits, UNCHANGED <<attended, pause, asking>>
    PROVE  UNCHANGED E!vars
  BY DEF ExecutorWaits, executorVars, E!vars, E!loopVars, E!humanVars, E!askVars, E!gateVars,
         E!recoveryVars, E!doneVars, E!history

LEMMA RunIsExecutor == Replay => [E!Next]_(E!vars)
<1> SUFFICES ASSUME Replay PROVE [E!Next]_(E!vars)
  OBVIOUS
<1>1. CASE Think \/ Enter \/ Top \/ Act \/ Recover \/ Finish
  BY <1>1 DEF Think, Enter, Top, Act, Recover, Finish, E!Next, E!Executor
<1>2. CASE EntryNavigates \/ ActionBegins
  BY <1>2, ExecutorStutters DEF EntryNavigates, ActionBegins, M!RunActs
<1>3. ASSUME NEW answer, E!AnsweredBy(answer) PROVE E!Next
  BY <1>3 DEF E!AnsweredBy, E!Answered, E!Next, E!Executor
<1>4. CASE TimeOut \/ Wake
  BY <1>3, <1>4 DEF TimeOut, Wake
<1>5. CASE Escalate
  <2>1. UNCHANGED <<attended, pause, asking>>
    BY <1>5 DEF Escalate, M!Escalate
  <2> QED
    BY <1>3, <1>5, <2>1, ExecutorStutters DEF Escalate
<1> QED
  BY <1>1, <1>2, <1>4, <1>5 DEF Replay

LEMMA StepIsExecutor == [Next]_vars => [E!Next]_(E!vars)
<1> SUFFICES ASSUME [Next]_vars PROVE [E!Next]_(E!vars)
  OBVIOUS
<1>1. CASE Replay
  BY <1>1, RunIsExecutor
<1>2. CASE RunReplay
  BY <1>2, ExecutorStutters DEF RunReplay, Start, StopConsole, ConsoleStopped, CloseBrowser,
                                Stays
<1>3. CASE Operator
  <2>1. UNCHANGED <<attended, pause, asking>>
    BY <1>3 DEF Operator, M!take_control, M!approve, M!release, M!abort, M!ConsoleStart,
                M!BrowserEvent, M!runVars
  <2> QED
    BY <1>3, <2>1, ExecutorStutters DEF Operator
<1>4. CASE Pause
  BY <1>4 DEF Pause, E!Next
<1>5. ASSUME NEW c \in Calls, ConsoleCall(c) PROVE UNCHANGED E!vars
  <2>1. UNCHANGED attended
    BY <1>5 DEF ConsoleCall, M!ConsoleCall, M!ConsoleProceeds, M!ConsoleRefused,
                M!ConsoleActed, M!ConsoleSettled
  <2> QED
    BY <1>5, <2>1, ExecutorStutters DEF ConsoleCall
<1>6. CASE UNCHANGED vars
  BY <1>6, ExecutorStutters DEF vars, ExecutorWaits
<1> QED
  BY <1>1, <1>2, <1>3, <1>4, <1>5, <1>6 DEF Next

\* Every step of the supervised replay is one of the executor, or none of its
\* business: the manager answers a request in one of the ways that ReplayExecutor
\* takes for possible.
THEOREM ExecutorComposition == Spec => SupervisesExecutor
<1>1. Init => E!Init
  BY DEF Init
<1> QED
  BY <1>1, StepIsExecutor, PTL DEF Spec, SupervisesExecutor

-----------------------------------------------------------------------------
(* M is Handoff, H is HandoffProofs, which extends it: their definitions of   *)
(* the handoff are the same, and the theorems of H may be used of M.           *)

LEMMA SameStep == [M!Next]_(M!vars) <=> [H!Next]_(H!vars)
<1>1. UNCHANGED M!vars <=> UNCHANGED H!vars
  BY DEF M!vars, H!vars, M!managerVars, H!managerVars
<1>2. M!RunNext <=> H!RunNext
  BY Zenon DEF M!RunNext, H!RunNext, M!RunStarts, H!RunStarts, M!CheckPause,
     H!CheckPause, M!BeginRequest, H!BeginRequest, M!RunActs, H!RunActs, M!RunActed,
     H!RunActed, M!RunReads, H!RunReads, M!RunAsks, H!RunAsks, M!StepDone, H!StepDone,
     M!RunEnds, H!RunEnds, M!RunDies, H!RunDies, M!RunPc, H!RunPc, M!Escalate,
     H!Escalate, M!TimeOut, H!TimeOut, M!Wake, H!Wake, M!goto, H!goto, M!managerVars,
     H!managerVars, M!Authorized, H!Authorized, M!Owner, H!Owner, M!MayGo, H!MayGo,
     M!Transitions, H!Transitions, M!MayComplete, H!MayComplete, M!IsOver, H!IsOver,
     M!Completed, H!Completed, M!transition, H!transition, M!_finish, H!_finish,
     M!is_open, H!is_open
<1>3. M!OperatorNext <=> H!OperatorNext
  BY Zenon DEF M!OperatorNext, H!OperatorNext, M!Ids, H!Ids, M!take_control,
     H!take_control, M!CanTake, H!CanTake, M!approve, H!approve, M!CanApprove,
     H!CanApprove, M!release, H!release, M!CanRelease, H!CanRelease, M!abort, H!abort,
     M!CanAbort, H!CanAbort, M!request_pause, H!request_pause, M!managerVars,
     H!managerVars, M!runVars, H!runVars, M!transition, H!transition, M!MayGo, H!MayGo,
     M!Transitions, H!Transitions, M!_finish, H!_finish, M!is_open, H!is_open
<1>4. M!ConsoleNext <=> H!ConsoleNext
  BY Zenon DEF M!ConsoleNext, H!ConsoleNext, M!ConsoleCall, H!ConsoleCall,
     M!ConsoleStart, H!ConsoleStart, M!ConsoleEnds, H!ConsoleEnds, M!ConsoleProceeds,
     H!ConsoleProceeds, M!ConsoleRefused, H!ConsoleRefused, M!ConsoleActed,
     H!ConsoleActed, M!ConsoleSettled, H!ConsoleSettled, M!BrowserEvent, H!BrowserEvent,
     M!Idle, H!Idle, M!Ids, H!Ids, M!managerVars, H!managerVars, M!runVars, H!runVars,
     M!Authorized, H!Authorized, M!Owner, H!Owner
<1>5. M!Next <=> H!Next
  BY <1>2, <1>3, <1>4 DEF M!Next, H!Next
<1> QED
  BY <1>1, <1>5

LEMMA SameInit == M!Init <=> H!Init
  BY DEF M!Init, H!Init, M!Ids, H!Ids, M!Idle, H!Idle

\* The assumptions of HandoffProofs, here.
LEMMA HandoffAssumptions == H!KindsAssumption /\ H!BoundsAssumption
  BY KindsAssumption, BoundsAssumption
     DEF H!KindsAssumption, H!BoundsAssumption, E!InterventionKind

\* The inductive invariant of the handoff.
LEMMA HandoffInv == Spec => []H!Inv
<1>1. Init => H!Inv
  BY SameInit, H!InitInv, HandoffAssumptions
     DEF Init, H!KindsAssumption, H!BoundsAssumption
<1>2. H!Inv /\ [Next]_vars => H!Inv'
  BY StepIsHandoff, SameStep, H!NextInv, HandoffAssumptions
     DEF H!KindsAssumption, H!BoundsAssumption
<1> QED
  BY <1>1, <1>2, PTL DEF Spec

-----------------------------------------------------------------------------
(* Approvals are on record.                                                *)

\* The records show that a human let this step happen.
OnRecord(s) ==
    \E i \in M!Ids : /\ kind[i] = "approval_required"
                     /\ current_step[i] = s
                     /\ status[i] \in {"approved", "released"}

\* What the executor believes of approvals is on record; and the request that the
\* run is blocked on is the one the executor is about.
Approvals ==
    /\ DOMAIN current_step = M!Ids
    /\ \A s \in approved : OnRecord(s)
    /\ pc \in {"resolve", "act"} /\ confirm => E!current \in approved
    /\ pc = "handoff" /\ asking = "approval_required" => OnRecord(E!current)
    /\ run \in {"reporting", "waiting"} => pc = "asking"
    /\ run = "waiting" => kind[created] = asking /\ current_step[created] = E!current

\* An answered request stays on record.
LEMMA RecordsStay ==
    ASSUME H!Inv, DOMAIN current_step = M!Ids, [Next]_vars, NEW s, OnRecord(s)
    PROVE  OnRecord(s)'
<1>1. PICK i \in M!Ids : /\ kind[i] = "approval_required"
                         /\ current_step[i] = s
                         /\ status[i] \in {"approved", "released"}
  BY DEF OnRecord
<1>2. /\ i <= created /\ created \in Nat /\ i \in Int
      /\ kind \in [M!Ids -> Kinds] /\ DOMAIN status = M!Ids
      /\ M!Ids = 1 .. MaxInterventions /\ MaxInterventions \in Nat
  BY <1>1, BoundsAssumption
     DEF H!Inv, H!TypeOK, H!Numbered, H!Ids, M!Ids
<1>3. kind'[i] = kind[i] /\ status'[i] = status[i]
  <2>0. CASE UNCHANGED <<kind, status>>
    BY <2>0
  <2>1. CASE M!RunNext
    <3>1. CASE M!Escalate
      BY <1>1, <1>2, <3>1 DEF M!Escalate, M!_finish
    <3>2. CASE M!TimeOut
      BY <1>1, <1>2, <3>2 DEF M!TimeOut, M!_finish, M!is_open
    <3> QED
      BY <2>1, <3>1, <3>2
         DEF M!RunNext, M!RunStarts, M!CheckPause, M!RunActs, M!RunActed, M!RunReads,
             M!RunAsks, M!StepDone, M!RunEnds, M!RunDies, M!Wake, M!managerVars
  <2>2. CASE M!OperatorNext
    BY <1>1, <1>2, <2>2
       DEF M!OperatorNext, M!take_control, M!CanTake, M!approve, M!CanApprove, M!release,
           M!CanRelease, M!abort, M!CanAbort, M!is_open, M!_finish, M!request_pause,
           M!managerVars
  <2>3. CASE M!ConsoleNext
    BY <2>3
       DEF M!ConsoleNext, M!ConsoleCall, M!ConsoleStart, M!ConsoleProceeds, M!ConsoleRefused,
           M!ConsoleActed, M!ConsoleSettled, M!BrowserEvent, M!managerVars
  <2>4. CASE UNCHANGED M!vars
    BY <2>4 DEF M!vars, M!managerVars
  <2> QED
    BY <2>1, <2>2, <2>3, <2>4, StepIsHandoff DEF M!Next
<1>4. current_step'[i] = current_step[i]
  <2>1. CASE Escalate
    BY <1>1, <1>2, <2>1 DEF Escalate, M!Escalate
  <2> QED
    BY <2>1 DEF Next, Replay, RunReplay, Start, StopConsole, ConsoleStopped, CloseBrowser,
                Stays, Operator, Pause, ConsoleCall, vars
<1> QED
  BY <1>1, <1>3, <1>4 DEF OnRecord, M!Ids

\* A step that neither opens the gate nor takes an answer.
LEMMA OtherStep ==
    ASSUME Approvals, \A s : OnRecord(s) => OnRecord(s)', DOMAIN current_step' = M!Ids,
           UNCHANGED approved, pc' \notin {"resolve", "act", "handoff"},
           run' # "waiting", run' = "reporting" => pc' = "asking"
    PROVE  Approvals'
  BY DEF Approvals

\* A step after which the executor is where it was.
LEMMA QuietStep ==
    ASSUME Approvals, \A s : OnRecord(s) => OnRecord(s)',
           UNCHANGED <<pc, position, confirm, approved, asking, kind, created, current_step>>,
           run' = run \/ run' \notin {"reporting", "waiting"}
    PROVE  Approvals'
  BY DEF Approvals, E!current

\* What the rules and the on_error of a step lead to.
LEMMA UnexpectedGoes ==
    ASSUME NEW k, E!Unexpected(k)
    PROVE  pc' \notin {"resolve", "act", "handoff"}
  BY DEF E!Unexpected, E!ApplyRule, E!FailOrEscalate, E!Ask, E!Abort, E!Continue, E!goto

LEMMA ThinkApprovals ==
    ASSUME H!Inv, Approvals, Think, UNCHANGED current_step,
           \A s : OnRecord(s) => OnRecord(s)'
    PROVE  Approvals'
<1>0. run' # "waiting" /\ (run' = "reporting" => pc' = "asking")
  <2>1. CASE pc' \in {"asking", "top", "crashed"}
    BY <2>1 DEF Think, Follow, M!RunAsks, M!BeginRequest, M!StepDone, M!RunDies, M!goto
  <2>2. CASE pc' \notin {"asking", "top", "crashed"}
    <3>1. pc # "asking"
      BY <2>2 DEF Think, E!CheckPreconditions, E!EvaluatePolicy, E!Resolve,
                  E!CheckPostconditions, E!AfterHandoff, E!FinalCheckpoint, E!ReadFails,
                  E!Continue, E!goto
    <3> QED
      BY <2>2, <3>1 DEF Think, Follow, M!RunReads, M!goto, HandoffWaits, handoffVars, Approvals
  <2> QED
    BY <2>1, <2>2
<1>1. CASE E!CheckPreconditions \/ E!CheckPostconditions \/ E!FinalCheckpoint \/ E!ReadFails
  <2>1. UNCHANGED approved
    BY <1>1 DEF E!CheckPreconditions, E!CheckPostconditions, E!FinalCheckpoint, E!ReadFails,
                E!gateVars
  <2>2. pc' \notin {"resolve", "act", "handoff"}
    <3>1. CASE E!CheckPreconditions
      BY <3>1, UnexpectedGoes DEF E!CheckPreconditions, E!Continue, E!goto
    <3>2. CASE E!CheckPostconditions
      BY <3>2, UnexpectedGoes DEF E!CheckPostconditions, E!StepDone, E!GoOnAfter, E!goto
    <3>3. CASE E!FinalCheckpoint \/ E!ReadFails
      BY <3>3 DEF E!FinalCheckpoint, E!ReadFails, E!Abort, E!Continue, E!goto
    <3> QED
      BY <1>1, <3>1, <3>2, <3>3
  <2> QED
    BY <1>0, <2>1, <2>2, OtherStep DEF Approvals
<1>2. CASE E!EvaluatePolicy
  <2>1. CASE pc' = "resolve"
    BY <1>0, <1>2, <2>1 DEF E!EvaluatePolicy, E!Ask, E!Abort, E!Continue, E!goto, E!loopVars,
                            E!current, Approvals
  <2>2. CASE pc' # "resolve"
    BY <1>0, <1>2, <2>2, OtherStep
       DEF E!EvaluatePolicy, E!Ask, E!Abort, E!Continue, E!goto, E!gateVars, Approvals
  <2> QED
    BY <2>1, <2>2
<1>3. CASE E!Resolve
  <2>1. CASE pc' = "act"
    <3>1. pc = "resolve" /\ UNCHANGED <<position, confirm, approved>>
      BY <1>3, <2>1, UnexpectedGoes DEF E!Resolve, E!Continue, E!loopVars
    <3> QED
      BY <1>0, <2>1, <3>1 DEF Approvals, E!current
  <2>2. CASE pc' # "act"
    <3>1. UNCHANGED approved
      BY <1>3 DEF E!Resolve
    <3>2. pc' \notin {"resolve", "handoff"}
      BY <1>3, UnexpectedGoes DEF E!Resolve, E!Continue, E!goto
    <3> QED
      BY <1>0, <2>2, <3>1, <3>2, OtherStep DEF Approvals
  <2> QED
    BY <2>1, <2>2
<1>4. CASE E!AfterHandoff
  <2>1. CASE pc' = "resolve"
    <3>1. /\ pc = "handoff" /\ asking = "approval_required"
          /\ approved' = approved \cup {E!current}
          /\ UNCHANGED position
      BY <1>4, <2>1 DEF E!AfterHandoff, E!StepDone, E!ResumeAt, E!GoOnAfter, E!Abort,
                        E!Continue, E!goto, E!loopVars
    <3> QED
      BY <1>0, <2>1, <3>1 DEF Approvals, E!current
  <2>2. CASE pc' # "resolve"
    <3>1. UNCHANGED approved /\ pc' \notin {"act", "handoff"}
      BY <1>4, <2>2 DEF E!AfterHandoff, E!StepDone, E!ResumeAt, E!GoOnAfter, E!Abort,
                        E!Continue, E!goto
    <3> QED
      BY <1>0, <2>2, <3>1, OtherStep DEF Approvals
  <2> QED
    BY <2>1, <2>2
<1> QED
  BY <1>1, <1>2, <1>3, <1>4 DEF Think

LEMMA ApprovalsNext ==
    ASSUME H!Inv, Approvals, [Next]_vars
    PROVE  Approvals'
<1>1. \A s : OnRecord(s) => OnRecord(s)'
  BY RecordsStay DEF Approvals
<1>2. CASE UNCHANGED vars
  BY <1>1, <1>2, QuietStep DEF vars, executorVars, handoffVars
<1>3. CASE RunReplay \/ Operator \/ Pause \/ \E c \in Calls : ConsoleCall(c)
  <2>1. CASE RunReplay
    BY <1>1, <2>1, QuietStep
       DEF RunReplay, Start, StopConsole, ConsoleStopped, CloseBrowser, Stays,
           ExecutorWaits, executorVars, HandoffWaits, handoffVars
  <2>2. CASE Operator
    BY <1>1, <2>2, QuietStep
       DEF Operator, ExecutorWaits, executorVars, M!take_control, M!approve, M!release, M!abort,
           M!ConsoleStart, M!BrowserEvent, M!runVars, M!managerVars
  <2>3. CASE Pause
    BY <1>1, <2>3, QuietStep
       DEF Pause, E!RequestPause, E!loopVars, E!askVars, E!gateVars, M!request_pause,
           M!runVars, M!managerVars
  <2>4. ASSUME NEW c \in Calls, ConsoleCall(c) PROVE Approvals'
    BY <1>1, <2>4, QuietStep
       DEF ConsoleCall, ExecutorWaits, executorVars, M!ConsoleCall, M!ConsoleProceeds, M!ConsoleRefused,
           M!ConsoleActed, M!ConsoleSettled, M!runVars, M!managerVars
  <2> QED
    BY <1>3, <2>1, <2>2, <2>3, <2>4
<1>4. CASE Replay
  <2>0. DOMAIN current_step' = M!Ids
    BY <1>4 DEF Replay, Escalate, Approvals
  <2>1. CASE Think /\ UNCHANGED current_step
    BY <1>1, <2>1, ThinkApprovals
  <2>2. CASE (EntryNavigates \/ ActionBegins) /\ UNCHANGED current_step
    BY <1>1, <2>2, QuietStep
       DEF EntryNavigates, ActionBegins, M!RunActs, M!goto, M!managerVars, ExecutorWaits,
           executorVars
  <2>3. CASE Enter \/ Top \/ Act \/ Recover \/ Finish
    <3>1. UNCHANGED approved
      BY <2>3 DEF Enter, E!Enter, Top, E!Top, Act, E!Act, Recover, E!Recover, Finish,
                  E!Finish, E!gateVars
    <3>2. pc' \notin {"resolve", "act", "handoff"}
      BY <2>3 DEF Enter, E!Enter, Top, E!Top, Act, E!Act, Recover, E!Recover, Finish,
                  E!Finish, E!Ask, E!Abort, E!Continue, E!StepDone, E!GoOnAfter, E!goto
    <3>3. run' # "waiting" /\ (run' = "reporting" => pc' = "asking")
      <4>1. CASE Top
        <5>1. CASE pc' \in {"asking", "pre"}
          <6>1. M!CheckPause /\ (pause => pc' = "asking")
            BY <4>1, <5>1 DEF Top, E!Top, E!Abort, E!Continue, E!Ask, E!goto
          <6> QED
            BY <6>1 DEF M!CheckPause, M!BeginRequest, M!goto
        <5>2. CASE pc' \notin {"asking", "pre"}
          BY <4>1, <5>2 DEF Top, E!Top, HandoffWaits, handoffVars, Approvals
        <5> QED
          BY <5>1, <5>2
      <4>2. CASE Enter \/ Act \/ Recover \/ Finish
        <5>1. pc # "asking"
          BY <4>2 DEF Enter, E!Enter, Act, E!Act, Recover, E!Recover, Finish, E!Finish
        <5>2. run' = run \/ run' \notin {"reporting", "waiting"}
          BY <4>2 DEF Enter, Act, Recover, Finish, M!RunStarts, M!RunActed, M!RunDies,
                      M!RunReads, M!StepDone, M!RunEnds, M!goto, HandoffWaits, handoffVars
        <5> QED
          BY <5>1, <5>2 DEF Approvals
      <4> QED
        BY <2>3, <4>1, <4>2
    <3> QED
      BY <1>1, <2>0, <3>1, <3>2, <3>3, OtherStep
  <2>4. CASE TimeOut
    BY <1>1, <2>0, <2>4, OtherStep
       DEF TimeOut, M!TimeOut, M!goto, E!AnsweredBy, E!Refusals, E!goto
  <2>5. CASE Wake /\ UNCHANGED current_step
    <3>1. /\ pc = "asking" /\ run = "waiting" /\ created \in M!Ids
          /\ UNCHANGED <<position, asking, kind, created, status>>
          /\ run' \notin {"reporting", "waiting"}
      <4>1. pc = "asking" /\ run = "waiting"
        BY <2>5 DEF Wake, M!Wake, E!AnsweredBy
      <4>2. created \in M!Ids
        BY <4>1 DEF H!Inv, H!InStep, H!Ids, M!Ids
      <4>3. run' \notin {"reporting", "waiting"}
        BY <2>5 DEF Wake, M!Wake
      <4> QED
        BY <2>5, <4>1, <4>2, <4>3 DEF Wake, M!Wake, M!managerVars, E!AnsweredBy
    <3>2. kind[created] = asking /\ current_step[created] = E!current
      BY <3>1 DEF Approvals
    <3>3. CASE status[created] = "approved"
      <4>1. asking = "approval_required"
        BY <2>5, <3>3 DEF Wake, E!AnsweredBy, E!Answers
      <4>2. OnRecord(E!current)
        BY <3>1, <3>2, <3>3, <4>1 DEF OnRecord
      <4>3. approved' = approved \cup {E!current} /\ pc' = "resolve"
        BY <2>5, <3>3 DEF Wake, E!AnsweredBy, E!Refusals, E!goto
      <4> QED
        BY <1>1, <2>0, <3>1, <4>2, <4>3 DEF Approvals, E!current
    <3>4. CASE status[created] = "released"
      <4>1. UNCHANGED approved /\ pc' \notin {"resolve", "act"}
        BY <2>5, <3>4 DEF Wake, E!AnsweredBy, E!Refusals, E!goto
      <4>2. asking = "approval_required" => OnRecord(E!current)
        BY <3>1, <3>2, <3>4 DEF OnRecord
      <4> QED
        BY <1>1, <2>0, <3>1, <4>1, <4>2 DEF Approvals, E!current
    <3>5. CASE status[created] \notin {"approved", "released"}
      <4>1. UNCHANGED approved /\ pc' = "finishing"
        BY <2>5, <3>5 DEF Wake, E!AnsweredBy, E!Answers, E!Refusals, E!goto
      <4> QED
        BY <1>1, <2>0, <3>1, <4>1, OtherStep
    <3> QED
      BY <3>3, <3>4, <3>5
  <2>6. CASE Escalate
    <3>1. /\ run = "reporting" /\ pc = "asking" /\ created + 1 \in M!Ids
          /\ DOMAIN kind = M!Ids
      <4>1. run = "reporting"
        BY <2>6 DEF Escalate, M!Escalate
      <4> QED
        BY <4>1, BoundsAssumption
           DEF Approvals, H!Inv, H!InStep, H!TypeOK, H!Ids, M!Ids
    <3>2. CASE attended
      <4>1. UNCHANGED <<pc, position, confirm, approved, asking>>
        BY <2>6, <3>2 DEF Escalate, M!Escalate, ExecutorWaits, executorVars
      <4>2. kind'[created'] = asking' /\ current_step'[created'] = E!current
        BY <2>6, <3>1 DEF Escalate, M!Escalate, Approvals
      <4> QED
        BY <1>1, <2>0, <3>1, <4>1, <4>2 DEF Approvals, E!current
    <3>3. CASE ~attended
      BY <1>1, <2>0, <2>6, <3>3, OtherStep
         DEF Escalate, M!Escalate, M!goto, E!AnsweredBy, E!Refusals, E!goto
    <3> QED
      BY <3>2, <3>3
  <2> QED
    BY <1>4, <2>1, <2>2, <2>3, <2>4, <2>5, <2>6 DEF Replay
<1> QED
  BY <1>2, <1>3, <1>4 DEF Next

LEMMA ApprovalsInit == Init => Approvals
  BY DEF Init, M!Init, E!Init, Approvals, M!Ids

\* An action of the automation that wants a human is taken only if the manager's
\* records show that a human let this very step happen, whatever console requests,
\* pauses, timeouts and other hand-offs the run has seen.
THEOREM ApprovalsAreOnRecord == Spec => []ApprovalOnRecord
<1>1. Init /\ H!Inv => Approvals
  BY ApprovalsInit
<1>2. H!Inv /\ Approvals /\ [Next]_vars => Approvals'
  BY ApprovalsNext
<1>3. Approvals => ApprovalOnRecord
  BY DEF Approvals, OnRecord, ApprovalOnRecord
<1> QED
  BY <1>1, <1>2, <1>3, HandoffInv, PTL DEF Spec

-----------------------------------------------------------------------------
(* The page outlives the requests that use it.                             *)

NoCalls == \A c \in Calls : call[c].pc = "idle"

\* Console requests are in progress only while the console is served.
InService ==
    /\ DOMAIN call = Calls
    /\ ~attended \/ phase \in {"starting", "closing", "ended"} => NoCalls
    /\ browser = "closed" => phase = "ended"

\* The run begins and ends no console request.
LEMMA ReplayLeaves == Replay => UNCHANGED <<attended, call, phase, browser>>
<1> SUFFICES ASSUME Replay PROVE UNCHANGED <<attended, call>>
  BY DEF Replay, lifeVars
<1> USE DEF M!RunStarts, M!CheckPause, M!RunActs, M!RunActed, M!RunReads, M!RunAsks,
            M!StepDone, M!RunEnds, M!RunDies, M!Escalate, M!TimeOut, M!Wake,
            HandoffWaits, handoffVars, E!humanVars
<1>1. CASE Think
  <2>1. UNCHANGED attended
    BY <1>1, ThinkShares
  <2>2. UNCHANGED call
    BY <1>1 DEF Think, Follow
  <2> QED
    BY <2>1, <2>2
<1>2. CASE Enter \/ Top \/ Act \/ Recover \/ Finish
  BY <1>2 DEF Enter, E!Enter, Top, E!Top, Act, E!Act, Recover, E!Recover, Finish, E!Finish
<1>3. CASE EntryNavigates \/ ActionBegins \/ TimeOut \/ Wake \/ Escalate
  BY <1>3 DEF EntryNavigates, ActionBegins, TimeOut, Wake, Escalate
<1> QED
  BY <1>1, <1>2, <1>3 DEF Replay

LEMMA InServiceNext ==
    ASSUME InService, [Next]_vars
    PROVE  InService'
<1> USE DEF InService, NoCalls
<1>1. CASE UNCHANGED vars
  BY <1>1 DEF vars, handoffVars, lifeVars
<1>2. CASE Replay
  BY <1>2, ReplayLeaves
<1>3. CASE RunReplay
  <2>1. UNCHANGED <<attended, call>>
    BY <1>3 DEF RunReplay, Start, StopConsole, ConsoleStopped, CloseBrowser, Stays,
                HandoffWaits, handoffVars
  <2>2. CASE Start \/ StopConsole
    BY <2>1, <2>2 DEF Start, StopConsole
  <2>3. CASE ConsoleStopped \/ CloseBrowser
    BY <2>1, <2>3 DEF ConsoleStopped, CloseBrowser
  <2> QED
    BY <1>3, <2>2, <2>3 DEF RunReplay
<1>4. CASE Operator \/ Pause
  <2>1. attended /\ attended' /\ phase' \in {"running", "stopping"} /\ UNCHANGED browser
    BY <1>4 DEF Operator, Pause, Served, lifeVars, M!take_control, M!approve, M!release,
                M!abort, M!ConsoleStart, M!BrowserEvent, M!request_pause, E!RequestPause
  <2>2. DOMAIN call' = Calls /\ phase' = phase
    BY <1>4 DEF Operator, Pause, lifeVars, M!take_control, M!approve, M!release,
                M!abort, M!ConsoleStart, M!BrowserEvent, M!request_pause
  <2> QED
    BY <2>1, <2>2
<1>5. ASSUME NEW c \in Calls, ConsoleCall(c) PROVE InService'
  <2>1. call[c].pc # "idle"
    BY <1>5 DEF ConsoleCall, M!ConsoleCall, M!ConsoleProceeds, M!ConsoleRefused,
                M!ConsoleActed, M!ConsoleSettled
  <2>2. UNCHANGED <<attended, phase, browser>>
    BY <1>5 DEF ConsoleCall, M!ConsoleCall, M!ConsoleProceeds, M!ConsoleRefused,
                M!ConsoleActed, M!ConsoleSettled, lifeVars
  <2>3. DOMAIN call' = Calls
    <3>1. \E r : call' = [call EXCEPT ![c] = r]
      BY <1>5, Zenon DEF ConsoleCall, M!ConsoleCall, M!ConsoleProceeds, M!ConsoleRefused,
                M!ConsoleActed, M!ConsoleSettled, M!ConsoleEnds
    <3> QED
      BY <3>1
  <2> QED
    BY <2>1, <2>2, <2>3
<1> QED
  BY <1>1, <1>2, <1>3, <1>4, <1>5 DEF Next

\* The browser is not closed under a console request, however the run ended and
\* whatever the request was doing then.
THEOREM BrowserClosesLast == Spec => []BrowserOutlivesConsole
<1>1. Init => InService
  BY DEF Init, M!Init, M!Idle, InService, NoCalls
<1>2. InService /\ [Next]_vars => InService'
  BY InServiceNext
<1>3. InService => BrowserOutlivesConsole
  BY DEF InService, NoCalls, BrowserOutlivesConsole
<1> QED
  BY <1>1, <1>2, <1>3, PTL DEF Spec

-----------------------------------------------------------------------------
(* The result, the session and the interventions agree.                    *)

Refused == \E i \in M!Ids : status[i] \in E!Refusals

Ends ==
    /\ session = "ABORTED" <=> Refused
    /\ session = "ABORTED" => pc \in {"asking", "finishing", "done", "crashed"}
    /\ session = "ABORTED" /\ pc \in {"finishing", "done"} => result = "ESCALATED"
    /\ pc = "done" => run = "over" /\ session \in {"ABORTED", "COMPLETED"}

\* A session is aborted by a refusal, and by nothing else.
LEMMA RefusalsAbort ==
    ASSUME H!Inv, session = "ABORTED" <=> Refused, [Next]_vars
    PROVE  (session = "ABORTED" <=> Refused)'
<1> USE DEF Refused, E!Refusals
<1>0. /\ DOMAIN status = M!Ids /\ M!Ids = 1 .. MaxInterventions /\ MaxInterventions \in Nat
      /\ created \in 0 .. MaxInterventions
  BY BoundsAssumption DEF H!Inv, H!TypeOK, H!Ids, M!Ids
<1>1. CASE UNCHANGED <<session, status>>
  BY <1>1
<1>2. CASE M!RunNext
  <2>1. CASE M!Escalate
    <3>1. session = "AUTOMATION" /\ created + 1 \in M!Ids
      BY <1>0, <2>1 DEF M!Escalate, H!Inv, H!InStep, H!Working
    <3> QED
      BY <1>0, <2>1, <3>1 DEF M!Escalate, M!_finish
  <2>2. CASE M!TimeOut
    <3>1. created \in M!Ids
      BY <2>2 DEF M!TimeOut, H!Inv, H!InStep, H!Ids, M!Ids
    <3> QED
      BY <1>0, <2>2, <3>1 DEF M!TimeOut, M!transition, M!_finish
  <2>3. CASE M!Wake
    <3>1. status[created] = "released" => session = "RESUMING"
      BY <2>3 DEF M!Wake, H!Inv, H!InStep, H!SessionOf
    <3>2. /\ UNCHANGED status
          /\ session' = session \/ (status[created] = "released" /\ session' = "AUTOMATION")
      BY <2>3 DEF M!Wake, M!transition, M!managerVars
    <3> QED
      BY <3>1, <3>2
  <2>4. CASE M!RunEnds
    BY <2>4 DEF M!RunEnds, M!MayComplete, M!Completed, M!IsOver, M!managerVars
  <2> QED
    BY <1>2, <2>1, <2>2, <2>3, <2>4
       DEF M!RunNext, M!RunStarts, M!CheckPause, M!RunActs, M!RunActed, M!RunReads,
           M!RunAsks, M!StepDone, M!RunDies, M!managerVars
<1>3. CASE M!OperatorNext
  <2>1. ASSUME NEW i \in M!Ids, M!take_control(i) \/ M!approve(i) \/ M!release(i)
        PROVE  (session = "ABORTED" <=> Refused)'
    <3>1. M!is_open(i)
      BY <2>1 DEF M!take_control, M!CanTake, M!approve, M!CanApprove, M!release,
                  M!CanRelease, M!is_open
    <3>2. session # "ABORTED"
      BY <3>1 DEF M!is_open, H!is_open, H!Inv, H!OpenIsCurrent, H!InStep, H!SessionOf,
                  M!Ids, H!Ids
    <3>3. session' # "ABORTED"
          /\ \E new \in {"human_control", "approved", "released"} :
                 status' = [status EXCEPT ![i] = new]
      BY <2>1 DEF M!take_control, M!approve, M!release, M!transition, M!_finish
    <3> QED
      BY <1>0, <3>2, <3>3
  <2>2. ASSUME NEW i \in M!Ids, M!abort(i)
        PROVE  (session = "ABORTED" <=> Refused)'
    BY <1>0, <2>2 DEF M!abort, M!transition, M!_finish
  <2> QED
    BY <1>1, <1>3, <2>1, <2>2 DEF M!OperatorNext, M!request_pause, M!managerVars
<1>4. CASE M!ConsoleNext
  BY <1>1, <1>4
     DEF M!ConsoleNext, M!ConsoleCall, M!ConsoleStart, M!ConsoleProceeds, M!ConsoleRefused,
         M!ConsoleActed, M!ConsoleSettled, M!BrowserEvent, M!managerVars
<1>5. CASE UNCHANGED M!vars
  BY <1>1, <1>5 DEF M!vars, M!managerVars
<1> QED
  BY <1>2, <1>3, <1>4, <1>5, StepIsHandoff DEF M!Next

LEMMA EndsNext ==
    ASSUME H!Inv, Approvals, Ends, [Next]_vars
    PROVE  Ends'
<1>0. (session = "ABORTED" <=> Refused)'
  BY RefusalsAbort DEF Ends
<1>1. CASE UNCHANGED <<session, pc, result, run>>
  BY <1>0, <1>1 DEF Ends
<1>2. CASE Think
  <2>1. UNCHANGED session
    BY <1>2 DEF Think, Follow, M!RunAsks, M!StepDone, M!RunReads, M!RunDies, HandoffWaits,
                handoffVars
  <2>2. pc' # "done"
    <3>1. ASSUME NEW k, E!Unexpected(k) PROVE pc' # "done"
      BY <3>1 DEF E!Unexpected, E!ApplyRule, E!FailOrEscalate, E!Ask, E!Abort, E!Continue,
                  E!goto
    <3>2. CASE E!CheckPreconditions \/ E!CheckPostconditions \/ E!Resolve
      BY <3>1, <3>2 DEF E!CheckPreconditions, E!CheckPostconditions, E!Resolve, E!StepDone,
                        E!GoOnAfter, E!Continue, E!goto
    <3>3. CASE E!EvaluatePolicy \/ E!AfterHandoff \/ E!FinalCheckpoint \/ E!ReadFails
      BY <3>3 DEF E!EvaluatePolicy, E!AfterHandoff, E!FinalCheckpoint, E!ReadFails,
                  E!StepDone, E!ResumeAt, E!GoOnAfter, E!Ask, E!Abort, E!Continue, E!goto
    <3> QED
      BY <1>2, <3>2, <3>3 DEF Think
  <2>3. pc \in {"asking", "finishing", "done", "crashed"} => pc' = "crashed"
    BY <1>2 DEF Think, E!CheckPreconditions, E!EvaluatePolicy, E!Resolve,
                E!CheckPostconditions, E!AfterHandoff, E!FinalCheckpoint, E!ReadFails,
                E!Continue, E!goto
  <2> QED
    BY <1>0, <2>1, <2>2, <2>3 DEF Ends
<1>3. CASE EntryNavigates \/ Enter \/ Top \/ ActionBegins \/ Act \/ Recover
  <2>1. UNCHANGED session
    BY <1>3 DEF EntryNavigates, Enter, Top, ActionBegins, Act, Recover, M!RunActs,
                M!RunStarts, M!RunActed, M!RunDies, M!CheckPause, M!RunReads, M!StepDone,
                HandoffWaits, handoffVars
  <2>2. pc \notin {"asking", "finishing", "done", "crashed"}
    BY <1>3 DEF EntryNavigates, Enter, E!Enter, Top, E!Top, ActionBegins, Act, E!Act,
                Recover, E!Recover
  <2>3. pc' # "done"
    BY <1>3, <2>2
       DEF EntryNavigates, Enter, E!Enter, Top, E!Top, ActionBegins, Act, E!Act,
           Recover, E!Recover, E!StepDone, E!GoOnAfter, E!Ask, E!Abort, E!Continue, E!goto,
           ExecutorWaits, executorVars
  <2> QED
    BY <1>0, <2>1, <2>2, <2>3 DEF Ends
<1>4. CASE Finish
  <2>1. /\ pc = "finishing" /\ pc' = "done" /\ result' = result /\ run' = "over"
        /\ session' \in {"ABORTED", "COMPLETED"}
        /\ session' = "ABORTED" => session = "ABORTED"
    BY <1>4 DEF Finish, E!Finish, E!Continue, E!goto, M!RunEnds, M!goto, M!MayComplete,
                M!Completed, M!IsOver
  <2> QED
    BY <1>0, <2>1 DEF Ends
<1>5. CASE TimeOut
  BY <1>0, <1>5 DEF TimeOut, E!AnsweredBy, E!Refusals, E!goto, Ends
<1>6. CASE Wake
  <2>1. session' = "ABORTED" => status[created] = "aborted"
    BY <1>6 DEF Wake, M!Wake, M!transition, H!Inv, H!InStep, H!SessionOf
  <2>2. pc' # "done"
    BY <1>6 DEF Wake, E!AnsweredBy, E!goto
  <2>3. status[created] = "aborted" => pc' = "finishing" /\ result' = "ESCALATED"
    BY <1>6 DEF Wake, E!AnsweredBy, E!Refusals, E!goto
  <2> QED
    BY <1>0, <2>1, <2>2, <2>3 DEF Ends
<1>7. CASE Escalate
  <2>1. CASE attended
    <3>1. session' = "ESCALATED" /\ pc' = pc /\ pc # "done"
      BY <1>7, <2>1 DEF Escalate, M!Escalate, ExecutorWaits, executorVars, Approvals
    <3> QED
      BY <1>0, <3>1 DEF Ends
  <2>2. CASE ~attended
    BY <1>0, <1>7, <2>2 DEF Escalate, E!AnsweredBy, E!Refusals, E!goto, Ends
  <2> QED
    BY <2>1, <2>2
<1>8. CASE Operator
  <2>1. UNCHANGED <<pc, result>>
    BY <1>8 DEF Operator, ExecutorWaits, executorVars
  <2>2. ASSUME NEW i \in M!Ids,
               M!take_control(i) \/ M!approve(i) \/ M!release(i) \/ M!abort(i)
        PROVE  pc = "asking"
    <3>1. M!is_open(i)
      BY <2>2 DEF M!take_control, M!CanTake, M!approve, M!CanApprove, M!release,
                  M!CanRelease, M!abort, M!CanAbort, M!is_open
    <3> QED
      BY <3>1 DEF M!is_open, H!is_open, H!Inv, H!OpenIsCurrent, M!Ids, H!Ids, Approvals
  <2>3. CASE UNCHANGED <<session, run>>
    BY <1>1, <2>1, <2>3
  <2>4. CASE pc = "asking"
    BY <1>0, <2>1, <2>4 DEF Ends
  <2> QED
    BY <1>8, <2>2, <2>3, <2>4
       DEF Operator, M!ConsoleStart, M!BrowserEvent, M!runVars
<1>9. CASE RunReplay \/ Pause \/ (\E c \in Calls : ConsoleCall(c)) \/ UNCHANGED vars
  <2>1. CASE RunReplay \/ UNCHANGED vars
    BY <1>1, <2>1
       DEF RunReplay, Start, StopConsole, ConsoleStopped, CloseBrowser, Stays, HandoffWaits,
           handoffVars, ExecutorWaits, executorVars, vars
  <2>2. CASE Pause
    BY <1>1, <2>2 DEF Pause, E!RequestPause, M!request_pause, M!runVars
  <2>3. ASSUME NEW c \in Calls, ConsoleCall(c) PROVE Ends'
    BY <1>1, <2>3
       DEF ConsoleCall, ExecutorWaits, executorVars, M!ConsoleCall, M!ConsoleProceeds,
           M!ConsoleRefused, M!ConsoleActed, M!ConsoleSettled, M!runVars
  <2> QED
    BY <1>9, <2>1, <2>2, <2>3
<1> QED
  BY <1>2, <1>3, <1>4, <1>5, <1>6, <1>7, <1>8, <1>9 DEF Next, Replay

\* What run_replay returns and what the session's audit trail says agree.
THEOREM OutcomesMatch == Spec => []OutcomeMatchesSession
<1>1. Init /\ H!Inv => Approvals /\ Ends
  <2>1. Init => Ends
    BY DEF Init, M!Init, E!Init, Ends, Refused, E!Refusals, M!Ids
  <2> QED
    BY <2>1, ApprovalsInit
<1>2. H!Inv /\ Approvals /\ Ends /\ [Next]_vars => Approvals' /\ Ends'
  BY ApprovalsNext, EndsNext
<1>3. H!Inv /\ Ends => OutcomeMatchesSession
  <2> SUFFICES ASSUME H!Inv, Ends, pc = "done" PROVE M!Open = {}
    BY DEF OutcomeMatchesSession, Ends, Refused
  <2> QED
    BY DEF Ends, H!Inv, H!OpenIsCurrent, M!Open, M!is_open, H!is_open, M!Ids, H!Ids
<1> QED
  BY <1>1, <1>2, <1>3, HandoffInv, PTL DEF Spec

-----------------------------------------------------------------------------
(* E is ReplayExecutor, R is ReplayProofs, which extends it: what is proved   *)
(* of the executor, and of the handoff, holds of the supervised replay.       *)

LEMMA ReplayAssumptions ==
    R!SizeAssumption /\ R!StepAssumption /\ R!RuleAssumption /\ R!RulesFinite
<1>1. R!SizeAssumption
  BY SizeAssumption DEF SizeAssumption, R!SizeAssumption
<1>2. R!StepAssumption
  BY StepAssumption
     DEF StepAssumption, R!StepAssumption, E!StepIds, R!StepIds, E!StepSpec, R!StepSpec
<1>3. R!RuleAssumption
  BY RuleAssumption DEF RuleAssumption, R!RuleAssumption, E!RuleSpec, R!RuleSpec
<1>4. R!RulesFinite
  BY RulesFinite, Zenon DEF RulesFinite, R!RulesFinite, IsFiniteSet, R!IsFiniteSet
<1> QED
  BY <1>1, <1>2, <1>3, <1>4

LEMMA SameReplayStep == [E!Next]_(E!vars) <=> [R!Next]_(R!vars)
<1>1. UNCHANGED E!vars <=> UNCHANGED R!vars
  BY DEF E!vars, R!vars, E!loopVars, R!loopVars, E!humanVars, R!humanVars, E!askVars,
         R!askVars, E!gateVars, R!gateVars, E!recoveryVars, R!recoveryVars, E!doneVars,
         R!doneVars, E!history, R!history
<1>2. (E!Enter <=> R!Enter) /\ (E!Top <=> R!Top) /\ (E!FinalCheckpoint <=> R!FinalCheckpoint)
      /\ (E!Finish <=> R!Finish)
  BY Zenon DEF E!Enter, R!Enter, E!Top, R!Top, E!FinalCheckpoint, R!FinalCheckpoint, E!Finish,
     R!Finish, E!loopVars, R!loopVars, E!humanVars, R!humanVars, E!askVars, R!askVars,
     E!gateVars, R!gateVars, E!recoveryVars, R!recoveryVars, E!doneVars, R!doneVars,
     E!history, R!history, E!goto, R!goto, E!Continue, R!Continue, E!Abort, R!Abort,
     E!Ask, R!Ask
<1>3. ASSUME NEW k PROVE E!Unexpected(k) <=> R!Unexpected(k)
  BY Zenon DEF E!Unexpected, R!Unexpected, E!ApplyRule, R!ApplyRule, E!FailOrEscalate,
               R!FailOrEscalate, E!Ask, R!Ask, E!Abort, R!Abort, E!Continue, R!Continue,
               E!goto, R!goto, E!loopVars, R!loopVars, E!recoveryVars, R!recoveryVars,
               E!step, R!step, E!current, R!current
<1>4. /\ E!CheckPreconditions <=> R!CheckPreconditions
      /\ E!Resolve <=> R!Resolve
      /\ E!CheckPostconditions <=> R!CheckPostconditions
  BY <1>3, Zenon DEF E!CheckPreconditions, R!CheckPreconditions, E!Resolve, R!Resolve,
         E!CheckPostconditions, R!CheckPostconditions, E!loopVars, R!loopVars,
         E!humanVars, R!humanVars, E!askVars, R!askVars, E!gateVars, R!gateVars,
         E!recoveryVars, R!recoveryVars, E!doneVars, R!doneVars, E!history, R!history,
         E!goto, R!goto, E!Continue, R!Continue, E!GoOnAfter, R!GoOnAfter, E!StepDone,
         R!StepDone, E!step, R!step, E!current, R!current
<1>5. (E!EvaluatePolicy <=> R!EvaluatePolicy) /\ (E!Act <=> R!Act) /\ (E!Recover <=> R!Recover)
  BY Zenon DEF E!EvaluatePolicy, R!EvaluatePolicy, E!Act, R!Act, E!Recover, R!Recover,
         E!loopVars, R!loopVars, E!humanVars, R!humanVars, E!askVars, R!askVars,
         E!gateVars, R!gateVars, E!recoveryVars, R!recoveryVars, E!doneVars, R!doneVars,
         E!history, R!history, E!goto, R!goto, E!Continue, R!Continue, E!Abort, R!Abort,
         E!GoOnAfter, R!GoOnAfter, E!StepDone, R!StepDone, E!Ask, R!Ask, E!step, R!step,
         E!current, R!current
<1>6. E!Answered <=> R!Answered
  BY Zenon DEF E!Answered, R!Answered, E!AnsweredBy, R!AnsweredBy, E!Answers, R!Answers,
         E!Refusals, R!Refusals, E!loopVars, R!loopVars, E!humanVars, R!humanVars,
         E!askVars, R!askVars, E!gateVars, R!gateVars, E!recoveryVars, R!recoveryVars,
         E!doneVars, R!doneVars, E!history, R!history, E!goto, R!goto, E!current,
         R!current
<1>7. E!AfterHandoff <=> R!AfterHandoff
  BY Zenon DEF E!AfterHandoff, R!AfterHandoff, E!ResumeAt, R!ResumeAt, E!loopVars, R!loopVars,
         E!humanVars, R!humanVars, E!askVars, R!askVars, E!gateVars, R!gateVars,
         E!recoveryVars, R!recoveryVars, E!doneVars, R!doneVars, E!history, R!history,
         E!goto, R!goto, E!Continue, R!Continue, E!Abort, R!Abort, E!GoOnAfter,
         R!GoOnAfter, E!StepDone, R!StepDone, E!step, R!step, E!current, R!current
<1>8. (E!ReadFails <=> R!ReadFails) /\ (E!RequestPause <=> R!RequestPause)
  BY Zenon DEF E!ReadFails, R!ReadFails, E!RequestPause, R!RequestPause, E!loopVars,
         R!loopVars, E!humanVars, R!humanVars, E!askVars, R!askVars, E!gateVars,
         R!gateVars, E!recoveryVars, R!recoveryVars, E!doneVars, R!doneVars, E!history,
         R!history, E!goto, R!goto, E!Continue, R!Continue
<1> QED
  BY <1>1, <1>2, <1>4, <1>5, <1>6, <1>7, <1>8 DEF E!Next, R!Next, E!Executor, R!Executor

LEMMA SameReplayInit == E!Init <=> R!Init
  BY DEF E!Init, R!Init, E!StepIds, R!StepIds

\* The inductive invariant of the executor, its budgets included.
LEMMA ReplayInv == Spec => []R!Kept
<1>1. Init => R!Kept
  BY SameReplayInit, R!KeptInit, ReplayAssumptions DEF Init
<1>2. R!Kept /\ [Next]_vars => R!Kept'
  BY StepIsExecutor, SameReplayStep, R!KeptNext, ReplayAssumptions
<1> QED
  BY <1>1, <1>2, PTL DEF Spec

LEMMA SameReplayProperties ==
    /\ E!StepsAccountedFor <=> R!StepsAccountedFor
    /\ E!SuccessIsEarned <=> R!SuccessIsEarned
    /\ E!RecoveriesWithinBudget <=> R!RecoveriesWithinBudget
    /\ E!TriesWithinBudgets <=> R!TriesWithinBudgets
<1>1. E!StepsAccountedFor <=> R!StepsAccountedFor
  BY Zenon DEF E!StepsAccountedFor, R!StepsAccountedFor, E!ToSet, R!ToSet
<1>2. E!SuccessIsEarned <=> R!SuccessIsEarned
  BY DEF E!SuccessIsEarned, R!SuccessIsEarned
<1>3. E!RecoveriesWithinBudget <=> R!RecoveriesWithinBudget
  BY Zenon DEF E!RecoveriesWithinBudget, R!RecoveriesWithinBudget, E!RulesWithinBudget,
     R!RulesWithinBudget, E!StepIds, R!StepIds, E!NotMade, R!NotMade, E!FoldFunction,
     R!FoldFunction, E!FoldFunctionOnSet, R!FoldFunctionOnSet, E!MapThenFoldSet, R!MapThenFoldSet
<1>4. E!TriesWithinBudgets <=> R!TriesWithinBudgets
  BY Zenon DEF E!TriesWithinBudgets, R!TriesWithinBudgets, E!step, R!step, E!current, R!current,
     E!Recoverable, R!Recoverable, E!FoldFunctionOnSet, R!FoldFunctionOnSet,
     E!MapThenFoldSet, R!MapThenFoldSet
<1> QED
  BY <1>1, <1>2, <1>3, <1>4

\* What holds of a replay by itself holds of one that is supervised: every step is
\* accounted for, success is earned, recoveries and tries keep to their budgets,
\* and after a refusal the run leaves the page alone.
THEOREM ExecutorHolds ==
    Spec => /\ [](E!StepsAccountedFor /\ E!SuccessIsEarned
                  /\ E!RecoveriesWithinBudget /\ E!TriesWithinBudgets)
            /\ E!RefusalIsFinal
<1>1. R!Kept => E!StepsAccountedFor /\ E!SuccessIsEarned
                /\ E!RecoveriesWithinBudget /\ E!TriesWithinBudgets
  BY SameReplayProperties, R!KeptGives, ReplayAssumptions
<1>2. R!Kept /\ [Next]_vars =>
          [refused => attempts' = attempts /\ pc' # "recovering" /\ result' = "ESCALATED"]_(E!vars)
  <2> SUFFICES ASSUME R!Kept, [Next]_vars
               PROVE  [refused => attempts' = attempts /\ pc' # "recovering"
                                  /\ result' = "ESCALATED"]_(E!vars)
    OBVIOUS
  <2>1. [R!Next]_(R!vars)
    BY StepIsExecutor, SameReplayStep
  <2>2. [refused => attempts' = attempts /\ pc' # "recovering" /\ result' = "ESCALATED"]_(R!vars)
    BY <2>1, R!RefusalStep, ReplayAssumptions DEF R!Kept
  <2>3. UNCHANGED E!vars <=> UNCHANGED R!vars
    BY DEF E!vars, R!vars, E!loopVars, R!loopVars, E!humanVars, R!humanVars, E!askVars,
           R!askVars, E!gateVars, R!gateVars, E!recoveryVars, R!recoveryVars, E!doneVars,
           R!doneVars, E!history, R!history
  <2> QED
    BY <2>2, <2>3
<1> QED
  BY <1>1, <1>2, ReplayInv, PTL DEF Spec, E!RefusalIsFinal

LEMMA SameRun ==
    /\ E!Contract!Init <=> R!Contract!Init
    /\ [E!Contract!Next]_(E!Contract!rvars) <=> [R!Contract!Next]_(R!Contract!rvars)
<1>1. E!Outcome = R!Outcome
  BY DEF E!Outcome, R!Outcome
<1> QED
  BY <1>1, Zenon DEF E!Contract!Init, R!Contract!Init, E!Contract!Next, R!Contract!Next,
     E!Contract!rvars, R!Contract!rvars, E!Contract!Account, R!Contract!Account,
     E!Contract!Succeed, R!Contract!Succeed, E!Contract!Stop, R!Contract!Stop,
     E!ReplayStatus, R!ReplayStatus, E!Outcome, R!Outcome

\* A supervised replay is a run of a capability, its liveness aside.
THEOREM RunsCapability == Spec => E!Contract!Safety
<1>1. Init => E!Contract!Init
  BY SameRun, SameReplayInit, R!InitRefines, ReplayAssumptions DEF Init
<1>2. R!Kept /\ [Next]_vars => [E!Contract!Next]_(E!Contract!rvars)
  BY SameRun, StepIsExecutor, SameReplayStep, R!StepRefines, ReplayAssumptions DEF R!Kept
<1> QED
  BY <1>1, <1>2, ReplayInv, PTL DEF Spec, E!Contract!Safety

LEMMA SameHandoffProperties ==
    /\ M!StatusMatchesSession <=> H!StatusMatchesSession
    /\ M!AtMostOneOpen <=> H!AtMostOneOpen
    /\ M!AutomationActsUnasked <=> H!AutomationActsUnasked
    /\ M!NoIllegalTransition <=> H!NoIllegalTransition
    /\ M!LogImpliesControl <=> H!LogImpliesControl
    /\ M!OverlapOnlyAfterRelease <=> H!OverlapOnlyAfterRelease
<1>1. M!StatusMatchesSession <=> H!StatusMatchesSession
  BY Zenon DEF M!StatusMatchesSession, H!StatusMatchesSession, M!Ids, H!Ids
<1>2. (M!AtMostOneOpen <=> H!AtMostOneOpen)
      /\ (M!AutomationActsUnasked <=> H!AutomationActsUnasked)
  BY Zenon DEF M!AtMostOneOpen, H!AtMostOneOpen, M!AutomationActsUnasked,
               H!AutomationActsUnasked, M!Open, H!Open, M!is_open, H!is_open, M!Ids,
               H!Ids, M!Authorized, H!Authorized, M!Owner, H!Owner
<1>3. M!NoIllegalTransition <=> H!NoIllegalTransition
  BY Zenon DEF M!NoIllegalTransition, H!NoIllegalTransition, M!MayGo, H!MayGo,
               M!Transitions, H!Transitions, M!MayComplete, H!MayComplete, M!IsOver,
               H!IsOver, M!is_open, H!is_open, M!Ids, H!Ids, M!CanTake, H!CanTake,
               M!CanApprove, H!CanApprove, M!CanRelease, H!CanRelease, M!CanAbort,
               H!CanAbort
<1>4. M!LogImpliesControl <=> H!LogImpliesControl
  BY Zenon DEF M!LogImpliesControl, H!LogImpliesControl, M!Ids, H!Ids
<1>5. M!OverlapOnlyAfterRelease <=> H!OverlapOnlyAfterRelease
  BY Zenon DEF M!OverlapOnlyAfterRelease, H!OverlapOnlyAfterRelease, M!HumanActing,
               H!HumanActing
<1> QED
  BY <1>1, <1>2, <1>3, <1>4, <1>5

\* What holds of the handoff around an abstract run holds of it around the executor:
\* the session, the records and the ownership of the page agree, no transition is
\* illegal, a resolution is final, and the human and the automation take turns.
THEOREM HandoffHolds ==
    Spec => /\ [](/\ M!StatusMatchesSession /\ M!AtMostOneOpen /\ M!AutomationActsUnasked
                  /\ M!NoIllegalTransition /\ M!LogImpliesControl
                  /\ M!OverlapOnlyAfterRelease)
            /\ M!ResolvedForGood
            /\ M!HumanNeverStartsOverAutomation
<1>1. H!Inv => /\ M!StatusMatchesSession /\ M!AtMostOneOpen /\ M!AutomationActsUnasked
               /\ M!NoIllegalTransition /\ M!LogImpliesControl
               /\ M!OverlapOnlyAfterRelease
  BY SameHandoffProperties, H!InvGives, HandoffAssumptions
<1>2. H!Inv /\ [Next]_vars =>
          /\ [\A i \in M!Ids : status[i] \in M!TERMINAL_STATUSES => status'[i] = status[i]]_(M!vars)
          /\ [\A c \in Calls : call[c].pc # "acting" /\ call'[c].pc = "acting" =>
                  run \notin {"acting", "recovering"}]_(M!vars)
  <2> SUFFICES ASSUME H!Inv, [Next]_vars
               PROVE  /\ [\A i \in M!Ids : status[i] \in M!TERMINAL_STATUSES =>
                             status'[i] = status[i]]_(M!vars)
                      /\ [\A c \in Calls : call[c].pc # "acting" /\ call'[c].pc = "acting" =>
                             run \notin {"acting", "recovering"}]_(M!vars)
    OBVIOUS
  <2>1. [H!Next]_(H!vars)
    BY StepIsHandoff, SameStep
  <2>2. /\ [\A i \in H!Ids : status[i] \in H!TERMINAL_STATUSES => status'[i] = status[i]]_(H!vars)
        /\ [\A c \in Calls : call[c].pc # "acting" /\ call'[c].pc = "acting" =>
               run \notin {"acting", "recovering"}]_(H!vars)
    BY <2>1, H!StepGives, HandoffAssumptions
  <2>3. UNCHANGED M!vars <=> UNCHANGED H!vars
    BY DEF M!vars, H!vars, M!managerVars, H!managerVars
  <2> QED
    BY <2>2, <2>3 DEF M!Ids, H!Ids, M!TERMINAL_STATUSES, H!TERMINAL_STATUSES
<1> QED
  BY <1>1, <1>2, HandoffInv, PTL DEF Spec, M!ResolvedForGood, M!HumanNeverStartsOverAutomation

LEMMA SameToken ==
    /\ M!Abstract!Init <=> H!Abstract!Init
    /\ [M!Abstract!Next]_(M!Abstract!avars) <=> [H!Abstract!Next]_(H!Abstract!avars)
  BY Zenon DEF M!Abstract!Init, H!Abstract!Init, M!Abstract!Next, H!Abstract!Next,
     M!Abstract!avars, H!Abstract!avars, M!Abstract!Ask, H!Abstract!Ask,
     M!Abstract!PickUp, H!Abstract!PickUp, M!Abstract!Close, H!Abstract!Close,
     M!Abstract!GiveBack, H!Abstract!GiveBack, M!Abstract!GiveUp, H!Abstract!GiveUp,
     M!Abstract!End, H!Abstract!End, M!Owner, H!Owner, M!Open, H!Open, M!Ids, H!Ids,
     M!is_open, H!is_open, M!IsOver, H!IsOver

\* The human and the executor pass one token of control, liveness aside.
THEOREM PassesControl == Spec => M!Abstract!Safety
<1>1. Init => M!Abstract!Init
  BY SameToken, SameInit, H!InitRefines, HandoffAssumptions DEF Init
<1>2. H!Inv /\ [Next]_vars => [M!Abstract!Next]_(M!Abstract!avars)
  BY SameToken, StepIsHandoff, SameStep, H!StepRefines, HandoffAssumptions
<1> QED
  BY <1>1, <1>2, HandoffInv, PTL DEF Spec, M!Abstract!Safety
==============================================================================
