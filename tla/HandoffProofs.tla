---------------------------- MODULE HandoffProofs ----------------------------
(***************************************************************************)
(* Proofs about Handoff, for any number of interventions, console actions  *)
(* and kinds.  The inductive invariant Inv says, for each place where the  *)
(* run can be suspended, what the session and the interventions look like  *)
(* then; the safety properties of Handoff follow from it.                  *)
(***************************************************************************)
EXTENDS Handoff, TLAPS

Working == {"entering", "boundary", "stepping", "acting", "judging", "recovering", "reporting"}

\* The session that goes with the status of the intervention the run waits for.
SessionOf ==
    [pending       |-> "ESCALATED",
     human_control |-> "HUMAN_CONTROL",
     released      |-> "RESUMING",
     approved      |-> "AUTOMATION",
     aborted       |-> "ABORTED"]

Numbered == \A i \in Ids : status[i] = "absent" <=> i > created

\* Only the latest intervention can be open, and only while the run waits.
OpenIsCurrent == \A i \in Ids : is_open(i) => i = created /\ run = "waiting"

InStep ==
    /\ run \in Working => session = "AUTOMATION"
    /\ run = "waiting" =>
           /\ created \in Ids
           /\ status[created] \in DOMAIN SessionOf
           /\ session = SessionOf[status[created]]
    /\ run = "closing" => session = "ABORTED"
    /\ run = "over" => session \in {"AUTOMATION", "COMPLETED", "ABORTED"}
    /\ run = "reporting" => created < MaxInterventions

Controlled == {"human_control", "released", "aborted", "timed_out"}

\* Records, and console actions that will leave one, belong to interventions
\* that a human has controlled.
LogsControlled ==
    /\ \A i \in Ids : log[i] # <<>> => status[i] \in Controlled
    /\ \A c \in Calls : call[c].pc # "idle" =>
           call[c].id \in Ids /\ status[call[c].id] \in Controlled

Refusals == {"aborted", "timed_out", "unattended"}

\* Only the latest intervention can have been refused, and the run acts no more.
RefusalEnds ==
    \A i \in Ids : status[i] \in Refusals =>
        i = created /\ run \in {"waiting", "closing", "over"}

Inv == TypeOK /\ Numbered /\ OpenIsCurrent /\ InStep /\ LogsControlled /\ RefusalEnds

-----------------------------------------------------------------------------
LEMMA InitInv == Init => Inv
<1> SUFFICES ASSUME Init PROVE Inv
  OBVIOUS
<1>1. TypeOK
  <2>1. session \in SessionState /\ run \in RunPc /\ asking \in Kinds
    BY KindsAssumption DEF Init, SessionState, RunPc
  <2>2. created \in 0 .. MaxInterventions /\ records \in 0 .. MaxRecords
    BY BoundsAssumption DEF Init
  <2>3. kind \in [Ids -> Kinds] /\ status \in [Ids -> InterventionStatus]
    BY KindsAssumption DEF Init, InterventionStatus
  <2>4. log \in [Ids -> Seq(HumanActionRecord)]
    BY DEF Init
  <2>5. call \in [Calls -> [pc : CallPc, id : Ids \cup {0}]]
    BY DEF Init, Idle, CallPc
  <2> QED
    BY <2>1, <2>2, <2>3, <2>4, <2>5 DEF Init, TypeOK
<1>2. Numbered /\ OpenIsCurrent /\ InStep /\ LogsControlled /\ RefusalEnds
  BY DEF Init, Numbered, OpenIsCurrent, InStep, LogsControlled, RefusalEnds, Refusals,
         Working, is_open, Idle, Ids
<1> QED
  BY <1>1, <1>2 DEF Inv

\* A step of the run that creates and resolves nothing: it moves only run.
LEMMA RunMoves ==
    ASSUME Inv, run \in Working, run' \in Working \cup {"over"},
           UNCHANGED <<attended, session, managerVars, proxied, call, records>>,
           asking' \in Kinds, pause' \in BOOLEAN,
           run' = "reporting" => created < MaxInterventions
    PROVE  Inv'
<1> USE DEF Inv, managerVars
<1>1. TypeOK'
  BY DEF TypeOK, Working, RunPc
<1>2. Numbered' /\ OpenIsCurrent' /\ LogsControlled' /\ RefusalEnds'
  BY DEF Numbered, OpenIsCurrent, LogsControlled, RefusalEnds, Working, is_open
<1>3. InStep'
  BY DEF InStep, Working
<1> QED
  BY <1>1, <1>2, <1>3

\* What the session is when some intervention is pending, or under control.
LEMMA OpenFacts ==
    ASSUME Inv, NEW i \in Ids, is_open(i)
    PROVE  /\ i = created
           /\ run = "waiting"
           /\ status[i] = "pending" => session = "ESCALATED"
           /\ status[i] = "human_control" => session = "HUMAN_CONTROL"
  BY DEF Inv, OpenIsCurrent, InStep, is_open, SessionOf

\* An operator answers the open intervention: its status and the session change
\* together, and a status that a human has controlled stays one.
LEMMA OperatorAnswers ==
    ASSUME Inv, NEW i \in Ids, NEW new \in DOMAIN SessionOf,
           is_open(i),
           status[i] \in Controlled => new \in Controlled,
           session' = SessionOf[new],
           status' = [status EXCEPT ![i] = new],
           UNCHANGED <<attended, created, kind, log, pause, proxied, runVars, call, records>>
    PROVE  Inv'
<1> USE DEF Inv, runVars
<1>1. i = created /\ run = "waiting"
  BY OpenFacts
<1>2. TypeOK'
  BY DEF TypeOK, SessionOf, SessionState, InterventionStatus, TERMINAL_STATUSES
<1>3. Numbered' /\ OpenIsCurrent'
  <2>1. new # "absent"
    BY DEF SessionOf
  <2> QED
    BY <1>1, <2>1 DEF TypeOK, Numbered, OpenIsCurrent, is_open
<1>4. InStep'
  BY <1>1 DEF TypeOK, InStep, Working
<1>5. LogsControlled'
  BY DEF TypeOK, LogsControlled
<1>6. RefusalEnds'
  BY <1>1 DEF TypeOK, RefusalEnds
<1> QED
  BY <1>2, <1>3, <1>4, <1>5, <1>6

\* A console action moves: it changes its own state, and its record goes to an
\* intervention that a human has controlled.
LEMMA ConsoleMoves ==
    ASSUME Inv, NEW c \in Calls,
           NEW new \in [pc : CallPc, id : Ids \cup {0}],
           new.pc # "idle" => new.id \in Ids /\ status[new.id] \in Controlled,
           call' = [call EXCEPT ![c] = new],
           proxied' \in BOOLEAN,
           records' \in 0 .. MaxRecords,
           log' \in [Ids -> Seq(HumanActionRecord)],
           \A i \in Ids : log'[i] # log[i] => status[i] \in Controlled,
           UNCHANGED <<attended, session, created, kind, status, pause, runVars>>
    PROVE  Inv'
<1> USE DEF Inv, runVars
<1>1. TypeOK'
  BY DEF TypeOK
<1>2. Numbered' /\ OpenIsCurrent' /\ InStep' /\ RefusalEnds'
  BY DEF Numbered, OpenIsCurrent, InStep, RefusalEnds, is_open
<1>3. LogsControlled'
  BY DEF TypeOK, LogsControlled
<1> QED
  BY <1>1, <1>2, <1>3

LEMMA RunNextInv == Inv /\ RunNext => Inv'
<1> SUFFICES ASSUME Inv, RunNext PROVE Inv'
  OBVIOUS
<1>0. TypeOK /\ Numbered /\ OpenIsCurrent /\ InStep /\ LogsControlled /\ RefusalEnds
  BY DEF Inv
<1>1. CASE CheckPause
  BY <1>0, <1>1, RunMoves, KindsAssumption
     DEF CheckPause, BeginRequest, goto, Working, TypeOK
<1>2. CASE RunActs
  BY <1>0, <1>2, RunMoves DEF RunActs, goto, Working, TypeOK
<1>3. CASE RunActed
  BY <1>0, <1>3, RunMoves DEF RunActed, goto, Working, TypeOK
<1>4. CASE RunAsks
  BY <1>0, <1>4, RunMoves DEF RunAsks, BeginRequest, goto, Working, TypeOK
<1>5. CASE StepDone \/ RunReads \/ RunStarts
  BY <1>0, <1>5, RunMoves DEF StepDone, RunReads, RunStarts, goto, Working, TypeOK
<1>6. CASE RunDies
  <2>1. CASE run = "closing"
    <3>1. TypeOK' /\ InStep'
      BY <1>0, <1>6, <2>1 DEF RunDies, goto, TypeOK, InStep, Working, RunPc, managerVars
    <3>2. Numbered' /\ OpenIsCurrent' /\ LogsControlled' /\ RefusalEnds'
      BY <1>0, <1>6, <2>1
         DEF RunDies, goto, Numbered, OpenIsCurrent, LogsControlled, RefusalEnds, is_open,
             managerVars
    <3> QED
      BY <3>1, <3>2 DEF Inv
  <2>2. CASE run # "closing"
    BY <1>0, <1>6, <2>2, RunMoves DEF RunDies, goto, Working, TypeOK, RunPc
  <2> QED
    BY <2>1, <2>2
<1>7. CASE RunEnds
  <2> USE <1>0, <1>7 DEF RunEnds, goto, managerVars
  <2>1. TypeOK'
    BY DEF TypeOK, RunPc, SessionState, Completed, IsOver
  <2>2. Numbered' /\ OpenIsCurrent' /\ LogsControlled' /\ RefusalEnds'
    BY DEF Numbered, OpenIsCurrent, LogsControlled, RefusalEnds, is_open
  <2>3. InStep'
    BY DEF InStep, Working, Completed, IsOver
  <2> QED
    BY <2>1, <2>2, <2>3 DEF Inv
<1>8. CASE Escalate
  <2> USE <1>0, <1>8 DEF Escalate, goto, _finish
  <2>1. created + 1 \in Ids /\ created' = created + 1
    BY BoundsAssumption DEF TypeOK, InStep, Ids
  <2>2. status[created + 1] = "absent" /\ status'[created + 1] \in {"pending", "unattended"}
    <3>1. created + 1 > created
      BY BoundsAssumption DEF TypeOK
    <3>2. status[created + 1] = "absent"
      BY <2>1, <3>1 DEF Numbered
    <3>3. status'[created + 1] \in {"pending", "unattended"}
      BY <2>1 DEF TypeOK
    <3> QED
      BY <3>2, <3>3
  <2>3. \A i \in Ids : i # created + 1 => status'[i] = status[i]
    BY DEF TypeOK
  <2>4. TypeOK'
    <3>1. status' \in [Ids -> InterventionStatus]
      BY DEF TypeOK, InterventionStatus, TERMINAL_STATUSES
    <3>2. kind' \in [Ids -> Kinds] /\ created' \in 0 .. MaxInterventions
      BY <2>1 DEF TypeOK, Ids
    <3> QED
      BY <3>1, <3>2 DEF TypeOK, RunPc, SessionState
  <2>5. Numbered'
    <3>1. created \in Int /\ \A i \in Ids : i \in Int
      BY BoundsAssumption DEF TypeOK, Ids
    <3> QED
      BY <2>1, <2>2, <2>3, <3>1 DEF Numbered
  <2>6. OpenIsCurrent'
    <3>1. \A i \in Ids : ~is_open(i)
      BY DEF OpenIsCurrent
    <3>2. \A i \in Ids : is_open(i)' => i = created + 1 /\ attended
      BY <2>2, <2>3, <3>1 DEF is_open, TypeOK
    <3> QED
      BY <2>1, <3>2 DEF OpenIsCurrent
  <2>7. InStep'
    BY <2>1 DEF InStep, Working, SessionOf, TypeOK
  <2>8. LogsControlled'
    BY <2>2, <2>3 DEF LogsControlled, Controlled, TypeOK
  <2>9. RefusalEnds'
    BY <2>1, <2>2, <2>3 DEF RefusalEnds, Refusals, TypeOK
  <2> QED
    BY <2>4, <2>5, <2>6, <2>7, <2>8, <2>9 DEF Inv
<1>9. CASE TimeOut
  <2> USE <1>0, <1>9 DEF TimeOut, goto, _finish, transition
  <2>1. created \in Ids
    BY DEF InStep
  <2>2. \A i \in Ids : i # created => status'[i] = status[i]
    BY DEF TypeOK
  <2>3. status'[created] = "timed_out"
    BY <2>1 DEF TypeOK
  <2>4. TypeOK'
    BY DEF TypeOK, InterventionStatus, TERMINAL_STATUSES, RunPc, SessionState
  <2>5. Numbered'
    BY <2>2, <2>3 DEF Numbered, is_open
  <2>6. OpenIsCurrent' /\ InStep'
    BY <2>2, <2>3 DEF OpenIsCurrent, InStep, is_open, Working
  <2>7. LogsControlled' /\ RefusalEnds'
    BY <2>2, <2>3 DEF LogsControlled, Controlled, RefusalEnds
  <2> QED
    BY <2>4, <2>5, <2>6, <2>7 DEF Inv
<1>10. CASE Wake
  <2> USE <1>0, <1>10 DEF Wake, goto, transition, managerVars
  <2>1. created \in Ids /\ status[created] \in {"released", "approved", "aborted"}
    BY DEF InStep, SessionOf, is_open
  <2>2. TypeOK'
    BY DEF TypeOK, RunPc, SessionState
  <2>3. Numbered' /\ LogsControlled'
    BY DEF Numbered, LogsControlled
  <2>4. OpenIsCurrent'
    BY DEF OpenIsCurrent, is_open
  <2>5. InStep'
    BY <2>1 DEF InStep, Working, SessionOf
  <2>6. RefusalEnds'
    BY <2>1 DEF RefusalEnds, Refusals
  <2> QED
    BY <2>2, <2>3, <2>4, <2>5, <2>6 DEF Inv
<1> QED
  BY <1>1, <1>2, <1>3, <1>4, <1>5, <1>6, <1>7, <1>8, <1>9, <1>10 DEF RunNext

LEMMA OperatorNextInv == Inv /\ OperatorNext => Inv'
<1> SUFFICES ASSUME Inv, OperatorNext PROVE Inv'
  OBVIOUS
<1>1. ASSUME NEW i \in Ids, take_control(i) PROVE Inv'
  BY <1>1, OperatorAnswers
     DEF take_control, CanTake, transition, is_open, SessionOf, Controlled
<1>2. ASSUME NEW i \in Ids, approve(i) PROVE Inv'
  BY <1>2, OperatorAnswers
     DEF approve, CanApprove, transition, _finish, is_open, SessionOf, Controlled
<1>3. ASSUME NEW i \in Ids, release(i) PROVE Inv'
  BY <1>3, OperatorAnswers
     DEF release, CanRelease, transition, _finish, is_open, SessionOf, Controlled
<1>4. ASSUME NEW i \in Ids, abort(i) PROVE Inv'
  BY <1>4, OperatorAnswers
     DEF abort, CanAbort, transition, _finish, is_open, SessionOf, Controlled
<1>5. CASE request_pause
  BY <1>5 DEF request_pause, Inv, TypeOK, Numbered, OpenIsCurrent, InStep,
              LogsControlled, RefusalEnds, is_open, managerVars, runVars
<1> QED
  BY <1>1, <1>2, <1>3, <1>4, <1>5 DEF OperatorNext

LEMMA ConsoleNextInv == Inv /\ ConsoleNext => Inv'
<1> SUFFICES ASSUME Inv, ConsoleNext PROVE Inv'
  OBVIOUS
<1>0. TypeOK /\ LogsControlled
  BY DEF Inv
<1>1. ASSUME NEW c \in Calls, NEW i \in Ids, ConsoleStart(c, i) PROVE Inv'
  <2> USE <1>0, <1>1 DEF ConsoleStart, managerVars
  <2>1. PICK pc \in {"resolving", "acting"} :
          call' = [call EXCEPT ![c] = [pc |-> pc, id |-> i]]
    OBVIOUS
  <2>2. [pc |-> pc, id |-> i] \in [pc : CallPc, id : Ids \cup {0}]
    BY DEF CallPc
  <2>3. records' \in 0 .. MaxRecords
    BY BoundsAssumption DEF TypeOK
  <2> QED
    BY <2>1, <2>2, <2>3, ConsoleMoves DEF Controlled, TypeOK
<1>2. ASSUME NEW c \in Calls, call[c].pc # "idle",
             NEW pc \in {"acting", "settling"},
             call' = [call EXCEPT ![c].pc = pc],
             UNCHANGED <<attended, session, created, kind, status, log, pause, proxied,
                         runVars, records>>
      PROVE  Inv'
  <2>1. call[c] \in [pc : CallPc, id : Ids \cup {0}]
    BY <1>0 DEF TypeOK
  <2>2. call' = [call EXCEPT ![c] = [pc |-> pc, id |-> call[c].id]]
    <3>1. [call[c] EXCEPT !.pc = pc] = [pc |-> pc, id |-> call[c].id]
      BY <2>1
    <3> QED
      BY <1>2, <3>1
  <2>3. [pc |-> pc, id |-> call[c].id] \in [pc : CallPc, id : Ids \cup {0}]
    BY <2>1 DEF CallPc
  <2> QED
    BY <1>0, <1>2, <2>2, <2>3, ConsoleMoves DEF TypeOK, LogsControlled
<1>3. ASSUME NEW c \in Calls, call[c].pc # "idle",
             NEW ok \in BOOLEAN, ConsoleEnds(c, ok),
             UNCHANGED <<attended, session, created, kind, status, pause, runVars, records>>
      PROVE  Inv'
  <2> USE <1>0, <1>3 DEF ConsoleEnds
  <2>1. call[c].id \in Ids /\ status[call[c].id] \in Controlled
    BY DEF LogsControlled
  <2>2. [source |-> "console", ok |-> ok] \in HumanActionRecord
    BY DEF HumanActionRecord
  <2>3. log' \in [Ids -> Seq(HumanActionRecord)]
    BY <2>1, <2>2 DEF TypeOK
  <2>4. \A i \in Ids : log'[i] # log[i] => status[i] \in Controlled
    BY <2>1 DEF TypeOK
  <2>5. Idle \in [pc : CallPc, id : Ids \cup {0}] /\ Idle.pc = "idle"
    BY DEF Idle, CallPc
  <2> QED
    BY <2>3, <2>4, <2>5, ConsoleMoves DEF TypeOK
<1>4. ASSUME NEW c \in Calls, ConsoleCall(c) PROVE Inv'
  <2>1. CASE ConsoleProceeds(c)
    BY <1>2, <2>1 DEF ConsoleProceeds, managerVars
  <2>2. CASE ConsoleRefused(c)
    BY <1>3, <2>2 DEF ConsoleRefused
  <2>3. CASE ConsoleActed(c)
    BY <1>2, <1>3, <2>3 DEF ConsoleActed
  <2>4. CASE ConsoleSettled(c)
    <3>1. CASE ConsoleEnds(c, TRUE)
      BY <1>3, <2>4, <3>1 DEF ConsoleSettled
    <3>2. CASE call' = [call EXCEPT ![c] = Idle] /\ proxied' = FALSE /\ UNCHANGED log
      <4>1. Idle \in [pc : CallPc, id : Ids \cup {0}] /\ Idle.pc = "idle"
        BY DEF Idle, CallPc
      <4> QED
        BY <1>0, <2>4, <3>2, <4>1, ConsoleMoves DEF ConsoleSettled, TypeOK
    <3> QED
      BY <2>4, <3>1, <3>2 DEF ConsoleSettled
  <2> QED
    BY <1>4, <2>1, <2>2, <2>3, <2>4 DEF ConsoleCall
<1>5. CASE BrowserEvent
  <2> USE <1>0, <1>5 DEF BrowserEvent
  <2>1. PICK j \in Ids : /\ status[j] = "human_control"
                         /\ log' = [log EXCEPT ![j] =
                                Append(@, [source |-> "browser", ok |-> TRUE])]
    OBVIOUS
  <2>2. [source |-> "browser", ok |-> TRUE] \in HumanActionRecord
    BY DEF HumanActionRecord
  <2>3. TypeOK'
    <3>1. log' \in [Ids -> Seq(HumanActionRecord)]
      BY <2>1, <2>2 DEF TypeOK
    <3>2. records' \in 0 .. MaxRecords
      BY BoundsAssumption DEF TypeOK
    <3> QED
      BY <3>1, <3>2 DEF TypeOK, runVars
  <2>4. Numbered' /\ OpenIsCurrent' /\ InStep' /\ RefusalEnds'
    BY DEF Inv, Numbered, OpenIsCurrent, InStep, RefusalEnds, is_open, runVars
  <2>5. LogsControlled'
    BY <2>1 DEF LogsControlled, Controlled, TypeOK
  <2> QED
    BY <2>3, <2>4, <2>5 DEF Inv
<1> QED
  BY <1>1, <1>4, <1>5 DEF ConsoleNext

LEMMA NextInv == Inv /\ [Next]_vars => Inv'
<1>1. ASSUME Inv, UNCHANGED vars PROVE Inv'
  BY <1>1 DEF vars, Inv, TypeOK, Numbered, OpenIsCurrent, InStep, LogsControlled,
              RefusalEnds, is_open
<1> QED
  BY <1>1, RunNextInv, OperatorNextInv, ConsoleNextInv DEF Next

\* The invariant holds in every state of every behaviour.
THEOREM Invariance == Spec => []Inv
  BY InitInv, NextInv, PTL DEF Spec

-----------------------------------------------------------------------------
(* The properties of Handoff, from the invariant.                          *)

\* The manager, the session, the run and the console keep to their types.
THEOREM TypeCorrect == Spec => []TypeOK
<1>1. Inv => TypeOK
  BY DEF Inv
<1> QED
  BY <1>1, Invariance, PTL

LEMMA InvGives ==
    Inv => /\ StatusMatchesSession
           /\ AtMostOneOpen
           /\ AutomationActsUnasked
           /\ NoIllegalTransition
           /\ LogImpliesControl
           /\ OverlapOnlyAfterRelease
<1>1. Inv => StatusMatchesSession
  <2> SUFFICES ASSUME Inv PROVE StatusMatchesSession
    OBVIOUS
  <2>1. \A i \in Ids : status[i] = "pending" => session = "ESCALATED"
    BY OpenFacts DEF is_open
  <2>2. \A i \in Ids : status[i] = "human_control" => session = "HUMAN_CONTROL"
    BY OpenFacts DEF is_open
  <2>3. session \in {"ESCALATED", "HUMAN_CONTROL", "RESUMING"} =>
            /\ run = "waiting"
            /\ created \in Ids
            /\ status[created] \in DOMAIN SessionOf
            /\ session = SessionOf[status[created]]
    BY DEF Inv, InStep, Working, TypeOK, RunPc
  <2> QED
    BY <2>1, <2>2, <2>3 DEF StatusMatchesSession, SessionOf
<1>2. Inv => AtMostOneOpen
  BY DEF Inv, OpenIsCurrent, AtMostOneOpen, Open
<1>3. Inv => AutomationActsUnasked
  BY DEF Inv, OpenIsCurrent, InStep, AutomationActsUnasked, Open, Working, TypeOK, RunPc,
         Authorized, Owner
<1>4. Inv => NoIllegalTransition
  <2> SUFFICES ASSUME Inv PROVE NoIllegalTransition
    OBVIOUS
  <2>1. InStep
    BY DEF Inv
  <2>2. run = "reporting" => MayGo(session, "ESCALATED")
    BY <2>1 DEF InStep, Working, MayGo, Transitions
  <2>3. run = "waiting" /\ is_open(created) => MayGo(session, "ABORTED")
    BY <2>1 DEF InStep, SessionOf, is_open, MayGo, Transitions
  <2>4. run = "waiting" /\ status[created] = "released" => MayGo(session, "AUTOMATION")
    BY <2>1 DEF InStep, SessionOf, MayGo, Transitions
  <2>5. run \in {"entering", "boundary", "stepping", "judging", "closing"} => MayComplete(session)
    BY <2>1 DEF InStep, Working, MayComplete, IsOver
  <2>6. ASSUME NEW i \in Ids
        PROVE  /\ CanTake(i) => MayGo(session, "HUMAN_CONTROL")
               /\ CanApprove(i) => MayGo(session, "AUTOMATION")
               /\ CanRelease(i) => MayGo(session, "RESUMING")
               /\ CanAbort(i) => MayGo(session, "ABORTED")
    <3>1. status[i] = "pending" => session = "ESCALATED"
      BY OpenFacts DEF is_open
    <3>2. status[i] = "human_control" => session = "HUMAN_CONTROL"
      BY OpenFacts DEF is_open
    <3> QED
      BY <3>1, <3>2 DEF CanTake, CanApprove, CanRelease, CanAbort, is_open,
                        MayGo, Transitions
  <2> QED
    BY <2>2, <2>3, <2>4, <2>5, <2>6 DEF NoIllegalTransition
<1>5. Inv => LogImpliesControl
  BY DEF Inv, LogsControlled, LogImpliesControl, Controlled
<1>6. Inv => OverlapOnlyAfterRelease
  <2> SUFFICES ASSUME Inv, run \in {"acting", "recovering"},
                      NEW c \in Calls, call[c].pc = "acting"
               PROVE  status[call[c].id] = "released"
    BY DEF OverlapOnlyAfterRelease, HumanActing
  <2>1. call[c].id \in Ids /\ status[call[c].id] \in Controlled
    BY DEF Inv, LogsControlled
  <2>2. ~is_open(call[c].id)
    BY <2>1 DEF Inv, OpenIsCurrent
  <2>3. status[call[c].id] \notin Refusals
    BY <2>1 DEF Inv, RefusalEnds
  <2> QED
    BY <2>1, <2>2, <2>3 DEF Controlled, Refusals, is_open
<1> QED
  BY <1>1, <1>2, <1>3, <1>4, <1>5, <1>6

LEMMA StepGives ==
    Inv /\ [Next]_vars =>
        /\ [\A i \in Ids : status[i] \in TERMINAL_STATUSES => status'[i] = status[i]]_vars
        /\ [\A c \in Calls : call[c].pc # "acting" /\ call'[c].pc = "acting" =>
               run \notin {"acting", "recovering"}]_vars
<1>1. ASSUME Inv, [Next]_vars, NEW i \in Ids, status[i] \in TERMINAL_STATUSES
      PROVE  status'[i] = status[i]
  <2> USE <1>1
  <2>0. ~is_open(i) /\ status[i] # "absent" /\ i # created + 1
    BY BoundsAssumption DEF Inv, TypeOK, Numbered, is_open, TERMINAL_STATUSES, Ids
  <2>1. CASE RunNext
    BY <2>0, <2>1 DEF RunNext, RunStarts, CheckPause, RunActs, RunActed, RunReads,
                      RunAsks, StepDone, RunEnds, RunDies, Escalate, TimeOut, Wake, _finish, managerVars, Inv, TypeOK
  <2>2. CASE OperatorNext
    <3>1. \A j \in Ids : take_control(j) \/ approve(j) \/ release(j) \/ abort(j) =>
              i # j /\ status'[i] = status[i]
      BY <2>0 DEF take_control, approve, release, abort, CanTake, CanApprove, CanRelease,
                  CanAbort, is_open, _finish, Inv, TypeOK
    <3> QED
      BY <2>2, <3>1 DEF OperatorNext, request_pause, managerVars
  <2>3. CASE ConsoleNext
    BY <2>3 DEF ConsoleNext, ConsoleCall, ConsoleStart, ConsoleProceeds, ConsoleRefused,
                ConsoleActed, ConsoleSettled, BrowserEvent, managerVars
  <2>4. CASE UNCHANGED vars
    BY <2>4 DEF vars
  <2> QED
    BY <2>1, <2>2, <2>3, <2>4 DEF Next
<1>2. ASSUME Inv, [Next]_vars, NEW c \in Calls,
             call[c].pc # "acting", call'[c].pc = "acting"
      PROVE  run \notin {"acting", "recovering"}
  <2> USE <1>2
  <2>1. Authorized(session, "human")
    <3>1. CASE ConsoleNext
      <4>1. ASSUME NEW d \in Calls, NEW i \in Ids, ConsoleStart(d, i)
            PROVE  Authorized(session, "human")
        <5>1. call \in [Calls -> [pc : CallPc, id : Ids \cup {0}]]
          BY DEF Inv, TypeOK
        <5>2. CASE call' = [call EXCEPT ![d] = [pc |-> "resolving", id |-> i]]
          BY <5>1, <5>2
        <5> QED
          BY <4>1, <5>2 DEF ConsoleStart
      <4>2. ASSUME NEW d \in Calls, ConsoleCall(d)
            PROVE  Authorized(session, "human")
        <5>1. call \in [Calls -> [pc : CallPc, id : Ids \cup {0}]]
          BY DEF Inv, TypeOK
        <5>2. CASE ConsoleProceeds(d)
          BY <5>1, <5>2 DEF ConsoleProceeds
        <5>3. CASE ConsoleRefused(d) \/ ConsoleActed(d) \/ ConsoleSettled(d)
          BY <5>1, <5>3 DEF ConsoleRefused, ConsoleActed, ConsoleSettled, ConsoleEnds, Idle
        <5> QED
          BY <4>2, <5>2, <5>3 DEF ConsoleCall
      <4> QED
        BY <3>1, <4>1, <4>2 DEF ConsoleNext, BrowserEvent
    <3>2. call' = call => FALSE
      OBVIOUS
    <3>3. RunNext => call' = call
      BY DEF RunNext, RunStarts, CheckPause, RunActs, RunActed, RunReads, RunAsks,
             StepDone, RunEnds, RunDies, Escalate, TimeOut, Wake
    <3>4. OperatorNext => call' = call
      BY DEF OperatorNext, take_control, approve, release, abort, request_pause
    <3> QED
      BY <3>1, <3>2, <3>3, <3>4 DEF Next, vars
  <2>2. session = "HUMAN_CONTROL"
    BY <2>1 DEF Authorized, Owner, Inv, TypeOK, SessionState
  <2> QED
    BY <2>2 DEF Inv, InStep, Working
<1> QED
  BY <1>1, <1>2

\* The statuses of the interventions and the state of the session agree.
THEOREM SessionAgrees == Spec => []StatusMatchesSession
  BY InvGives, Invariance, PTL

\* No two interventions are open at once.
THEOREM OneOpen == Spec => []AtMostOneOpen
  BY InvGives, Invariance, PTL

\* Outside request() the automation owns the page and nothing is open.
THEOREM AutomationOwns == Spec => []AutomationActsUnasked
  BY InvGives, Invariance, PTL

\* No operation of the manager makes the session raise IllegalTransitionError.
THEOREM TransitionsLegal == Spec => []NoIllegalTransition
  BY InvGives, Invariance, PTL

\* Only an intervention that a human controlled has a log.
THEOREM LogsAreOfHumans == Spec => []LogImpliesControl
  BY InvGives, Invariance, PTL

\* A human and the automation act at once only after the human gave control back.
THEOREM OverlapNeedsRelease == Spec => []OverlapOnlyAfterRelease
  BY InvGives, Invariance, PTL

\* A resolution is never revised.
THEOREM ResolutionIsFinal == Spec => ResolvedForGood
  BY StepGives, Invariance, PTL DEF Spec, ResolvedForGood

\* A human's action never starts over an action of the automation.
THEOREM HumanStartsAlone == Spec => HumanNeverStartsOverAutomation
  BY StepGives, Invariance, PTL DEF Spec, HumanNeverStartsOverAutomation

-----------------------------------------------------------------------------
(* The refinement: Handoff implements the safety of ControlHandoff.        *)

\* Nobody can be asked for help but while the run waits, and then the session
\* says which of the abstract states it is.
LEMMA AskingMeans ==
    Inv => (Open # {} <=> session \in {"ESCALATED", "HUMAN_CONTROL"})
<1> SUFFICES ASSUME Inv PROVE Open # {} <=> session \in {"ESCALATED", "HUMAN_CONTROL"}
  OBVIOUS
<1>1. ASSUME NEW i \in Ids, is_open(i)
      PROVE  session \in {"ESCALATED", "HUMAN_CONTROL"}
  BY <1>1, OpenFacts DEF is_open
<1>2. ASSUME session \in {"ESCALATED", "HUMAN_CONTROL"} PROVE created \in Ids /\ is_open(created)
  BY <1>2 DEF Inv, InStep, SessionOf, is_open, Working, TypeOK, RunPc
<1> QED
  BY <1>1, <1>2 DEF Open

\* What the session may do in one step of the handoff.
LEMMA SessionSteps ==
    ASSUME Inv, [Next]_vars
    PROVE  \/ session' = session
           \/ session = "AUTOMATION" /\ session' \in {"ESCALATED", "ABORTED", "COMPLETED"}
           \/ session = "ESCALATED" /\ session' \in {"HUMAN_CONTROL", "AUTOMATION", "ABORTED"}
           \/ session = "HUMAN_CONTROL" /\ session' \in {"RESUMING", "ABORTED"}
           \/ session = "RESUMING" /\ session' = "AUTOMATION"
<1>0. InStep /\ session \in SessionState
  BY DEF Inv, TypeOK
<1>1. CASE RunNext
  <2>1. CASE Escalate
    BY <1>0, <2>1 DEF Escalate, InStep, Working
  <2>2. CASE TimeOut
    BY <1>0, <2>2 DEF TimeOut, InStep, SessionOf, is_open, transition
  <2>3. CASE Wake
    BY <1>0, <2>3 DEF Wake, InStep, SessionOf, is_open, transition
  <2>4. CASE RunEnds
    BY <1>0, <2>4 DEF RunEnds, InStep, Working, Completed, IsOver
  <2> QED
    BY <1>1, <2>1, <2>2, <2>3, <2>4
       DEF RunNext, RunStarts, CheckPause, RunActs, RunActed, RunReads, RunAsks,
           StepDone, RunDies
<1>2. CASE OperatorNext
  <2>1. ASSUME NEW i \in Ids, take_control(i) \/ approve(i) \/ release(i) \/ abort(i)
        PROVE  \/ session = "ESCALATED" /\
                     session' \in {"HUMAN_CONTROL", "AUTOMATION", "ABORTED"}
               \/ session = "HUMAN_CONTROL" /\ session' \in {"RESUMING", "ABORTED"}
    <3>1. is_open(i)
      BY <2>1 DEF take_control, approve, release, abort, CanTake, CanApprove, CanRelease,
                  CanAbort, is_open
    <3> QED
      BY <2>1, <3>1, OpenFacts
         DEF take_control, approve, release, abort, transition, CanTake, CanApprove,
             CanRelease, CanAbort, is_open
  <2> QED
    BY <1>2, <2>1 DEF OperatorNext, request_pause
<1>3. CASE ConsoleNext
  BY <1>3 DEF ConsoleNext, ConsoleCall, ConsoleStart, ConsoleProceeds, ConsoleRefused,
              ConsoleActed, ConsoleSettled, BrowserEvent
<1>4. CASE UNCHANGED vars
  BY <1>4 DEF vars
<1> QED
  BY <1>1, <1>2, <1>3, <1>4 DEF Next

LEMMA InitRefines == Init => Abstract!Init
  BY DEF Init, Abstract!Init, Owner, IsOver, Open, is_open

\* Every step of the handoff is a step of the token of control, or none at all.
LEMMA StepRefines == Inv /\ [Next]_vars => [Abstract!Next]_(Abstract!avars)
<1> SUFFICES ASSUME Inv, [Next]_vars PROVE [Abstract!Next]_(Abstract!avars)
  OBVIOUS
<1>1. Inv'
  BY NextInv
<1>2. Open # {} <=> session \in {"ESCALATED", "HUMAN_CONTROL"}
  BY AskingMeans
<1>3. (Open # {} <=> session \in {"ESCALATED", "HUMAN_CONTROL"})'
  BY <1>1, AskingMeans, PTL
<1> USE DEF Owner, IsOver, Abstract!Next, Abstract!Ask, Abstract!PickUp, Abstract!Close,
            Abstract!GiveBack, Abstract!GiveUp, Abstract!End, Abstract!avars
<1>4. CASE session' = session
  BY <1>2, <1>3, <1>4
<1>5. CASE session = "AUTOMATION" /\ session' \in {"ESCALATED", "ABORTED", "COMPLETED"}
  BY <1>2, <1>3, <1>5
<1>6. CASE session = "ESCALATED" /\ session' \in {"HUMAN_CONTROL", "AUTOMATION", "ABORTED"}
  BY <1>2, <1>3, <1>6
<1>7. CASE session = "HUMAN_CONTROL" /\ session' \in {"RESUMING", "ABORTED"}
  BY <1>2, <1>3, <1>7
<1>8. CASE session = "RESUMING" /\ session' = "AUTOMATION"
  BY <1>2, <1>3, <1>8
<1> QED
  BY <1>4, <1>5, <1>6, <1>7, <1>8, SessionSteps

\* The handoff implements the abstract token of control, its liveness aside.
THEOREM Refinement == Spec => Abstract!Safety
  BY InitRefines, Invariance, StepRefines, PTL DEF Spec, Abstract!Safety

==============================================================================
