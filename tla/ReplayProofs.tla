----------------------------- MODULE ReplayProofs -----------------------------
(***************************************************************************)
(* Proofs about ReplayExecutor, for artifacts of any length, any steps and *)
(* any rules.  The inductive invariant Inv says what may be so at each     *)
(* place of the step loop, and keeps the account of the steps exactly: at  *)
(* every place each step before the current one is accounted for, and no   *)
(* later one is.                                                           *)
(***************************************************************************)
EXTENDS ReplayExecutor, FiniteSetTheorems, WellFoundedInduction, TLAPS

\* The places inside a step.
InStep == {"pre", "policy", "resolve", "act", "post", "recovering", "asking", "handoff"}

Placed ==
    /\ pc \in InStep => position < N
    /\ pc = "final" => position = N
    /\ pc \notin Ended => result = "none"
    /\ pc \in {"finishing", "done"} => result # "none"
    /\ refused => pc \in Ended /\ result = "ESCALATED"

Accounted ==
    /\ verified \cup ToSet(humanCompleted) = 1 .. position
    /\ verified \cap ToSet(humanCompleted) = {}
    /\ \A i, j \in DOMAIN humanCompleted : i < j => humanCompleted[i] < humanCompleted[j]

Inv == TypeOK /\ Placed /\ SuccessIsEarned /\ Accounted

-----------------------------------------------------------------------------
LEMMA InitInv == Init => Inv
<1> SUFFICES ASSUME Init PROVE Inv
  OBVIOUS
<1>1. TypeOK
  <2>1. ruleAttempts \in [StepIds \X Rules -> Nat] /\ humanCompleted \in Seq(StepIds)
    BY DEF Init
  <2>2. position \in 0 .. N /\ pauses \in 0 .. MaxPauses /\ attempts \in Nat /\ recoveries \in Nat
    BY SizeAssumption DEF Init
  <2>3. pc \in Pc /\ result \in ReplayStatus \cup {"none"} /\ asking \in InterventionKind
    BY DEF Init, Pc, InterventionKind
  <2> QED
    BY <2>1, <2>2, <2>3 DEF Init, TypeOK
<1>2. Placed /\ SuccessIsEarned
  BY DEF Init, Placed, SuccessIsEarned, InStep, Ended
<1>3. Accounted
  <2>1. ToSet(humanCompleted) = {}
    BY DEF Init, ToSet
  <2> QED
    BY <2>1 DEF Init, Accounted
<1> QED
  BY <1>1, <1>2, <1>3 DEF Inv

-----------------------------------------------------------------------------
(* Types.                                                                  *)

\* What a rule does: it ends the run, or is charged to its budget.
LEMMA RuleApplied ==
    ASSUME NEW r, ApplyRule(r)
    PROVE  \/ /\ Abort("BUSINESS_OUTCOME") \/ Abort("HARD_FAILURE")
              /\ UNCHANGED recoveryVars
           \/ /\ ruleAttempts' = [ruleAttempts EXCEPT ![<<current, r>>] = @ + 1]
              /\ \/ Abort("RECOVERABLE_EXHAUSTED") /\ UNCHANGED recoveries
                 \/ /\ recoveries' = recoveries + 1
                    /\ Continue("top") \/ Continue("recovering")
  BY Zenon DEF ApplyRule

LEMMA CurrentIsStep ==
    ASSUME TypeOK, position < N
    PROVE  current \in StepIds /\ step \in StepSpec
  BY SizeAssumption, StepAssumption DEF TypeOK, current, step, StepIds

\* What becomes of an unexpected state, whatever the rules and the step say.
LEMMA UnexpectedDoes ==
    ASSUME TypeOK, position < N, NEW k \in InterventionKind, Unexpected(k)
    PROVE  /\ ruleAttempts' \in [StepIds \X Rules -> Nat] /\ recoveries' \in Nat
           /\ asking' \in InterventionKind
           /\ UNCHANGED <<position, attempts, granted, acted>>
           /\ \/ pc' \in {"top", "recovering", "asking"} /\ UNCHANGED result
              \/ pc' = "finishing" /\ result' \in ReplayStatus \ {"SUCCESS"}
<1> USE DEF Abort, Continue, goto, loopVars, ReplayStatus
<1>1. CASE \E r \in Rules : ApplyRule(r) /\ UNCHANGED asking
  <2> PICK r \in Rules : ApplyRule(r) /\ UNCHANGED asking
    BY <1>1
  <2>0. asking' \in InterventionKind
    BY DEF TypeOK
  <2>1. CASE (Abort("BUSINESS_OUTCOME") \/ Abort("HARD_FAILURE")) /\ UNCHANGED recoveryVars
    BY <2>0, <2>1 DEF recoveryVars, TypeOK
  <2>2. CASE /\ ruleAttempts' = [ruleAttempts EXCEPT ![<<current, r>>] = @ + 1]
             /\ \/ Abort("RECOVERABLE_EXHAUSTED") /\ UNCHANGED recoveries
                \/ recoveries' = recoveries + 1 /\ (Continue("top") \/ Continue("recovering"))
    <3>1. ruleAttempts' \in [StepIds \X Rules -> Nat]
      BY <2>2, CurrentIsStep DEF TypeOK
    <3>2. recoveries' \in Nat
      BY <2>2 DEF TypeOK
    <3> QED
      BY <2>0, <2>2, <3>1, <3>2
  <2> QED
    BY <2>1, <2>2, RuleApplied
<1>2. CASE FailOrEscalate(k) /\ UNCHANGED recoveryVars
  <2>1. ruleAttempts' \in [StepIds \X Rules -> Nat] /\ recoveries' \in Nat
    BY <1>2 DEF recoveryVars, TypeOK
  <2>2. asking \in InterventionKind
    BY DEF TypeOK
  <2> QED
    BY <1>2, <2>1, <2>2 DEF FailOrEscalate, Ask
<1> QED
  BY <1>1, <1>2 DEF Unexpected

LEMMA TypeNext ==
    ASSUME Inv, [Next]_vars
    PROVE  TypeOK'
<1> USE DEF Inv
<1>0. pc \in InStep => /\ position < N /\ position + 1 \in 0 .. N
                       /\ current \in StepIds
                       /\ \A S \in SUBSET StepIds : S \cup {current} \subseteq StepIds
  <2> SUFFICES ASSUME pc \in InStep
               PROVE  /\ position < N /\ position + 1 \in 0 .. N
                      /\ current \in StepIds
                      /\ \A S \in SUBSET StepIds : S \cup {current} \subseteq StepIds
    OBVIOUS
  <2>1. position < N
    BY DEF Placed
  <2>2. position + 1 \in 0 .. N
    BY <2>1, SizeAssumption DEF TypeOK
  <2>3. current \in StepIds
    BY <2>1, CurrentIsStep
  <2> QED
    BY <2>1, <2>2, <2>3
<1>1. CASE UNCHANGED vars
  BY <1>1 DEF vars, loopVars, humanVars, askVars, gateVars, recoveryVars, doneVars, history,
          TypeOK
<1>2. CASE Enter \/ FinalCheckpoint \/ Finish \/ ReadFails
  <2>1. /\ pc' \in Pc /\ result' \in ReplayStatus \cup {"none"} /\ finalOk' \in BOOLEAN
        /\ UNCHANGED <<loopVars, humanVars, askVars, gateVars, recoveryVars, extracted,
                       doneVars, retried>>
    BY <1>2 DEF Enter, FinalCheckpoint, Finish, ReadFails, Continue, Abort, goto, history,
                Pc, Ended, ReplayStatus, TypeOK
  <2> QED
    BY <2>1 DEF TypeOK, loopVars, humanVars, askVars, gateVars, recoveryVars, doneVars
<1>3. CASE Top
  <2>1. /\ pc' \in Pc /\ result' \in ReplayStatus \cup {"none"}
        /\ pause' \in BOOLEAN /\ asking' \in InterventionKind
        /\ UNCHANGED loopVars
    BY <1>3 DEF Top, Ask, Continue, Abort, goto, Pc, Ended, ReplayStatus, InterventionKind, TypeOK
  <2>2. UNCHANGED <<attended, pauses, refused, gateVars, recoveryVars, extracted, doneVars,
                    history>>
    BY <1>3 DEF Top
  <2> QED
    BY <2>1, <2>2 DEF TypeOK, loopVars, gateVars, recoveryVars, doneVars, history
<1>4. CASE CheckPreconditions
  <2>0. position < N /\ "checkpoint_failed" \in InterventionKind
    BY <1>0, <1>4 DEF CheckPreconditions, InStep, InterventionKind
  <2>1. /\ pc' \in Pc /\ result' \in ReplayStatus \cup {"none"}
        /\ asking' \in InterventionKind
        /\ ruleAttempts' \in [StepIds \X Rules -> Nat] /\ recoveries' \in Nat
        /\ UNCHANGED <<position, attempts, granted, acted>>
    <3>1. CASE Continue("policy") /\ UNCHANGED <<asking, recoveryVars>>
      BY <3>1 DEF Continue, goto, loopVars, recoveryVars, Pc, TypeOK
    <3>2. CASE Unexpected("checkpoint_failed")
      BY <2>0, <3>2, UnexpectedDoes DEF TypeOK, Pc, Ended
    <3> QED
      BY <1>4, <3>1, <3>2 DEF CheckPreconditions
  <2>2. UNCHANGED <<humanVars, refused, gateVars, extracted, doneVars, history>>
    BY <1>4 DEF CheckPreconditions
  <2> QED
    BY <2>1, <2>2 DEF TypeOK, humanVars, gateVars, doneVars, history
<1>5. CASE EvaluatePolicy
  <2>1. /\ pc' \in Pc /\ result' \in ReplayStatus \cup {"none"}
        /\ asking' \in InterventionKind /\ confirm' \in BOOLEAN /\ evaluated' \in BOOLEAN
        /\ UNCHANGED <<approved, loopVars>>
    BY <1>5 DEF EvaluatePolicy, Ask, Continue, Abort, goto, gateVars, Pc, Ended, ReplayStatus,
                InterventionKind, TypeOK
  <2>2. UNCHANGED <<humanVars, refused, recoveryVars, extracted, doneVars, history>>
    BY <1>5 DEF EvaluatePolicy
  <2> QED
    BY <2>1, <2>2 DEF TypeOK, loopVars, humanVars, recoveryVars, doneVars, history
<1>6. CASE Resolve
  <2>0. position < N /\ "target_unresolved" \in InterventionKind
    BY <1>0, <1>6 DEF Resolve, InStep, InterventionKind
  <2>1. /\ pc' \in Pc /\ result' \in ReplayStatus \cup {"none"}
        /\ asking' \in InterventionKind /\ evaluated' \in BOOLEAN
        /\ ruleAttempts' \in [StepIds \X Rules -> Nat] /\ recoveries' \in Nat
        /\ UNCHANGED <<position, attempts, granted, acted>>
    <3>1. CASE Continue("act") /\ UNCHANGED <<asking, recoveryVars, evaluated>>
      BY <3>1 DEF Continue, goto, loopVars, recoveryVars, Pc, TypeOK
    <3>2. CASE Unexpected("target_unresolved") /\ evaluated' = FALSE
      BY <2>0, <3>2, UnexpectedDoes DEF TypeOK, Pc, Ended
    <3> QED
      BY <1>6, <3>1, <3>2 DEF Resolve
  <2>2. UNCHANGED <<humanVars, refused, confirm, approved, extracted, doneVars, history>>
    BY <1>6 DEF Resolve
  <2> QED
    BY <2>1, <2>2 DEF TypeOK, humanVars, doneVars, history
<1>7. CASE Act
  <2>0. extracted \cup {current} \subseteq StepIds /\ extracted \subseteq StepIds
    BY <1>0, <1>7 DEF Act, InStep, TypeOK
  <2>1. /\ pc' \in Pc /\ result' \in ReplayStatus \cup {"none"}
        /\ attempts' \in Nat /\ acted' \in BOOLEAN /\ evaluated' = FALSE
        /\ extracted' \subseteq StepIds
        /\ UNCHANGED <<position, granted>>
    <3>1. extracted' \subseteq StepIds
      BY <1>7, <2>0 DEF Act
    <3>2. pc' \in Pc /\ result' \in ReplayStatus \cup {"none"} /\ acted' \in BOOLEAN
      BY <1>7 DEF Act, goto, Pc, Ended, ReplayStatus, TypeOK
    <3>3. attempts' \in Nat /\ evaluated' = FALSE /\ UNCHANGED <<position, granted>>
      BY <1>7 DEF Act, TypeOK
    <3> QED
      BY <3>1, <3>2, <3>3
  <2>2. UNCHANGED <<humanVars, askVars, confirm, approved, recoveryVars, doneVars, history>>
    BY <1>7 DEF Act
  <2> QED
    BY <2>1, <2>2 DEF TypeOK, humanVars, askVars, recoveryVars, doneVars, history
<1>8. CASE CheckPostconditions
  <2>0. /\ position < N /\ position + 1 \in 0 .. N
        /\ verified \cup {current} \subseteq StepIds
        /\ "checkpoint_failed" \in InterventionKind
    BY <1>0, <1>8 DEF CheckPostconditions, InStep, InterventionKind, TypeOK
  <2>1. /\ pc' \in Pc /\ result' \in ReplayStatus \cup {"none"}
        /\ asking' \in InterventionKind
        /\ ruleAttempts' \in [StepIds \X Rules -> Nat] /\ recoveries' \in Nat
        /\ position' \in 0 .. N /\ attempts' \in Nat
        /\ granted' \in BOOLEAN /\ acted' \in BOOLEAN
        /\ verified' \subseteq StepIds
    <3>1. CASE /\ verified' = verified \cup {current}
               /\ StepDone /\ UNCHANGED <<asking, recoveryVars>>
      BY <2>0, <3>1 DEF StepDone, GoOnAfter, goto, recoveryVars, Pc, TypeOK
    <3>2. CASE Unexpected("checkpoint_failed") /\ UNCHANGED verified
      BY <2>0, <3>2, UnexpectedDoes DEF TypeOK, Pc, Ended
    <3> QED
      BY <1>8, <3>1, <3>2 DEF CheckPostconditions
  <2>2. UNCHANGED <<humanVars, refused, gateVars, extracted, humanCompleted, history>>
    BY <1>8 DEF CheckPostconditions
  <2> QED
    BY <2>1, <2>2 DEF TypeOK, humanVars, gateVars, history
<1>9. CASE Recover
  <2>0. /\ position + 1 \in 0 .. N
        /\ verified \cup {current} \subseteq StepIds /\ verified \subseteq StepIds
    BY <1>0, <1>9 DEF Recover, InStep, TypeOK
  <2>1. /\ pc' \in Pc /\ UNCHANGED result
        /\ position' \in 0 .. N /\ attempts' \in Nat
        /\ granted' \in BOOLEAN /\ acted' \in BOOLEAN
        /\ verified' \subseteq StepIds
    <3>1. CASE verified' = verified \cup {current} /\ StepDone
      BY <2>0, <3>1 DEF StepDone, GoOnAfter, goto, Pc
    <3>2. CASE (Continue("crashed") \/ Continue("top")) /\ UNCHANGED verified
      BY <2>0, <3>2 DEF Continue, goto, loopVars, Pc, Ended, TypeOK
    <3> QED
      BY <1>9, <3>1, <3>2 DEF Recover
  <2>2. UNCHANGED <<humanVars, askVars, gateVars, recoveryVars, extracted, humanCompleted,
                    history>>
    BY <1>9 DEF Recover
  <2> QED
    BY <2>1, <2>2 DEF TypeOK, humanVars, askVars, gateVars, recoveryVars, history
<1>10. CASE Answered
  <2> PICK answer \in Answers : AnsweredBy(answer)
    BY <1>10 DEF Answered
  <2>0. current \in StepIds
    BY <1>0 DEF AnsweredBy, InStep
  <2>1. pc' \in Pc
    BY DEF AnsweredBy, goto, Pc, Ended
  <2>2. /\ result' \in ReplayStatus \cup {"none"} /\ acted' \in BOOLEAN
        /\ refused' \in BOOLEAN /\ granted' \in BOOLEAN
        /\ approved' \subseteq StepIds
    BY <2>0 DEF AnsweredBy, ReplayStatus, TypeOK
  <2>3. UNCHANGED <<position, attempts, humanVars, asking, confirm, evaluated,
                    recoveryVars, extracted, doneVars, history>>
    BY DEF AnsweredBy
  <2> QED
    BY <2>1, <2>2, <2>3 DEF TypeOK, humanVars, recoveryVars, doneVars, history
<1>11. CASE AfterHandoff
  <2>0. /\ position < N /\ position + 1 \in 0 .. N
        /\ current \in StepIds
        /\ verified \cup {current} \subseteq StepIds
        /\ approved \cup {current} \subseteq StepIds
        /\ retried \cup {current} \subseteq StepIds
    BY <1>0, <1>11 DEF AfterHandoff, InStep, TypeOK
  <2>1. ASSUME NEW later \in current + 1 .. N, ResumeAt(later)
        PROVE  humanCompleted' \in Seq(StepIds) /\ position' \in 0 .. N
    BY <2>0, <2>1, SizeAssumption DEF ResumeAt, GoOnAfter, current, StepIds, TypeOK
  <2>2. /\ pc' \in Pc /\ result' \in ReplayStatus \cup {"none"}
        /\ position' \in 0 .. N /\ attempts' \in Nat
        /\ granted' \in BOOLEAN /\ acted' \in BOOLEAN /\ evaluated' \in BOOLEAN
        /\ approved' \subseteq StepIds /\ retried' \subseteq StepIds
        /\ verified' \subseteq StepIds
        /\ humanCompleted' \in Seq(StepIds)
    <3>1. evaluated' \in BOOLEAN
      BY <1>11 DEF AfterHandoff
    <3>2. CASE /\ verified' = verified \cup {current}
               /\ StepDone /\ UNCHANGED <<approved, retried, humanCompleted>>
      BY <2>0, <3>1, <3>2 DEF StepDone, GoOnAfter, goto, Pc, TypeOK
    <3>3. CASE /\ retried' = retried \cup {current}
               /\ IF asking = "approval_required"
                  THEN approved' = approved \cup {current} /\ Continue("resolve")
                  ELSE UNCHANGED approved /\ Continue("top")
               /\ UNCHANGED doneVars
      BY <2>0, <3>1, <3>3 DEF Continue, goto, loopVars, doneVars, Pc, TypeOK
    <3>4. CASE /\ \E later \in current + 1 .. N : Step[later].pre /\ ResumeAt(later)
               /\ UNCHANGED <<approved, retried, verified>>
      <4>1. humanCompleted' \in Seq(StepIds) /\ position' \in 0 .. N
        BY <2>1, <3>4
      <4>2. pc' = "top" /\ attempts' = 0 /\ granted' = FALSE /\ acted' = FALSE /\ UNCHANGED result
        BY <3>4 DEF ResumeAt, GoOnAfter, goto
      <4> QED
        BY <3>1, <3>4, <4>1, <4>2 DEF Pc, TypeOK
    <3>5. CASE Abort("ESCALATED") /\ UNCHANGED <<approved, retried, doneVars>>
      BY <3>1, <3>5 DEF Abort, goto, loopVars, doneVars, Pc, Ended, ReplayStatus, TypeOK
    <3> QED
      BY <1>11, <3>2, <3>3, <3>4, <3>5 DEF AfterHandoff
  <2>3. UNCHANGED <<humanVars, askVars, confirm, recoveryVars, extracted, finalOk>>
    BY <1>11 DEF AfterHandoff
  <2> QED
    BY <2>2, <2>3 DEF TypeOK, humanVars, askVars, recoveryVars
<1>12. CASE RequestPause
  <2>1. pause' = TRUE /\ pauses' \in 0 .. MaxPauses
    BY <1>12, SizeAssumption DEF RequestPause, TypeOK
  <2>2. UNCHANGED <<pc, result, loopVars, attended, askVars, gateVars, recoveryVars,
                    extracted, doneVars, history>>
    BY <1>12 DEF RequestPause
  <2> QED
    BY <2>1, <2>2 DEF TypeOK, loopVars, askVars, gateVars, recoveryVars, doneVars, history
<1> QED
  BY <1>1, <1>2, <1>3, <1>4, <1>5, <1>6, <1>7, <1>8, <1>9, <1>10, <1>11, <1>12
     DEF Next, Executor

-----------------------------------------------------------------------------
(* Places and results.                                                     *)

LEMMA PlacedNext ==
    ASSUME Inv, [Next]_vars
    PROVE  Placed' /\ SuccessIsEarned'
<1> USE DEF Inv, Placed, SuccessIsEarned, InStep, Ended
<1>1. CASE UNCHANGED vars
  BY <1>1 DEF vars, loopVars, askVars, history
<1>2. CASE Enter
  BY <1>2 DEF Enter, Continue, Abort, goto, loopVars, askVars, history
<1>3. CASE Top
  <2>1. position = N \/ position < N
    BY SizeAssumption DEF TypeOK
  <2> QED
    BY <1>3, <2>1 DEF Top, Ask, Continue, Abort, goto, loopVars, history
<1>4. CASE FinalCheckpoint
  BY <1>4 DEF FinalCheckpoint, Abort, goto, loopVars, askVars
<1>5. CASE Finish \/ ReadFails
  BY <1>5 DEF Finish, ReadFails, Continue, goto, loopVars, askVars, history
<1>6. CASE CheckPreconditions
  <2>1. CASE Continue("policy")
    BY <1>6, <2>1 DEF CheckPreconditions, Continue, goto, loopVars, history
  <2>2. CASE Unexpected("checkpoint_failed")
    <3>1. /\ position < N /\ result = "none" /\ ~refused /\ "checkpoint_failed" \in InterventionKind
          /\ UNCHANGED <<refused, finalOk>>
      BY <1>6 DEF CheckPreconditions, InterventionKind, history
    <3> QED
      BY <2>2, <3>1, UnexpectedDoes DEF ReplayStatus
  <2> QED
    BY <1>6, <2>1, <2>2 DEF CheckPreconditions
<1>7. CASE EvaluatePolicy
  BY <1>7 DEF EvaluatePolicy, Ask, Continue, Abort, goto, loopVars, history
<1>8. CASE Resolve
  <2>1. CASE Continue("act")
    BY <1>8, <2>1 DEF Resolve, Continue, goto, loopVars, history
  <2>2. CASE Unexpected("target_unresolved")
    <3>1. /\ position < N /\ result = "none" /\ ~refused /\ "target_unresolved" \in InterventionKind
          /\ UNCHANGED <<refused, finalOk>>
      BY <1>8 DEF Resolve, InterventionKind, history
    <3> QED
      BY <2>2, <3>1, UnexpectedDoes DEF ReplayStatus
  <2> QED
    BY <1>8, <2>1, <2>2 DEF Resolve
<1>9. CASE Act
  BY <1>9 DEF Act, goto, askVars, history
<1>10. CASE CheckPostconditions
  <2>1. CASE StepDone
    BY <1>10, <2>1 DEF CheckPostconditions, StepDone, GoOnAfter, goto, history
  <2>2. CASE Unexpected("checkpoint_failed")
    <3>1. /\ position < N /\ result = "none" /\ ~refused /\ "checkpoint_failed" \in InterventionKind
          /\ UNCHANGED <<refused, finalOk>>
      BY <1>10 DEF CheckPostconditions, InterventionKind, history
    <3> QED
      BY <2>2, <3>1, UnexpectedDoes DEF ReplayStatus
  <2> QED
    BY <1>10, <2>1, <2>2 DEF CheckPostconditions
<1>11. CASE Recover
  BY <1>11 DEF Recover, StepDone, GoOnAfter, Continue, goto, loopVars, askVars, history
<1>12. CASE Answered
  <2> PICK answer \in Answers : AnsweredBy(answer)
    BY <1>12 DEF Answered
  <2>1. CASE answer \in Refusals
    BY <2>1 DEF AnsweredBy, Refusals, goto, history
  <2>2. CASE answer \in {"approved", "released"}
    BY <2>2 DEF AnsweredBy, Refusals, goto, history
  <2> QED
    BY <2>1, <2>2 DEF Answers, Refusals
<1>13. CASE AfterHandoff
  BY <1>13 DEF AfterHandoff, ResumeAt, StepDone, GoOnAfter, Continue, Abort, goto, loopVars,
               askVars
<1>14. CASE RequestPause
  BY <1>14 DEF RequestPause, loopVars, askVars, history
<1> QED
  BY <1>1, <1>2, <1>3, <1>4, <1>5, <1>6, <1>7, <1>8, <1>9, <1>10, <1>11, <1>12, <1>13, <1>14
     DEF Next, Executor

-----------------------------------------------------------------------------
(* The account of the steps.                                               *)

\* The steps that a hand-off skips are the human's.
Skips(later) ==
    /\ humanCompleted' = humanCompleted \o [k \in 1 .. later - current |-> position + k]
    /\ position' = later - 1
    /\ UNCHANGED verified

\* A step of the run accounts for nothing, for the current step, or for all steps
\* up to a later one.
LEMMA StepAccounts ==
    ASSUME Inv, [Next]_vars
    PROVE  \/ UNCHANGED <<position, verified, humanCompleted>>
           \/ /\ verified' = verified \cup {current}
              /\ position' = current
              /\ UNCHANGED humanCompleted
           \/ \E later \in current + 1 .. N : Skips(later)
<1> USE DEF Inv
<1>1. CASE UNCHANGED vars
  BY <1>1 DEF vars, loopVars, doneVars
<1>2. CASE Enter \/ Top \/ FinalCheckpoint \/ Finish \/ EvaluatePolicy \/ ReadFails
  BY <1>2 DEF Enter, Top, FinalCheckpoint, Finish, EvaluatePolicy, ReadFails, Ask, Continue,
              Abort, loopVars, doneVars
<1>3. CASE CheckPreconditions \/ Resolve
  <2>1. position < N /\ {"checkpoint_failed", "target_unresolved"} \subseteq InterventionKind
    BY <1>3 DEF CheckPreconditions, Resolve, Placed, InStep, InterventionKind
  <2>2. UNCHANGED position
    BY <1>3, <2>1, UnexpectedDoes DEF CheckPreconditions, Resolve, Continue, loopVars
  <2> QED
    BY <1>3, <2>2 DEF CheckPreconditions, Resolve, doneVars
<1>4. CASE Act \/ Answered \/ RequestPause
  BY <1>4 DEF Act, Answered, AnsweredBy, RequestPause, loopVars, doneVars
<1>5. CASE CheckPostconditions
  <2>1. position < N /\ "checkpoint_failed" \in InterventionKind
    BY <1>5 DEF CheckPostconditions, Placed, InStep, InterventionKind
  <2> QED
    BY <1>5, <2>1, UnexpectedDoes DEF CheckPostconditions, StepDone, GoOnAfter, current
<1>6. CASE Recover
  BY <1>6 DEF Recover, StepDone, GoOnAfter, Continue, loopVars, current
<1>7. CASE AfterHandoff
  BY <1>7 DEF AfterHandoff, ResumeAt, Skips, StepDone, GoOnAfter, Continue, Abort, loopVars,
              doneVars, current
<1> QED
  BY <1>1, <1>2, <1>3, <1>4, <1>5, <1>6, <1>7 DEF Next, Executor

LEMMA Concatenation ==
    ASSUME NEW s \in Seq(Nat), NEW t \in Seq(Nat)
    PROVE  /\ Len(s \o t) = Len(s) + Len(t)
           /\ \A k \in 1 .. Len(s) : (s \o t)[k] = s[k]
           /\ \A k \in Len(s) + 1 .. Len(s) + Len(t) : (s \o t)[k] = t[k - Len(s)]
  OBVIOUS

LEMMA AccountedNext ==
    ASSUME Inv, [Next]_vars
    PROVE  Accounted'
<1> USE DEF Inv, Accounted
<1>0. position \in Nat /\ current = position + 1 /\ humanCompleted \in Seq(StepIds)
  BY DEF TypeOK, current
<1>1. CASE UNCHANGED <<position, verified, humanCompleted>>
  BY <1>1 DEF ToSet
<1>2. CASE /\ verified' = verified \cup {current}
           /\ position' = current
           /\ UNCHANGED humanCompleted
  <2>1. ToSet(humanCompleted)' = ToSet(humanCompleted)
    BY <1>2 DEF ToSet
  <2>2. 1 .. current = (1 .. position) \cup {current} /\ current \notin 1 .. position
    BY <1>0
  <2> QED
    BY <1>2, <2>1, <2>2
<1>3. CASE \E later \in current + 1 .. N : Skips(later)
  <2> PICK later \in current + 1 .. N : Skips(later)
    BY <1>3
  <2> DEFINE n == later - current
             done == [k \in 1 .. n |-> position + k]
             m == Len(humanCompleted)
  <2>0. later \in Nat /\ n \in Nat \ {0} /\ position + n = later - 1 /\ m \in Nat
    BY <1>0
  <2>1. done \in Seq(Nat) /\ Len(done) = n /\ \A k \in 1 .. n : done[k] = position + k
    BY <1>0, <2>0
  <2>2. humanCompleted \in Seq(Nat)
    BY <1>0, SizeAssumption DEF StepIds
  <2>3. humanCompleted' = humanCompleted \o done /\ position' = position + n /\ UNCHANGED verified
    BY <2>0 DEF Skips
  <2> HIDE DEF n, done, m
  <2>4. /\ Len(humanCompleted') = m + n
        /\ \A k \in 1 .. m : humanCompleted'[k] = humanCompleted[k]
        /\ \A k \in m + 1 .. m + n : humanCompleted'[k] = position + (k - m)
    <3>1. /\ Len(humanCompleted') = m + n
          /\ \A k \in 1 .. m : humanCompleted'[k] = humanCompleted[k]
          /\ \A k \in m + 1 .. m + n : humanCompleted'[k] = done[k - m]
      BY <2>1, <2>2, <2>3, Concatenation DEF m
    <3>2. \A k \in m + 1 .. m + n : k - m \in 1 .. n
      BY <2>0
    <3> QED
      BY <2>1, <3>1, <3>2
  <2>5. DOMAIN humanCompleted = 1 .. m /\ DOMAIN humanCompleted' = 1 .. m + n
    BY <2>0, <2>1, <2>2, <2>3, <2>4 DEF m
  <2>6. ToSet(humanCompleted)' = ToSet(humanCompleted) \cup (position + 1 .. position + n)
    <3>1. ASSUME NEW x \in ToSet(humanCompleted)'
          PROVE  x \in ToSet(humanCompleted) \cup (position + 1 .. position + n)
      BY <1>0, <2>0, <2>4, <2>5 DEF ToSet
    <3>2. ASSUME NEW x \in ToSet(humanCompleted) PROVE x \in ToSet(humanCompleted)'
      BY <2>0, <2>4, <2>5 DEF ToSet
    <3>3. ASSUME NEW x \in position + 1 .. position + n PROVE x \in ToSet(humanCompleted)'
      <4>1. m + (x - position) \in m + 1 .. m + n
        BY <1>0, <2>0
      <4>2. humanCompleted'[m + (x - position)] = x
        BY <1>0, <2>0, <2>4, <4>1
      <4> QED
        BY <2>0, <2>5, <4>1, <4>2 DEF ToSet
    <3> QED
      BY <3>1, <3>2, <3>3
  <2>7. \A x \in ToSet(humanCompleted) : x \in 1 .. position
    OBVIOUS
  <2>8. \A k \in 1 .. m : humanCompleted[k] \in 1 .. position
    BY <2>5, <2>7 DEF ToSet
  <2>9. \A i, j \in DOMAIN humanCompleted' : i < j => humanCompleted'[i] < humanCompleted'[j]
    <3> SUFFICES ASSUME NEW i \in 1 .. m + n, NEW j \in 1 .. m + n, i < j
                 PROVE  humanCompleted'[i] < humanCompleted'[j]
      BY <2>5
    <3>1. CASE j \in 1 .. m
      BY <2>0, <2>4, <2>5, <3>1
    <3>2. CASE i \in 1 .. m /\ j \in m + 1 .. m + n
      BY <1>0, <2>0, <2>4, <2>8, <3>2
    <3>3. CASE i \in m + 1 .. m + n /\ j \in m + 1 .. m + n
      BY <1>0, <2>0, <2>4, <3>3
    <3> QED
      BY <2>0, <3>1, <3>2, <3>3
  <2>10. verified' \cup ToSet(humanCompleted)' = 1 .. position'
    <3>1. 1 .. position + n = (1 .. position) \cup (position + 1 .. position + n)
      BY <1>0, <2>0
    <3> QED
      BY <2>3, <2>6, <3>1
  <2>11. verified' \cap ToSet(humanCompleted)' = {}
    <3>1. verified \subseteq 1 .. position
      OBVIOUS
    <3>2. (1 .. position) \cap (position + 1 .. position + n) = {}
      BY <1>0, <2>0
    <3> QED
      BY <2>3, <2>6, <3>1, <3>2
  <2> QED
    BY <2>9, <2>10, <2>11
<1> QED
  BY <1>1, <1>2, <1>3, StepAccounts

-----------------------------------------------------------------------------
(* The invariant, and what follows from it.                                *)

THEOREM Invariance == Spec => []Inv
<1>1. Inv /\ [Next]_vars => Inv'
  BY TypeNext, PlacedNext, AccountedNext DEF Inv
<1> QED
  BY InitInv, <1>1, PTL DEF Spec

\* Every variable stays in its type, for artifacts of any length.
THEOREM TypeCorrect == Spec => []TypeOK
  BY Invariance, PTL DEF Inv

LEMMA AccountedGives == Inv => StepsAccountedFor
<1> SUFFICES ASSUME Inv PROVE StepsAccountedFor
  OBVIOUS
<1>1. {s \in verified : s <= position} = verified
  BY DEF Inv, Accounted, TypeOK
<1> QED
  BY <1>1 DEF Inv, Accounted, StepsAccountedFor

\* Each step of the artifact is verified or a human's, once, and in order.
THEOREM AllStepsAccountedFor == Spec => []StepsAccountedFor
  BY Invariance, AccountedGives, PTL

\* SUCCESS is reported only when all steps are accounted for and the final
\* checkpoint was seen to hold.
THEOREM SuccessWasEarned == Spec => []SuccessIsEarned
  BY Invariance, PTL DEF Inv

LEMMA RefusalStep ==
    Inv /\ [Next]_vars =>
        [refused => attempts' = attempts /\ pc' # "recovering" /\ result' = "ESCALATED"]_vars
<1> SUFFICES ASSUME Inv, Next, refused
             PROVE  attempts' = attempts /\ pc' # "recovering" /\ result' = "ESCALATED"
  OBVIOUS
<1>1. pc \in Ended /\ result = "ESCALATED"
  BY DEF Inv, Placed
<1>2. Finish \/ ReadFails \/ RequestPause
  BY <1>1 DEF Next, Executor, Ended, Enter, Top, FinalCheckpoint, CheckPreconditions,
              EvaluatePolicy, Resolve, Act, CheckPostconditions, Recover, Answered,
              AnsweredBy, AfterHandoff
<1> QED
  BY <1>1, <1>2 DEF Finish, ReadFails, RequestPause, Continue, goto, loopVars, Ended

\* Once a human has refused, or nobody has answered, the run does nothing on the
\* page any more and ends as ESCALATED.
THEOREM RefusalsAreFinal == Spec => RefusalIsFinal
  BY Invariance, RefusalStep, PTL DEF Spec, RefusalIsFinal

-----------------------------------------------------------------------------
(* The budgets of the rules.                                               *)

LEMMA BudgetNext ==
    ASSUME Inv, RulesWithinBudget, [Next]_vars
    PROVE  RulesWithinBudget'
<1> USE DEF RulesWithinBudget, NotMade
<1>0. Inv'
  BY TypeNext, PlacedNext, AccountedNext DEF Inv
<1>1. CASE UNCHANGED <<ruleAttempts, result>>
  BY <1>1
<1>2. ASSUME UNCHANGED ruleAttempts, result = "none" PROVE RulesWithinBudget'
  <2> SUFFICES ASSUME NEW s \in StepIds, NEW r \in Rules
               PROVE  ruleAttempts[<<s, r>>] <= Rule[r].max_attempts + NotMade'
    BY <1>2
  <2>1. ruleAttempts[<<s, r>>] \in Nat /\ Rule[r].max_attempts \in Nat
    BY RuleAssumption DEF RuleSpec, Inv, TypeOK
  <2>2. ruleAttempts[<<s, r>>] <= Rule[r].max_attempts
    BY <1>2, <2>1
  <2> QED
    BY <2>1, <2>2
<1>3. ASSUME NEW k, Unexpected(k), result = "none", position < N PROVE RulesWithinBudget'
  <2>1. CASE UNCHANGED ruleAttempts
    BY <1>2, <1>3, <2>1
  <2>2. CASE \E r \in Rules : ApplyRule(r)
    <3> PICK q \in Rules : ApplyRule(q)
      BY <2>2
    <3>1. CASE UNCHANGED recoveryVars
      BY <1>2, <1>3, <3>1 DEF recoveryVars
    <3>2. CASE ruleAttempts' = [ruleAttempts EXCEPT ![<<current, q>>] = @ + 1]
      <4>1. ASSUME NEW s \in StepIds, NEW r \in Rules, <<s, r>> # <<current, q>>
            PROVE  ruleAttempts'[<<s, r>>] <= Rule[r].max_attempts + NotMade'
        <5>1. /\ ruleAttempts[<<s, r>>] \in Nat /\ Rule[r].max_attempts \in Nat
              /\ ruleAttempts[<<s, r>>] <= Rule[r].max_attempts
          BY <1>3, RuleAssumption DEF RuleSpec, Inv, TypeOK
        <5>2. ruleAttempts'[<<s, r>>] = ruleAttempts[<<s, r>>]
          BY <3>2, <4>1 DEF Inv, TypeOK
        <5> QED
          BY <5>1, <5>2
      <4>2. ruleAttempts'[<<current, q>>] <= Rule[q].max_attempts + NotMade'
        <5>1. /\ ruleAttempts[<<current, q>>] \in Nat /\ Rule[q].max_attempts \in Nat
              /\ ruleAttempts[<<current, q>>] <= Rule[q].max_attempts
          BY <1>3, RuleAssumption, CurrentIsStep DEF RuleSpec, Inv, TypeOK
        <5>2. ruleAttempts'[<<current, q>>] = ruleAttempts[<<current, q>>] + 1
          BY <1>3, <3>2, CurrentIsStep DEF Inv, TypeOK
        <5>3. \/ result' = "RECOVERABLE_EXHAUSTED"
              \/ ruleAttempts[<<current, q>>] + 1 <= Rule[q].max_attempts
          <6>1. CASE ruleAttempts[<<current, q>>] + 1 > Rule[q].max_attempts
            <7>1. \/ UNCHANGED recoveryVars
                  \/ Abort("RECOVERABLE_EXHAUSTED")
              BY <6>1, Zenon DEF ApplyRule
            <7> QED
              BY <5>1, <5>2, <7>1 DEF Abort, recoveryVars
          <6> QED
            BY <5>1, <6>1
        <5> QED
          BY <5>1, <5>2, <5>3
      <4> QED
        BY <4>1, <4>2
    <3> QED
      BY <3>1, <3>2, RuleApplied
  <2> QED
    BY <1>3, <2>1, <2>2 DEF Unexpected, recoveryVars
<1>4. pc \in InStep \cup {"entry", "top", "final"} => result = "none"
  BY DEF Inv, Placed, InStep, Ended
<1>5. pc \in InStep => position < N
  BY DEF Inv, Placed
<1> USE DEF InStep
<1>6. CASE UNCHANGED vars \/ Finish \/ ReadFails \/ RequestPause
  BY <1>1, <1>6 DEF vars, Finish, ReadFails, RequestPause, Continue, recoveryVars
<1>7. CASE Enter \/ Top \/ FinalCheckpoint \/ EvaluatePolicy \/ Act \/ Recover \/ Answered
           \/ AfterHandoff
  <2>1. UNCHANGED ruleAttempts
    BY <1>7 DEF Enter, Top, FinalCheckpoint, EvaluatePolicy, Act, Recover, Answered, AnsweredBy,
                AfterHandoff, recoveryVars
  <2>2. result = "none"
    BY <1>4, <1>7 DEF Enter, Top, FinalCheckpoint, EvaluatePolicy, Act, Recover, Answered,
                      AnsweredBy, AfterHandoff
  <2> QED
    BY <1>2, <2>1, <2>2
<1>8. CASE CheckPreconditions \/ Resolve \/ CheckPostconditions
  <2>1. result = "none" /\ position < N
    BY <1>4, <1>5, <1>8 DEF CheckPreconditions, Resolve, CheckPostconditions
  <2>2. UNCHANGED recoveryVars \/ \E k \in InterventionKind : Unexpected(k)
    BY <1>8 DEF CheckPreconditions, Resolve, CheckPostconditions, InterventionKind
  <2> QED
    BY <1>2, <1>3, <2>1, <2>2 DEF recoveryVars
<1> QED
  BY <1>6, <1>7, <1>8 DEF Next, Executor

LEMMA BudgetInit == Init => RulesWithinBudget
  BY RuleAssumption DEF Init, RulesWithinBudget, NotMade, RuleSpec

\* No rule is applied to a step more often than it may be.
THEOREM BudgetsKept == Spec => []RulesWithinBudget
<1>1. Inv /\ RulesWithinBudget /\ [Next]_vars => RulesWithinBudget'
  BY BudgetNext
<1> QED
  BY Invariance, BudgetInit, <1>1, PTL DEF Spec

-----------------------------------------------------------------------------
(* Sums over finite sets.  The folds of the library go through a set by    *)
(* Chosen; that their sums exist, and what they are, is shown by induction *)
(* over the number of elements, with a set of naturals for a predicate.    *)

\* The order of the naturals.
Before == {p \in Nat \X Nat : p[1] < p[2]}

\* Every set of numbers that is not empty has a least one.
LEMMA LeastExists ==
    ASSUME NEW S \in SUBSET Nat, S # {}
    PROVE  \E n \in S : \A m \in S : n <= m
<1>1. IsWellFoundedOn(Before, Nat)
  BY NatLessThanWellFounded DEF OpToRel, Before
<1>2. PICK n \in S : \A m \in S : ~(<<m, n>> \in Before)
  BY <1>1, WFMin
<1> SUFFICES ASSUME NEW m \in S PROVE n <= m
  OBVIOUS
<1>3. m \in Nat /\ n \in Nat
  OBVIOUS
<1>4. m < n => <<m, n>> \in Before
  BY <1>3 DEF Before
<1>5. ~(m < n)
  BY <1>2, <1>4
<1> QED
  BY <1>3, <1>5

\* Induction over the naturals, for a set instead of a predicate.
LEMMA NatSetInduction ==
    ASSUME NEW T, 0 \in T, \A n \in Nat : n \in T => n + 1 \in T
    PROVE  \A n \in Nat : n \in T
<1> SUFFICES ASSUME NEW k \in Nat, k \notin T PROVE FALSE
  OBVIOUS
<1> DEFINE Missing == {n \in Nat : n \notin T}
<1>1. PICK n \in Missing : \A m \in Missing : n <= m
  <2>1. Missing \in SUBSET Nat /\ Missing # {}
    OBVIOUS
  <2> HIDE DEF Missing
  <2> QED
    BY <2>1, LeastExists
<1>2. n # 0 /\ n \in Nat
  OBVIOUS
<1>3. n - 1 \in Nat /\ n - 1 \notin Missing
  BY <1>1, <1>2
<1>4. n - 1 + 1 \in T
  BY <1>3
<1> QED
  BY <1>1, <1>2, <1>4

\* How a fold goes through a set.
Chosen(s) == CHOOSE x \in s : TRUE

\* Induction over the subsets of a finite set, in the order of the fold.
LEMMA FoldInduction ==
    ASSUME NEW S, IsFiniteSet(S), NEW P, {} \in P,
           \A s \in SUBSET S : s # {} /\ s \ {Chosen(s)} \in P => s \in P
    PROVE  \A s \in SUBSET S : s \in P
<1> DEFINE T == {n \in Nat : \A s \in SUBSET S : Cardinality(s) = n => s \in P}
<1>1. \A s \in SUBSET S : IsFiniteSet(s) /\ Cardinality(s) \in Nat
                          /\ (Cardinality(s) = 0 <=> s = {})
  BY FS_Subset, FS_CardinalityType, FS_EmptySet
<1>2. 0 \in T
  BY <1>1
<1>3. ASSUME NEW n \in Nat, n \in T PROVE n + 1 \in T
  <2> SUFFICES ASSUME NEW s \in SUBSET S, Cardinality(s) = n + 1 PROVE s \in P
    OBVIOUS
  <2>1. s # {} /\ Chosen(s) \in s
    BY <1>1 DEF Chosen
  <2>2. Cardinality(s \ {Chosen(s)}) = n
    BY <1>1, <2>1, FS_RemoveElement
  <2> QED
    BY <1>3, <2>1, <2>2
<1>4. \A n \in Nat : n \in T
  <2> HIDE DEF T
  <2> QED
    BY <1>2, <1>3, NatSetInduction
<1> QED
  BY <1>1, <1>4

\* The sums over the subsets of S that the fold computes.
Sums(f, S) ==
    CHOOSE g : g = [s \in SUBSET S |-> IF s = {} THEN 0
                                       ELSE f[Chosen(s)] + g[s \ {Chosen(s)}]]

\* Their last: what FoldFunctionOnSet with addition gives.
Total(f, S) == Sums(f, S)[S]

\* Such sums exist: they are built up by the number of elements.
LEMMA TotalOf ==
    ASSUME NEW f, NEW S, IsFiniteSet(S)
    PROVE  /\ Sums(f, S)[{}] = 0
           /\ \A s \in SUBSET S : s # {} =>
                  /\ Chosen(s) \in s
                  /\ s \ {Chosen(s)} \in SUBSET S
                  /\ Sums(f, S)[s] = f[Chosen(s)] + Sums(f, S)[s \ {Chosen(s)}]
<1> DEFINE Sized(n) == {s \in SUBSET S : Cardinality(s) <= n}
           IsSum(g, D) == g = [s \in D |-> IF s = {} THEN 0
                                           ELSE f[Chosen(s)] + g[s \ {Chosen(s)}]]
           T == {n \in Nat : \E g : IsSum(g, Sized(n))}
<1>1. \A s \in SUBSET S : IsFiniteSet(s) /\ Cardinality(s) \in Nat
                          /\ (Cardinality(s) = 0 <=> s = {})
  BY FS_Subset, FS_CardinalityType, FS_EmptySet
<1>2. 0 \in T
  <2> DEFINE g == [s \in Sized(0) |-> 0]
  <2>1. \A s \in Sized(0) : s = {}
    BY <1>1
  <2>2. IsSum(g, Sized(0))
    BY <2>1
  <2> QED
    BY <2>2
<1>3. ASSUME NEW n \in Nat, n \in T PROVE n + 1 \in T
  <2> PICK g : IsSum(g, Sized(n))
    BY <1>3
  <2> DEFINE h == [s \in Sized(n + 1) |-> IF s = {} THEN 0
                                          ELSE f[Chosen(s)] + g[s \ {Chosen(s)}]]
  <2>1. \A s \in Sized(n + 1) : s # {} => s \ {Chosen(s)} \in Sized(n)
    <3> SUFFICES ASSUME NEW s \in Sized(n + 1), s # {} PROVE s \ {Chosen(s)} \in Sized(n)
      OBVIOUS
    <3>1. Chosen(s) \in s
      BY DEF Chosen
    <3>2. Cardinality(s \ {Chosen(s)}) = Cardinality(s) - 1
      BY <1>1, <3>1, FS_RemoveElement
    <3> QED
      BY <1>1, <3>2
  <2>2. Sized(n) \subseteq Sized(n + 1)
    BY <1>1
  <2>3. \A s \in Sized(n) : h[s] = g[s]
    BY <2>2
  <2>4. IsSum(h, Sized(n + 1))
    BY <2>1, <2>3
  <2> HIDE DEF h, Sized, IsSum
  <2>5. \E k : IsSum(k, Sized(n + 1))
    BY <2>4
  <2> QED
    BY <2>5
<1>4. Cardinality(S) \in T
  <2>1. \A n \in Nat : n \in T
    <3> HIDE DEF T
    <3> QED
      BY <1>2, <1>3, NatSetInduction
  <2> QED
    BY <1>1, <2>1
<1>5. SUBSET S = Sized(Cardinality(S))
  <2> SUFFICES ASSUME NEW s \in SUBSET S PROVE Cardinality(s) <= Cardinality(S)
    OBVIOUS
  <2> QED
    BY FS_Subset
<1>6. \E g : IsSum(g, SUBSET S)
  BY <1>4, <1>5
<1>7. IsSum(Sums(f, S), SUBSET S)
  BY <1>6 DEF Sums
<1>8. Sums(f, S)[{}] = 0
  BY <1>7
<1>9. ASSUME NEW s \in SUBSET S, s # {}
      PROVE  /\ Chosen(s) \in s
             /\ s \ {Chosen(s)} \in SUBSET S
             /\ Sums(f, S)[s] = f[Chosen(s)] + Sums(f, S)[s \ {Chosen(s)}]
  BY <1>7, <1>9 DEF Chosen
<1> QED
  BY <1>8, <1>9

\* Naturals add up to naturals.
LEMMA TotalInNat ==
    ASSUME NEW f, NEW S, IsFiniteSet(S), \A x \in S : f[x] \in Nat
    PROVE  \A s \in SUBSET S : Sums(f, S)[s] \in Nat
<1> DEFINE P == {s \in SUBSET S : Sums(f, S)[s] \in Nat}
<1>1. {} \in P
  BY TotalOf
<1>2. \A s \in SUBSET S : s # {} /\ s \ {Chosen(s)} \in P => s \in P
  BY TotalOf
<1>3. \A s \in SUBSET S : s \in P
  <2> HIDE DEF P
  <2> QED
    BY <1>1, <1>2, FoldInduction
<1> QED
  BY <1>3

\* Nothing adds up to nothing.
LEMMA TotalZero ==
    ASSUME NEW f, NEW S, IsFiniteSet(S), \A x \in S : f[x] = 0
    PROVE  Total(f, S) = 0
<1> DEFINE P == {s \in SUBSET S : Sums(f, S)[s] = 0}
<1>1. {} \in P
  BY TotalOf
<1>2. \A s \in SUBSET S : s # {} /\ s \ {Chosen(s)} \in P => s \in P
  BY TotalOf
<1>3. \A s \in SUBSET S : s \in P
  <2> HIDE DEF P
  <2> QED
    BY <1>1, <1>2, FoldInduction
<1> QED
  BY <1>3 DEF Total

\* Where no summand is smaller, the sum is not.
LEMMA TotalMonotonic ==
    ASSUME NEW f, NEW h, NEW S, IsFiniteSet(S),
           \A x \in S : f[x] \in Nat /\ h[x] \in Nat /\ f[x] <= h[x]
    PROVE  Total(f, S) <= Total(h, S)
<1> DEFINE P == {s \in SUBSET S : Sums(f, S)[s] <= Sums(h, S)[s]}
<1>1. {} \in P
  BY TotalOf
<1>2. \A s \in SUBSET S : s # {} /\ s \ {Chosen(s)} \in P => s \in P
  <2> SUFFICES ASSUME NEW s \in SUBSET S, s # {}, s \ {Chosen(s)} \in P PROVE s \in P
    OBVIOUS
  <2> DEFINE rest == s \ {Chosen(s)}
  <2>0. Chosen(s) \in S /\ rest \in SUBSET S
    BY TotalOf
  <2>1. /\ Sums(f, S)[s] = f[Chosen(s)] + Sums(f, S)[rest]
        /\ Sums(h, S)[s] = h[Chosen(s)] + Sums(h, S)[rest]
    BY TotalOf
  <2>2. Sums(f, S)[rest] \in Nat /\ Sums(h, S)[rest] \in Nat
    BY <2>0, TotalInNat
  <2> QED
    BY <2>0, <2>1, <2>2
<1>3. \A s \in SUBSET S : s \in P
  <2> HIDE DEF P
  <2> QED
    BY <1>1, <1>2, FoldInduction
<1> QED
  BY <1>3 DEF Total

\* One more at one place is one more in the sum.
LEMMA TotalOneMore ==
    ASSUME NEW f, NEW h, NEW S, IsFiniteSet(S), NEW e \in S, \A x \in S : f[x] \in Nat,
           h[e] = f[e] + 1, \A x \in S \ {e} : h[x] = f[x]
    PROVE  Total(h, S) = Total(f, S) + 1
<1> DEFINE P == {s \in SUBSET S :
                   Sums(h, S)[s] = Sums(f, S)[s] + (IF e \in s THEN 1 ELSE 0)}
<1>1. {} \in P
  BY TotalOf
<1>2. \A s \in SUBSET S : s # {} /\ s \ {Chosen(s)} \in P => s \in P
  <2> SUFFICES ASSUME NEW s \in SUBSET S, s # {}, s \ {Chosen(s)} \in P PROVE s \in P
    OBVIOUS
  <2> DEFINE c == Chosen(s)
             rest == s \ {c}
  <2>1. /\ c \in s /\ rest \in SUBSET S
        /\ Sums(f, S)[s] = f[c] + Sums(f, S)[rest] /\ Sums(h, S)[s] = h[c] + Sums(h, S)[rest]
    BY TotalOf
  <2>2. Sums(f, S)[rest] \in Nat /\ f[c] \in Nat
    BY <2>1, TotalInNat
  <2>3. Sums(h, S)[rest] = Sums(f, S)[rest] + (IF e \in rest THEN 1 ELSE 0)
    OBVIOUS
  <2> HIDE DEF c
  <2>4. CASE c = e
    BY <2>1, <2>2, <2>3, <2>4
  <2>5. CASE c # e
    <3>1. h[c] = f[c] /\ (e \in s <=> e \in rest)
      BY <2>1, <2>5
    <3> QED
      BY <2>1, <2>2, <2>3, <3>1
  <2> QED
    BY <2>4, <2>5
<1>3. \A s \in SUBSET S : s \in P
  <2> HIDE DEF P
  <2> QED
    BY <1>1, <1>2, FoldInduction
<1> QED
  BY <1>3 DEF Total

\* The sums that the budgets speak of, as totals.
LEMMA BudgetSums ==
    /\ FoldFunction(LAMBDA n, m : n + m, 0, ruleAttempts)
           = Total(ruleAttempts, DOMAIN ruleAttempts)
    /\ FoldFunctionOnSet(+, 0, [r \in Rules |-> Rule[r].max_attempts], Recoverable)
           = Total([r \in Rules |-> Rule[r].max_attempts], Recoverable)
  BY DEF FoldFunction, FoldFunctionOnSet, MapThenFoldSet, Total, Sums, Chosen

\* Steps, rules and so the budgets are finitely many.
LEMMA FiniteBudgets ==
    /\ IsFiniteSet(StepIds \X Rules)
    /\ IsFiniteSet(Recoverable) /\ Recoverable \subseteq Rules
<1>1. IsFiniteSet(StepIds)
  BY SizeAssumption, FS_Interval DEF StepIds
<1>2. IsFiniteSet(StepIds \X Rules)
  BY <1>1, RulesFinite, FS_Product
<1>3. Recoverable \in SUBSET Rules
  BY DEF Recoverable
<1> QED
  BY <1>2, <1>3, RulesFinite, FS_Subset

-----------------------------------------------------------------------------
(* What a step does to the charges of the rules.                           *)

\* Rule r is charged for the current step, once.
Charge(r) ==
    /\ r \in Recoverable
    /\ ruleAttempts' = [ruleAttempts EXCEPT ![<<current, r>>] = @ + 1]

\* A recovery is made for each charge but the one that exhausts the budget.
Charged ==
    /\ result = "none" /\ position < N /\ pc \in InStep
    /\ \E r \in Rules : Charge(r)
    /\ UNCHANGED <<position, attempts, retried>>
    /\ \/ /\ recoveries' = recoveries + 1 /\ result' = "none"
          /\ pc' \in {"top", "recovering"}
       \/ /\ UNCHANGED recoveries /\ result' = "RECOVERABLE_EXHAUSTED"
          /\ pc' = "finishing"

\* Nothing is charged, and no budget is found exhausted.
Free ==
    /\ UNCHANGED recoveryVars
    /\ result' = result \/ (result = "none" /\ result' # "RECOVERABLE_EXHAUSTED")

LEMMA UnexpectedCharges ==
    ASSUME Inv, pc \in InStep, NEW k, Unexpected(k), UNCHANGED retried
    PROVE  Charged \/ Free
<1>1. result = "none" /\ position < N
  BY DEF Inv, Placed, InStep, Ended
<1>2. CASE FailOrEscalate(k) /\ UNCHANGED recoveryVars
  BY <1>1, <1>2 DEF FailOrEscalate, Ask, Continue, Abort, Free
<1>3. ASSUME NEW r \in Rules, ApplyRule(r) PROVE Charged \/ Free
  <2>1. CASE (Abort("BUSINESS_OUTCOME") \/ Abort("HARD_FAILURE")) /\ UNCHANGED recoveryVars
    BY <1>1, <2>1 DEF Abort, Free
  <2>2. CASE /\ ruleAttempts' = [ruleAttempts EXCEPT ![<<current, r>>] = @ + 1]
             /\ \/ Abort("RECOVERABLE_EXHAUSTED") /\ UNCHANGED recoveries
                \/ recoveries' = recoveries + 1 /\ (Continue("top") \/ Continue("recovering"))
    <3>1. CASE r \in Recoverable
      BY <1>1, <2>2, <3>1 DEF Charged, Charge, Abort, Continue, goto, loopVars
    <3>2. CASE r \notin Recoverable
      <4>1. Rule[r].category \in {"business_outcome", "hard_failure"}
        BY <1>3, <3>2, RuleAssumption DEF RuleSpec, Recoverable
      <4>2. (Abort("BUSINESS_OUTCOME") \/ Abort("HARD_FAILURE")) /\ UNCHANGED recoveryVars
        BY <1>3, <4>1, Zenon DEF ApplyRule
      <4> QED
        BY <2>1, <4>2
    <3> QED
      BY <3>1, <3>2
  <2> QED
    BY <1>3, <2>1, <2>2, RuleApplied
<1> QED
  BY <1>2, <1>3 DEF Unexpected

\* Every step charges one rule, or none.
LEMMA StepCharges ==
    ASSUME Inv, [Next]_vars
    PROVE  Charged \/ Free
<1>1. CASE UNCHANGED vars \/ RequestPause \/ Finish \/ ReadFails
  BY <1>1 DEF vars, RequestPause, Finish, ReadFails, Continue, Free
<1>2. pc \notin Ended => result = "none"
  BY DEF Inv, Placed
<1>3. CASE Enter \/ Top \/ FinalCheckpoint \/ EvaluatePolicy \/ Act \/ Recover \/ AfterHandoff
  <2>1. pc \notin Ended
    BY <1>3 DEF Enter, Top, FinalCheckpoint, EvaluatePolicy, Act, Recover, AfterHandoff, Ended
  <2>2. UNCHANGED recoveryVars
    BY <1>3 DEF Enter, Top, FinalCheckpoint, EvaluatePolicy, Act, Recover, AfterHandoff,
                recoveryVars
  <2>3. result' # "RECOVERABLE_EXHAUSTED"
    BY <1>2, <1>3, <2>1 DEF Enter, Top, FinalCheckpoint, EvaluatePolicy, Act, Recover,
       AfterHandoff, ResumeAt, StepDone, GoOnAfter, Ask, Continue, Abort
  <2> QED
    BY <1>2, <2>1, <2>2, <2>3 DEF Free
<1>4. CASE Answered
  BY <1>2, <1>4 DEF Answered, AnsweredBy, Ended, Free
<1>5. CASE CheckPreconditions \/ Resolve \/ CheckPostconditions
  <2>1. pc \in InStep /\ UNCHANGED retried
    BY <1>5 DEF CheckPreconditions, Resolve, CheckPostconditions, InStep, history
  <2>2. \/ \E k \in InterventionKind : Unexpected(k)
        \/ UNCHANGED <<recoveryVars, result>>
    BY <1>5 DEF CheckPreconditions, Resolve, CheckPostconditions, InterventionKind, StepDone,
                GoOnAfter, Continue
  <2> QED
    BY <2>1, <2>2, UnexpectedCharges DEF Free
<1> QED
  BY <1>1, <1>3, <1>4, <1>5 DEF Next, Executor

-----------------------------------------------------------------------------
(* Every charge is a recovery.                                             *)

RecoveriesCharged == recoveries + NotMade = Total(ruleAttempts, StepIds \X Rules)

LEMMA RecoveriesNext ==
    ASSUME Inv, RecoveriesCharged, [Next]_vars
    PROVE  RecoveriesCharged'
<1> USE DEF RecoveriesCharged, NotMade
<1>1. recoveries \in Nat /\ ruleAttempts \in [StepIds \X Rules -> Nat]
  BY DEF Inv, TypeOK
<1>2. CASE Free
  BY <1>1, <1>2 DEF Free, recoveryVars
<1>3. CASE Charged
  <2> PICK r \in Rules : Charge(r)
    BY <1>3 DEF Charged
  <2> DEFINE key == <<current, r>>
  <2>1. key \in StepIds \X Rules
    BY <1>3, CurrentIsStep DEF Charged, Inv
  <2>2. /\ ruleAttempts'[key] = ruleAttempts[key] + 1
        /\ \A x \in (StepIds \X Rules) \ {key} : ruleAttempts'[x] = ruleAttempts[x]
    BY <1>1, <2>1 DEF Charge
  <2>3. Total(ruleAttempts', StepIds \X Rules) = Total(ruleAttempts, StepIds \X Rules) + 1
    <3>1. \A x \in StepIds \X Rules : ruleAttempts[x] \in Nat
      BY <1>1
    <3> HIDE DEF key
    <3> QED
      BY <2>1, <2>2, <3>1, FiniteBudgets, TotalOneMore
  <2>4. recoveries' + NotMade' = recoveries + NotMade + 1
    BY <1>1, <1>3 DEF Charged
  <2> QED
    BY <2>3, <2>4
<1> QED
  BY <1>2, <1>3, StepCharges

LEMMA RecoveriesInit == Init => RecoveriesCharged
<1> SUFFICES ASSUME Init PROVE RecoveriesCharged
  OBVIOUS
<1>1. Total(ruleAttempts, StepIds \X Rules) = 0
  BY FiniteBudgets, TotalZero DEF Init
<1> QED
  BY <1>1 DEF Init, RecoveriesCharged, NotMade

LEMMA RecoveriesGive ==
    Inv /\ RecoveriesCharged /\ RulesWithinBudget => RecoveriesWithinBudget
<1> SUFFICES ASSUME Inv, RecoveriesCharged, RulesWithinBudget PROVE RecoveriesWithinBudget
  OBVIOUS
<1>1. DOMAIN ruleAttempts = StepIds \X Rules
  BY DEF Inv, TypeOK
<1>2. FoldFunction(LAMBDA n, m : n + m, 0, ruleAttempts) = recoveries + NotMade
  BY <1>1, BudgetSums DEF RecoveriesCharged
<1> QED
  BY <1>2 DEF RecoveriesWithinBudget

\* The rules stay within their budgets, and the run reports each recovery that was
\* charged to one.
THEOREM RecoveriesReported == Spec => []RecoveriesWithinBudget
<1>1. Inv /\ RecoveriesCharged /\ [Next]_vars => RecoveriesCharged'
  BY RecoveriesNext
<1> QED
  BY Invariance, BudgetsKept, RecoveriesInit, <1>1, RecoveriesGive, PTL DEF Spec

-----------------------------------------------------------------------------
(* The tries of a step.                                                    *)

\* What the rules have been charged for the current step so far, and the retry
\* after a hand-off.
Spent == Total([r \in Rules |-> ruleAttempts[<<current, r>>]], Recoverable)

Retry == IF current \in retried THEN 1 ELSE 0

\* Places from which the action may be next: each way there has been paid for.
TryDue ==
    \/ pc \in {"entry", "top", "pre", "policy", "resolve", "act", "recovering"}
    \/ pc = "asking" /\ asking \in {"operator_pause", "approval_required"}

Budgeted ==
    position < N /\ pc \notin Ended =>
        /\ attempts <= step.attempts + Retry + Spent
        /\ TryDue => attempts < step.attempts + Retry + Spent

LEMMA SpentInNat == TypeOK /\ position < N => Spent \in Nat
<1> SUFFICES ASSUME TypeOK, position < N PROVE Spent \in Nat
  OBVIOUS
<1> DEFINE f == [r \in Rules |-> ruleAttempts[<<current, r>>]]
<1>1. \A r \in Recoverable : f[r] \in Nat
  BY FiniteBudgets, CurrentIsStep DEF TypeOK
<1>2. Sums(f, Recoverable)[Recoverable] \in Nat
  <2> HIDE DEF f
  <2> QED
    BY <1>1, FiniteBudgets, TotalInNat
<1> QED
  BY <1>2 DEF Spent, Total

LEMMA Amounts ==
    TypeOK /\ position < N => /\ attempts \in Nat /\ step.attempts \in Nat \ {0}
                             /\ Spent \in Nat /\ Retry \in {0, 1}
  BY CurrentIsStep, SpentInNat DEF TypeOK, StepSpec, Retry

\* What a charge adds.
LEMMA SpentMore ==
    ASSUME TypeOK, Charged
    PROVE  Spent' = Spent + 1
<1> PICK q \in Rules : Charge(q)
  BY DEF Charged
<1> DEFINE f == [r \in Rules |-> ruleAttempts[<<current, r>>]]
           g == [r \in Rules |-> ruleAttempts'[<<current, r>>]]
<1>1. position < N /\ current' = current /\ current \in StepIds
  BY CurrentIsStep DEF Charged, current
<1>2. \A r \in Rules : <<current, r>> \in StepIds \X Rules
  BY <1>1
<1>3. /\ \A r \in Recoverable : f[r] \in Nat
      /\ g[q] = f[q] + 1 /\ q \in Recoverable
      /\ \A r \in Recoverable \ {q} : g[r] = f[r]
  BY <1>2, FiniteBudgets DEF Charge, TypeOK
<1>4. Total(g, Recoverable) = Total(f, Recoverable) + 1
  <2> HIDE DEF f, g
  <2> QED
    BY <1>3, FiniteBudgets, TotalOneMore
<1>5. Spent' = Total(g, Recoverable)
  BY <1>1 DEF Spent, Recoverable
<1> QED
  BY <1>4, <1>5 DEF Spent

\* What all the rules may be charged for a step.
Budget == Total([r \in Rules |-> Rule[r].max_attempts], Recoverable)

\* What is spent for a step is what its rules may spend at most.
LEMMA SpentIsBounded ==
    Inv /\ RulesWithinBudget /\ result = "none" /\ position < N => Spent <= Budget
<1> SUFFICES ASSUME Inv, RulesWithinBudget, result = "none", position < N
             PROVE  Spent <= Budget
  OBVIOUS
<1> DEFINE f == [r \in Rules |-> ruleAttempts[<<current, r>>]]
           g == [r \in Rules |-> Rule[r].max_attempts]
<1>1. current \in StepIds
  BY CurrentIsStep DEF Inv
<1>2. \A r \in Recoverable : f[r] \in Nat /\ g[r] \in Nat /\ f[r] <= g[r]
  <2> SUFFICES ASSUME NEW r \in Rules PROVE f[r] \in Nat /\ g[r] \in Nat /\ f[r] <= g[r]
    BY FiniteBudgets
  <2>1. ruleAttempts[<<current, r>>] \in Nat /\ Rule[r].max_attempts \in Nat
    BY <1>1, RuleAssumption DEF Inv, TypeOK, RuleSpec
  <2>2. ruleAttempts[<<current, r>>] <= Rule[r].max_attempts + 0
    BY <1>1 DEF RulesWithinBudget, NotMade
  <2> QED
    BY <2>1, <2>2
<1> HIDE DEF f, g
<1>3. Total(f, Recoverable) <= Total(g, Recoverable)
  BY <1>2, FiniteBudgets, TotalMonotonic
<1> QED
  BY <1>3 DEF Spent, Budget, f, g

\* What a step does to the tries of the artifact's current step.
Closes ==
    /\ pc' \in Ended /\ UNCHANGED position
    /\ attempts' = attempts \/ (pc = "act" /\ attempts' = attempts + 1)

Begins == attempts' = 0 /\ UNCHANGED ruleAttempts

Keeps ==
    /\ pc \notin Ended /\ UNCHANGED <<position, attempts, ruleAttempts, retried>>
    /\ TryDue' => TryDue

Tries ==
    /\ pc = "act" /\ attempts' = attempts + 1
    /\ UNCHANGED <<position, ruleAttempts, retried>>
    /\ pc' = "post" \/ attempts' < step.attempts

Retries ==
    /\ pc \notin Ended /\ current \notin retried /\ retried' = retried \cup {current}
    /\ UNCHANGED <<position, attempts, ruleAttempts>>

LEMMA UnexpectedTries ==
    ASSUME Inv, pc \in InStep,
           NEW k \in {"checkpoint_failed", "target_unresolved"}, Unexpected(k), UNCHANGED retried,
           k = "target_unresolved" => TryDue
    PROVE  Charged \/ Closes \/ Keeps
<1>1. pc \notin Ended /\ k \in InterventionKind
  BY DEF InStep, Ended, InterventionKind
<1>2. CASE FailOrEscalate(k) /\ UNCHANGED recoveryVars
  <2>1. CASE Ask(k)
    <3>1. TryDue' => TryDue
      BY <2>1 DEF Ask, Continue, goto, TryDue
    <3> QED
      BY <1>1, <1>2, <2>1, <3>1 DEF Ask, Continue, goto, loopVars, recoveryVars, Keeps
  <2>2. CASE Abort("HARD_FAILURE")
    BY <2>2 DEF Abort, goto, loopVars, Closes, Ended
  <2> QED
    BY <1>2, <2>1, <2>2 DEF FailOrEscalate
<1>3. ASSUME NEW r \in Rules, ApplyRule(r) PROVE Charged \/ Closes
  <2>1. CASE pc' = "finishing" /\ UNCHANGED loopVars
    BY <2>1 DEF loopVars, Closes, Ended
  <2>2. CASE ~(pc' = "finishing" /\ UNCHANGED loopVars)
    <3>1. recoveries' = recoveries + 1
      BY <1>3, <2>2, RuleApplied DEF Abort, goto
    <3>2. recoveries' # recoveries
      BY <3>1 DEF Inv, TypeOK
    <3>3. ~Free
      BY <3>2 DEF Free, recoveryVars
    <3> QED
      BY <3>3, UnexpectedCharges
  <2> QED
    BY <2>1, <2>2
<1> QED
  BY <1>2, <1>3 DEF Unexpected

\* Every step is of one of these sorts.
LEMMA StepTries ==
    ASSUME Inv, [Next]_vars
    PROVE  Charged \/ Closes \/ Begins \/ Keeps \/ Tries \/ Retries
<1> USE DEF Ended
<1>1. CASE UNCHANGED vars \/ RequestPause
  <2>1. UNCHANGED <<pc, position, attempts, ruleAttempts, retried, asking>>
    BY <1>1 DEF vars, RequestPause, loopVars, recoveryVars, history, askVars
  <2>2. TryDue' => TryDue
    BY <2>1 DEF TryDue
  <2> QED
    BY <2>1, <2>2 DEF Closes, Keeps
<1>2. CASE FinalCheckpoint \/ Finish \/ ReadFails
  BY <1>2 DEF FinalCheckpoint, Finish, ReadFails, Continue, Abort, goto, loopVars, Closes
<1>3. CASE Enter \/ Top \/ EvaluatePolicy
  <2>1. pc \notin Ended /\ TryDue /\ UNCHANGED <<ruleAttempts, retried>>
    BY <1>3 DEF Enter, Top, EvaluatePolicy, recoveryVars, history, TryDue
  <2>2. UNCHANGED <<position, attempts>>
    BY <1>3 DEF Enter, Top, EvaluatePolicy, Ask, Continue, Abort, loopVars
  <2>3. Keeps
    BY <2>1, <2>2, Zenon DEF Keeps
  <2> QED
    BY <2>3
<1>4. CASE CheckPreconditions \/ Resolve \/ CheckPostconditions
  <2>1. /\ pc \in InStep /\ UNCHANGED retried
        /\ CheckPreconditions \/ Resolve => TryDue
    BY <1>4 DEF CheckPreconditions, Resolve, CheckPostconditions, InStep, history, TryDue
  <2>2. CASE Unexpected("checkpoint_failed")
    BY <2>1, <2>2, UnexpectedTries
  <2>3. CASE Unexpected("target_unresolved") /\ TryDue
    BY <2>1, <2>3, UnexpectedTries
  <2>4. CASE /\ CheckPreconditions \/ Resolve
             /\ Continue("policy") \/ Continue("act")
             /\ UNCHANGED recoveryVars
    BY <2>1, <2>4 DEF Continue, loopVars, recoveryVars, InStep, Keeps
  <2>5. CASE StepDone /\ UNCHANGED recoveryVars
    BY <2>5 DEF StepDone, GoOnAfter, recoveryVars, Begins
  <2> QED
    BY <1>4, <2>1, <2>2, <2>3, <2>4, <2>5 DEF CheckPreconditions, Resolve, CheckPostconditions
<1>5. CASE Act
  BY <1>5 DEF Act, goto, loopVars, recoveryVars, history, Closes, Tries
<1>6. CASE Recover
  <2>1. pc \notin Ended /\ TryDue /\ UNCHANGED <<ruleAttempts, retried>>
    BY <1>6 DEF Recover, recoveryVars, history, TryDue
  <2> QED
    BY <1>6, <2>1 DEF Recover, StepDone, GoOnAfter, Continue, goto, loopVars, Begins, Keeps
<1>7. CASE Answered
  <2> PICK answer \in Answers : AnsweredBy(answer)
    BY <1>7 DEF Answered
  <2>1. /\ pc = "asking" /\ UNCHANGED <<position, attempts, ruleAttempts, retried, asking>>
        /\ answer \in {"unattended", "released", "aborted", "timed_out", "approved"}
        /\ answer = "approved" => asking = "approval_required"
    BY DEF AnsweredBy, Answers, recoveryVars, history
  <2>2. CASE answer \in Refusals
    <3>1. pc' = "finishing" /\ UNCHANGED <<position, attempts>>
      BY <2>1, <2>2 DEF AnsweredBy, goto, Refusals
    <3> QED
      BY <3>1 DEF Closes
  <2>3. CASE answer = "approved"
    BY <2>1, <2>3 DEF TryDue, Keeps
  <2>4. CASE answer = "released" /\ asking = "operator_pause"
    BY <2>1, <2>4 DEF TryDue, Keeps
  <2>5. CASE answer = "released" /\ asking # "operator_pause"
    <3>1. pc' = "handoff"
      BY <2>5 DEF AnsweredBy, goto, Refusals
    <3> QED
      BY <2>1, <3>1 DEF TryDue, Keeps
  <2> QED
    BY <2>1, <2>2, <2>3, <2>4, <2>5 DEF Refusals
<1>8. CASE AfterHandoff
  <2>1. pc \notin Ended /\ UNCHANGED ruleAttempts
    BY <1>8 DEF AfterHandoff, recoveryVars
  <2> QED
    BY <1>8, <2>1 DEF AfterHandoff, StepDone, ResumeAt, GoOnAfter, Continue, Abort, goto,
                      loopVars, Begins, Retries, Closes
<1> QED
  BY <1>1, <1>2, <1>3, <1>4, <1>5, <1>6, <1>7, <1>8 DEF Next, Executor

\* A step that is charged goes on with one try more in its budget.
LEMMA BudgetedNext ==
    ASSUME Inv, Budgeted, [Next]_vars
    PROVE  Budgeted'
<1> USE DEF Ended
<1>0. TypeOK /\ TypeOK'
  BY TypeNext DEF Inv
<1>1. SUFFICES ASSUME position' < N, pc' \notin Ended
               PROVE  /\ attempts' <= step'.attempts + Retry' + Spent'
                      /\ TryDue' => attempts' < step'.attempts + Retry' + Spent'
  BY DEF Budgeted
<1>2. /\ attempts' \in Nat /\ step'.attempts \in Nat \ {0} /\ Spent' \in Nat
      /\ Retry' \in {0, 1}
  <2>1. (TypeOK /\ position < N => /\ attempts \in Nat /\ step.attempts \in Nat \ {0}
                                  /\ Spent \in Nat /\ Retry \in {0, 1})'
    BY Amounts, PTL
  <2> QED
    BY <1>0, <1>1, <2>1
<1>3. CASE Begins
  BY <1>2, <1>3 DEF Begins
<1>4. ASSUME UNCHANGED position PROVE step' = step /\ current' = current
  BY <1>4 DEF step, current
<1>5. ASSUME UNCHANGED <<position, ruleAttempts>> PROVE Spent' = Spent
  BY <1>4, <1>5 DEF Spent, Recoverable
<1>6. ASSUME position < N
      PROVE  /\ attempts \in Nat /\ step.attempts \in Nat \ {0} /\ Spent \in Nat
             /\ Retry \in {0, 1}
  BY <1>0, <1>6, Amounts
<1>7. CASE Charged
  <2>1. Spent' = Spent + 1 /\ step' = step /\ Retry' = Retry /\ attempts' = attempts
    BY <1>0, <1>4, <1>7, SpentMore DEF Charged, Retry
  <2>2. position < N /\ pc \notin Ended
    BY <1>7 DEF Charged, InStep
  <2>3. attempts <= step.attempts + Retry + Spent
    BY <2>2 DEF Budgeted
  <2> QED
    BY <1>6, <2>1, <2>2, <2>3
<1>8. CASE Keeps
  <2>1. Spent' = Spent /\ step' = step /\ Retry' = Retry /\ attempts' = attempts
    BY <1>4, <1>5, <1>8 DEF Keeps, Retry
  <2>2. position < N /\ pc \notin Ended /\ (TryDue' => TryDue)
    BY <1>1, <1>8 DEF Keeps
  <2> QED
    BY <2>1, <2>2 DEF Budgeted
<1>9. CASE Tries
  <2>1. Spent' = Spent /\ step' = step /\ Retry' = Retry /\ attempts' = attempts + 1
    BY <1>4, <1>5, <1>9 DEF Tries, Retry
  <2>2. position < N /\ pc \notin Ended /\ TryDue
    BY <1>1, <1>9 DEF Tries, TryDue
  <2>3. attempts < step.attempts + Retry + Spent
    BY <2>2 DEF Budgeted
  <2>4. pc' = "post" => ~TryDue'
    BY DEF TryDue
  <2> QED
    BY <1>6, <1>9, <2>1, <2>2, <2>3, <2>4 DEF Tries
<1>10. CASE Retries
  <2>1. /\ Spent' = Spent /\ step' = step /\ attempts' = attempts
        /\ Retry' = 1 /\ Retry = 0
    BY <1>4, <1>5, <1>10 DEF Retries, Retry
  <2>2. position < N /\ pc \notin Ended
    BY <1>1, <1>10 DEF Retries
  <2>3. attempts <= step.attempts + Retry + Spent
    BY <2>2 DEF Budgeted
  <2> QED
    BY <1>6, <2>1, <2>2, <2>3
<1>11. ~Closes
  BY <1>1 DEF Closes
<1> QED
  BY <1>3, <1>7, <1>8, <1>9, <1>10, <1>11, StepTries

\* The bound on the tries of a step.
WithinBudgets == position < N => attempts <= step.attempts + 1 + Budget

LEMMA BudgetInNat == Budget \in Nat
<1> DEFINE g == [r \in Rules |-> Rule[r].max_attempts]
<1>1. \A r \in Recoverable : g[r] \in Nat
  BY RuleAssumption DEF RuleSpec, Recoverable
<1>2. Sums(g, Recoverable)[Recoverable] \in Nat
  <2> HIDE DEF g
  <2> QED
    BY <1>1, FiniteBudgets, TotalInNat
<1> QED
  BY <1>2 DEF Budget, Total

LEMMA WithinBudgetsNext ==
    ASSUME Inv, Inv', Budgeted, Budgeted', RulesWithinBudget, RulesWithinBudget',
           WithinBudgets, [Next]_vars
    PROVE  WithinBudgets'
<1> USE DEF Ended
<1>1. SUFFICES ASSUME position' < N PROVE attempts' <= step'.attempts + 1 + Budget
  BY DEF WithinBudgets, Budget, Recoverable
<1>2. Budget \in Nat
  BY BudgetInNat
<1>3. CASE pc' \notin Ended
  <2>1. result' = "none"
    BY <1>3 DEF Inv, Placed
  <2>2. Spent' <= Budget'
    <3>1. (Inv /\ RulesWithinBudget /\ result = "none" /\ position < N => Spent <= Budget)'
      BY SpentIsBounded, PTL
    <3> QED
      BY <1>1, <2>1, <3>1
  <2>3. Budget' = Budget
    BY DEF Budget, Recoverable
  <2>4. attempts' <= step'.attempts + Retry' + Spent'
    BY <1>1, <1>3 DEF Budgeted
  <2>5. attempts' \in Nat /\ step'.attempts \in Nat /\ Spent' \in Nat /\ Retry' \in {0, 1}
    <3>1. (TypeOK /\ position < N => /\ attempts \in Nat /\ step.attempts \in Nat \ {0}
                                    /\ Spent \in Nat /\ Retry \in {0, 1})'
      BY Amounts, PTL
    <3> QED
      BY <1>1, <3>1 DEF Inv
  <2> QED
    BY <1>2, <2>2, <2>3, <2>4, <2>5
<1>4. CASE pc' \in Ended
  <2>1. CASE UNCHANGED <<position, attempts>>
    BY <1>1, <2>1 DEF WithinBudgets, step, current
  <2>2. CASE pc = "act" /\ UNCHANGED position /\ attempts' = attempts + 1
    <3>1. position < N /\ TryDue /\ result = "none" /\ step' = step
      BY <1>1, <2>2 DEF TryDue, Inv, Placed, step, current
    <3>2. attempts < step.attempts + Retry + Spent
      BY <2>2, <3>1 DEF Budgeted
    <3>3. Spent <= Budget
      BY <3>1, SpentIsBounded DEF Budget
    <3>4. attempts \in Nat /\ step.attempts \in Nat /\ Spent \in Nat /\ Retry \in {0, 1}
      BY <3>1, Amounts DEF Inv
    <3> QED
      BY <1>2, <2>2, <3>1, <3>2, <3>3, <3>4
  <2>3. CASE Begins /\ ~UNCHANGED <<position, attempts>>
    <3>1. (TypeOK /\ position < N => /\ attempts \in Nat /\ step.attempts \in Nat \ {0}
                                    /\ Spent \in Nat /\ Retry \in {0, 1})'
      BY Amounts, PTL
    <3> QED
      BY <1>1, <1>2, <2>3, <3>1 DEF Begins, Inv
  <2>4. ~Charged \/ UNCHANGED <<position, attempts>>
    BY DEF Charged
  <2> QED
    BY <1>4, <2>1, <2>2, <2>3, <2>4, StepTries DEF Closes, Keeps, Tries, Retries
<1> QED
  BY <1>3, <1>4

LEMMA TriesInit == Init => Budgeted /\ WithinBudgets
<1> SUFFICES ASSUME Init PROVE Budgeted /\ WithinBudgets
  OBVIOUS
<1>1. TypeOK /\ position < N /\ attempts = 0
  BY InitInv, SizeAssumption DEF Init, Inv
<1>2. step.attempts \in Nat \ {0} /\ Spent \in Nat /\ Retry \in {0, 1}
  BY <1>1, Amounts
<1>3. Budgeted
  BY <1>1, <1>2 DEF Budgeted
<1>4. Budget \in Nat
  BY BudgetInNat
<1> QED
  BY <1>1, <1>2, <1>3, <1>4 DEF WithinBudgets

LEMMA TriesGive == WithinBudgets => TriesWithinBudgets
  BY BudgetSums DEF WithinBudgets, Budget, TriesWithinBudgets

\* The retry policy, the recoveries of the rules and the one retry after a hand-off
\* do not multiply: the tries of a step never exceed the sum of their budgets.
THEOREM TriesBounded == Spec => []TriesWithinBudgets
<1>1. Inv /\ Budgeted /\ [Next]_vars => Budgeted'
  BY BudgetedNext
<1>2. /\ Inv /\ Budgeted /\ RulesWithinBudget /\ WithinBudgets /\ [Next]_vars
      /\ Inv' /\ Budgeted' /\ RulesWithinBudget'
      => WithinBudgets'
  BY WithinBudgetsNext
<1> QED
  BY Invariance, BudgetsKept, TriesInit, <1>1, <1>2, TriesGive, PTL DEF Spec

-----------------------------------------------------------------------------
(* All of it as one invariant, for a system that the executor is a part of. *)

Kept == Inv /\ RulesWithinBudget /\ RecoveriesCharged /\ Budgeted /\ WithinBudgets

LEMMA KeptInit == Init => Kept
  BY InitInv, BudgetInit, RecoveriesInit, TriesInit DEF Kept

LEMMA KeptNext == Kept /\ [Next]_vars => Kept'
<1> SUFFICES ASSUME Kept, [Next]_vars PROVE Kept'
  OBVIOUS
<1>1. Inv'
  BY TypeNext, PlacedNext, AccountedNext DEF Kept, Inv
<1>2. RulesWithinBudget' /\ RecoveriesCharged' /\ Budgeted'
  BY BudgetNext, RecoveriesNext, BudgetedNext DEF Kept
<1>3. WithinBudgets'
  BY <1>1, <1>2, WithinBudgetsNext DEF Kept
<1> QED
  BY <1>1, <1>2, <1>3 DEF Kept

LEMMA KeptGives ==
    Kept => StepsAccountedFor /\ SuccessIsEarned /\ RecoveriesWithinBudget /\ TriesWithinBudgets
  BY AccountedGives, RecoveriesGive, TriesGive DEF Kept, Inv

-----------------------------------------------------------------------------
(* Refinement.                                                             *)

\* What a step does to the place: the run goes on, or dies, or returns, and one
\* that has ended does nothing more.
LEMMA StepEnds ==
    ASSUME Inv, [Next]_vars
    PROVE  \/ UNCHANGED <<pc, result, position>>
           \/ pc \notin {"done", "crashed"} /\ pc' \notin {"done", "crashed"}
           \/ pc \notin {"done", "crashed"} /\ pc' = "crashed" /\ UNCHANGED position
           \/ pc = "finishing" /\ pc' = "done" /\ UNCHANGED <<result, position>>
<1>1. CASE UNCHANGED vars \/ RequestPause
  BY <1>1 DEF vars, RequestPause, loopVars
<1>2. CASE Enter \/ ReadFails \/ Recover
  BY <1>2 DEF Enter, ReadFails, Recover, StepDone, GoOnAfter, Continue, Abort, goto, loopVars
<1>3. CASE Top \/ FinalCheckpoint \/ EvaluatePolicy \/ Act \/ AfterHandoff
  BY <1>3 DEF Top, FinalCheckpoint, EvaluatePolicy, Act, AfterHandoff, ResumeAt, StepDone,
              GoOnAfter, Ask, Continue, Abort, goto
<1>4. CASE Finish
  BY <1>4 DEF Finish, Continue, goto, loopVars
<1>5. CASE CheckPreconditions \/ Resolve \/ CheckPostconditions
  <2>1. TypeOK /\ position < N /\ pc \in InStep
    BY <1>5 DEF CheckPreconditions, Resolve, CheckPostconditions, Inv, Placed, InStep
  <2>2. ASSUME NEW k \in InterventionKind, Unexpected(k)
        PROVE  pc' \in {"top", "recovering", "asking", "finishing"}
    BY <2>1, <2>2, UnexpectedDoes
  <2> QED
    BY <1>5, <2>1, <2>2 DEF CheckPreconditions, Resolve, CheckPostconditions, InStep, StepDone,
                            GoOnAfter, Continue, goto, InterventionKind
<1>6. CASE Answered
  <2> PICK answer \in Answers : AnsweredBy(answer)
    BY <1>6 DEF Answered
  <2>1. pc = "asking" /\ pc' \in {"finishing", "resolve", "pre", "handoff"}
    BY DEF AnsweredBy, goto
  <2> QED
    BY <2>1
<1> QED
  BY <1>1, <1>2, <1>3, <1>4, <1>5, <1>6 DEF Next, Executor

LEMMA OutcomeIs ==
    /\ pc = "crashed" => Outcome = "crashed"
    /\ pc = "done" => Outcome = result
    /\ pc \notin {"done", "crashed"} => Outcome = "none"
  BY Zenon DEF Outcome

LEMMA InitRefines == Init => Contract!Init
  BY OutcomeIs DEF Init, Contract!Init

LEMMA StepRefines == Inv /\ [Next]_vars => [Contract!Next]_(Contract!rvars)
<1> SUFFICES ASSUME Inv, [Next]_vars PROVE [Contract!Next]_(Contract!rvars)
  OBVIOUS
<1> USE DEF Contract!Next, Contract!Account, Contract!Succeed, Contract!Stop, Contract!rvars
<1>1. OutcomeIs!1' /\ OutcomeIs!2' /\ OutcomeIs!3'
  BY OutcomeIs, PTL
<1>2. CASE UNCHANGED <<pc, result, position>>
  BY <1>2, Zenon DEF Outcome
<1>3. CASE pc \notin {"done", "crashed"} /\ pc' \notin {"done", "crashed"}
  <2>1. Outcome = "none" /\ Outcome' = "none"
    BY <1>1, <1>3, OutcomeIs
  <2>2. position' = position \/ position' \in position + 1 .. N
    <3>1. position' \in 0 .. N /\ position \in 0 .. N
      BY TypeNext DEF Inv, TypeOK
    <3>2. position' = position \/ position' = position + 1
          \/ \E later \in position + 2 .. N : position' = later - 1
      BY <3>1, StepAccounts DEF Skips, current
    <3> QED
      BY <3>1, <3>2, SizeAssumption
  <2> QED
    BY <2>1, <2>2
<1>4. CASE pc \notin {"done", "crashed"} /\ pc' = "crashed" /\ UNCHANGED position
  BY <1>1, <1>4, OutcomeIs
<1>5. CASE pc = "finishing" /\ pc' = "done" /\ UNCHANGED <<result, position>>
  <2>1. Outcome = "none" /\ Outcome' = result
    BY <1>1, <1>5, OutcomeIs
  <2>2. result \in ReplayStatus /\ (result = "SUCCESS" => position = N)
    BY <1>5 DEF Inv, TypeOK, Placed, SuccessIsEarned
  <2> QED
    BY <1>5, <2>1, <2>2
<1> QED
  BY <1>2, <1>3, <1>4, <1>5, StepEnds

\* The executor implements the abstract run, its liveness aside.
THEOREM Refinement == Spec => Contract!Safety
  BY InitRefines, Invariance, StepRefines, PTL DEF Spec, Contract!Safety

==============================================================================
