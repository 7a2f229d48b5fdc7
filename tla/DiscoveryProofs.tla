-------------------------- MODULE DiscoveryProofs --------------------------
(***************************************************************************)
(* What the discovery loop promises for every model, every page and every  *)
(* budget: the gate, the limit on blind repetition, the shape of the       *)
(* recording, and that a sound recording makes a valid artifact.           *)
(***************************************************************************)
EXTENDS Discovery, SequenceTheorems, TLAPS

\* A decision is made and not yet judged, carried out or refused.
Deciding == pc \in {"act", "perform"} \/ (pc = "asking" /\ asking = "approval_required")

\* The policy is asked once for a decision, and only an answer gets past it.
GateInv == GateNeedsApproval /\ (pc = "act" => ~confirm)

\* The loop's own count of equal proposals bounds how often one of them was
\* carried out: every repetition was counted before it was carried out.
CountInv ==
    /\ blind \in Nat /\ repeats \in Nat
    /\ blind < StuckRepeats /\ repeats < StuckRepeats
    /\ pc = "enter" => blind = 0
    /\ pc \in {"top", "known", "decide"} /\ blind > 0 =>
           carriedOut = signature /\ blind <= repeats
    /\ Deciding =>
           /\ repeats > 0 /\ signature = <<observed, Key(decision)>>
           /\ blind > 0 /\ carriedOut = signature => blind < repeats

Recording == \E S : steps \in Seq(S)

\* As long as nothing else touched the page, the loop sees the page as it is,
\* and where the last step left it.
PathInv ==
    /\ Recording
    /\ ~touched =>
           /\ screen = observed
           /\ steps # <<>> => steps[Len(steps)].post \in {NoScreen, observed}
    /\ PathUnlessTouched

\* The number of a step is that of the decision it comes from.
IndexInv ==
    /\ Recording
    /\ stepIndex \in Nat
    /\ pc = "enter" => steps = <<>>
    /\ \A k \in DOMAIN steps :
           /\ steps[k].index \in Nat
           /\ IF Deciding THEN steps[k].index < stepIndex ELSE steps[k].index <= stepIndex
    /\ \A j, k \in DOMAIN steps : steps[j].index = steps[k].index => j = k

-----------------------------------------------------------------------------

\* What record() does to the steps.
LEMMA RecordAppends ==
    ASSUME Recording, NEW index, NEW proposal, NEW before, NEW after, NEW text,
           Record(index, proposal, before, after, text)
    PROVE  /\ Recording'
           /\ Len(steps) \in Nat /\ Len(steps') = Len(steps) + 1
           /\ DOMAIN steps = 1 .. Len(steps) /\ DOMAIN steps' = 1 .. Len(steps) + 1
           /\ \A k \in 1 .. Len(steps) : steps'[k] = steps[k]
           /\ steps'[Len(steps) + 1] = Recorded(index, proposal, before, after, text)
<1> DEFINE step == Recorded(index, proposal, before, after, text)
<1>1. PICK S : steps \in Seq(S)
  BY DEF Recording
<1>2. steps' = Append(steps, step)
  BY DEF Record
<1> HIDE DEF step
<1>3. steps \in Seq(S \cup {step})
  BY <1>1, SeqMonotonic
<1>4. steps' \in Seq(S \cup {step}) /\ steps' # <<>> /\ Len(steps') = Len(steps) + 1
      /\ (\A k \in 1 .. Len(steps) : steps'[k] = steps[k]) /\ steps'[Len(steps) + 1] = step
  BY <1>2, <1>3, AppendProperties
<1>5. Len(steps) \in Nat /\ DOMAIN steps = 1 .. Len(steps) /\ DOMAIN steps' = 1 .. Len(steps')
  BY <1>3, <1>4, LenProperties
<1> QED
  BY <1>4, <1>5 DEF Recording, step

\* Only these three calls record: the entry, an action that worked, and one
\* that a human performed.
Records ==
    /\ observed' = screen' /\ pc' = "top" /\ UNCHANGED <<decision, asking>>
    /\ \/ /\ pc = "enter" /\ stepIndex' = stepIndex + 1
          /\ Record(stepIndex', Going(EntryUrl), observed, observed', FALSE)
       \/ /\ Deciding /\ stepIndex' = stepIndex
          /\ \E text : Record(stepIndex, decision, observed, observed', text)

\* Everything else leaves the recording alone; what it does to the page shows
\* in touched, and a new decision takes a new number.
LeavesRecording ==
    /\ UNCHANGED <<steps, gaps>>
    /\ touched' \/ (~touched /\ UNCHANGED screen /\ observed' \in {observed, screen})
    /\ stepIndex' \in {stepIndex, stepIndex + 1}
    /\ Deciding' => Deciding \/ stepIndex' = stepIndex + 1
    /\ pc' = "enter" => pc = "enter"

\* Every step records or leaves the recording alone.
LEMMA RecordsOrNot == [Next]_vars => Records \/ LeavesRecording
<1> SUFFICES ASSUME [Next]_vars PROVE Records \/ LeavesRecording
  OBVIOUS
<1> USE DEF LeavesRecording, Deciding, Continue, Stop, Ask, goto, recordVars, pageVars, stepVars
<1>1. CASE Enter
  <2>1. CASE pc' = "top"
    BY <1>1, <2>1 DEF Enter, Records, ObserveAny, stuckVars, askVars
  <2>2. CASE pc' # "top"
    BY <1>1, <2>2 DEF Enter
  <2> QED
    BY <2>1, <2>2
<1>2. CASE Top
  BY <1>2 DEF Top
<1>3. CASE HandleKnownStates
  BY <1>3 DEF HandleKnownStates, CheckPause
<1>4. CASE Decide
  <2>1. UNCHANGED <<steps, gaps, touched, screen, observed>> /\ pc = "decide"
    BY <1>4 DEF Decide
  <2>2. stepIndex' = stepIndex + 1 /\ pc' # "enter"
    BY <1>4 DEF Decide, Counted
  <2> QED
    BY <2>1, <2>2
<1>5. CASE Act
  BY <1>5 DEF Act, Reject
<1>6. CASE Perform
  <2>1. UNCHANGED <<stepIndex, decision, asking>> /\ pc = "perform"
    BY <1>6 DEF Perform, askVars
  <2>2. \/ /\ UNCHANGED <<steps, gaps, observed>> /\ pc' \in {"finishing", "top"}
           /\ touched' = (touched \/ screen' # screen)
        \/ /\ observed' = screen' /\ pc' = "top"
           /\ Record(stepIndex, decision, observed, observed', decision.action = "extract")
    BY <1>6 DEF Perform, ObserveAny, Reject
  <2> QED
    BY <2>1, <2>2 DEF Records
<1>7. CASE Answered
  <2>1. UNCHANGED <<stepIndex, decision, asking>> /\ pc = "asking"
    BY <1>7 DEF Answered
  <2>2. \/ /\ UNCHANGED <<steps, gaps, screen, observed, touched>>
           /\ pc' = "finishing" \/ (pc' = "perform" /\ asking = "approval_required")
        \/ UNCHANGED <<steps, gaps>> /\ touched' /\ pc' \in {"top", "decide"}
        \/ /\ observed' = screen' /\ pc' = "top" /\ asking = "approval_required"
           /\ Record(stepIndex, decision, observed, observed', FALSE)
    BY <1>7 DEF Answered, ObserveAny, Proceeds
  <2> QED
    BY <2>1, <2>2 DEF Records
<1>8. CASE Build
  BY <1>8 DEF Build
<1>9. CASE Finish
  BY <1>9 DEF Finish
<1>10. CASE RequestPause
  BY <1>10 DEF RequestPause, askVars
<1>11. CASE Drift
  BY <1>11 DEF Drift, askVars
<1>12. CASE UNCHANGED vars
  BY <1>12 DEF vars, askVars
<1> QED
  BY <1>1, <1>2, <1>3, <1>4, <1>5, <1>6, <1>7, <1>8, <1>9, <1>10, <1>11, <1>12 DEF Next, Loop

-----------------------------------------------------------------------------
(* The gate and the count of repetitions.                                  *)

\* Every step keeps the gate.
LEMMA GateKept == GateInv /\ [Next]_vars => GateInv'
<1> SUFFICES ASSUME GateInv, [Next]_vars PROVE GateInv'
  OBVIOUS
<1> USE DEF GateInv, GateNeedsApproval, askVars, Ask, Continue, Stop, goto
<1>1. CASE Enter
  BY <1>1 DEF Enter
<1>2. CASE Top
  BY <1>2 DEF Top
<1>3. CASE HandleKnownStates
  BY <1>3 DEF HandleKnownStates, CheckPause
<1>4. CASE Decide
  BY <1>4 DEF Decide, IsStuck
<1>5. CASE Act
  BY <1>5 DEF Act, Reject
<1>6. CASE Perform
  BY <1>6 DEF Perform, Reject
<1>7. CASE Answered
  BY <1>7 DEF Answered, Proceeds
<1>8. CASE Build
  BY <1>8 DEF Build
<1>9. CASE Finish
  BY <1>9 DEF Finish
<1>10. CASE RequestPause
  BY <1>10 DEF RequestPause
<1>11. CASE Drift
  BY <1>11 DEF Drift
<1>12. CASE UNCHANGED vars
  BY <1>12 DEF vars
<1> QED
  BY <1>1, <1>2, <1>3, <1>4, <1>5, <1>6,
     <1>7, <1>8, <1>9, <1>10, <1>11, <1>12 DEF Next, Loop

\* Every step keeps the count.
LEMMA CountKept == CountInv /\ [Next]_vars => CountInv'
<1> SUFFICES ASSUME CountInv, [Next]_vars PROVE CountInv'
  OBVIOUS
<1> USE BudgetsAssumption DEF CountInv, Deciding, blindVars, stuckVars, askVars, stepVars, pageVars, Ask, Continue, Stop, goto
<1>1. CASE Enter
  <2>1. pc = "enter" /\ UNCHANGED <<blind, repeats>>
    BY <1>1 DEF Enter
  <2>2. pc' \in {"finishing", "crashed", "top"}
    BY <1>1 DEF Enter
  <2> QED
    BY <2>1, <2>2
<1>2. CASE Top
  BY <1>2 DEF Top
<1>3. CASE HandleKnownStates
  BY <1>3 DEF HandleKnownStates, CheckPause
<1>4. CASE Decide
  BY <1>4 DEF Decide, IsStuck
<1>5. CASE Act
  BY <1>5 DEF Act, Reject
<1>6. CASE Perform
  BY <1>6 DEF Perform, Reject
<1>7. CASE Answered
  <2>1. pc = "asking" /\ UNCHANGED <<asking, decision, carriedOut>>
    BY <1>7 DEF Answered
  <2>2. \/ pc' = "finishing" /\ UNCHANGED <<blind, repeats>>
        \/ /\ pc' = "perform" /\ asking = "approval_required"
           /\ UNCHANGED <<blind, signature, repeats, observed>>
        \/ pc' = "top" /\ blind' = 0 /\ UNCHANGED repeats
        \/ pc' \in {"decide", "top"} /\ repeats' = 0 /\ blind' = 0
    BY <1>7 DEF Answered, Proceeds
  <2> QED
    BY <2>1, <2>2
<1>8. CASE Build
  BY <1>8 DEF Build
<1>9. CASE Finish
  BY <1>9 DEF Finish
<1>10. CASE RequestPause
  BY <1>10 DEF RequestPause
<1>11. CASE Drift
  BY <1>11 DEF Drift
<1>12. CASE UNCHANGED vars
  BY <1>12 DEF vars
<1> QED
  BY <1>1, <1>2, <1>3, <1>4, <1>5, <1>6,
     <1>7, <1>8, <1>9, <1>10, <1>11, <1>12 DEF Next, Loop
-----------------------------------------------------------------------------
(* The recording.                                                          *)

\* The step that Records adds, whichever call it comes from.
OneStepMore ==
    /\ Recording'
    /\ Len(steps) \in Nat /\ Len(steps') = Len(steps) + 1
    /\ DOMAIN steps = 1 .. Len(steps) /\ DOMAIN steps' = 1 .. Len(steps) + 1
    /\ \A k \in 1 .. Len(steps) : steps'[k] = steps[k]
    /\ steps'[Len(steps) + 1].index = stepIndex'
    /\ steps'[Len(steps) + 1].pre \in {NoScreen, observed}
    /\ steps'[Len(steps) + 1].post \in {NoScreen, observed'}
    /\ gaps' = IF touched THEN gaps \cup {Len(steps')} ELSE gaps

\* One call of record() adds one step.
LEMMA RecordAddsOne ==
    ASSUME Recording, NEW proposal, NEW text,
           Record(stepIndex', proposal, observed, observed', text)
    PROVE  OneStepMore
<1> DEFINE step == Recorded(stepIndex', proposal, observed, observed', text)
<1>1. /\ step.index = stepIndex'
      /\ step.pre \in {NoScreen, observed} /\ step.post \in {NoScreen, observed'}
  BY DEF Recorded, PreOf
<1>2. gaps' = IF touched THEN gaps \cup {Len(steps')} ELSE gaps
  BY DEF Record
<1>3. steps'[Len(steps) + 1] = step
  BY RecordAppends
<1> HIDE DEF step
<1> QED
  BY <1>1, <1>2, <1>3, RecordAppends DEF OneStepMore

\* So does each of the three callers.
LEMMA RecordsAddsOne == Recording /\ Records => OneStepMore
<1> SUFFICES ASSUME Recording, Records PROVE OneStepMore
  OBVIOUS
<1>1. CASE Record(stepIndex', Going(EntryUrl), observed, observed', FALSE)
  BY <1>1, RecordAddsOne
<1>2. CASE stepIndex' = stepIndex /\ \E text : Record(stepIndex, decision, observed, observed', text)
  BY <1>2, RecordAddsOne
<1> QED
  BY <1>1, <1>2 DEF Records

\* The recording stays a path.
LEMMA PathKept == PathInv /\ [Next]_vars => PathInv'
<1> SUFFICES ASSUME PathInv, [Next]_vars PROVE PathInv'
  OBVIOUS
<1>1. CASE Records
  <2> DEFINE n == Len(steps) + 1
  <2>1. OneStepMore
    BY <1>1, RecordsAddsOne DEF PathInv
  <2>2. observed' = screen'
    BY <1>1 DEF Records
  <2>4. steps' # <<>> /\ steps'[Len(steps')].post \in {NoScreen, observed'}
    BY <2>1 DEF OneStepMore
  <2>3. ASSUME NEW k \in 2 .. Len(steps'), k \notin gaps', steps'[k].pre # NoScreen,
               steps'[k - 1].post # NoScreen
        PROVE  steps'[k].pre = steps'[k - 1].post
    <3>1. CASE k \in 2 .. Len(steps)
      <4>1. steps'[k] = steps[k] /\ steps'[k - 1] = steps[k - 1] /\ k \notin gaps
        BY <2>1, <2>3, <3>1 DEF OneStepMore
      <4> QED
        BY <2>3, <3>1, <4>1 DEF PathInv, PathUnlessTouched
    <3>2. CASE k = n
      <4>1. ~touched /\ steps # <<>> /\ steps'[k - 1] = steps[Len(steps)]
        BY <2>1, <2>3, <3>2 DEF OneStepMore
      <4>2. steps[Len(steps)].post = observed
        BY <2>3, <4>1 DEF PathInv
      <4> QED
        BY <2>1, <2>3, <3>2, <4>1, <4>2 DEF OneStepMore
    <3> QED
      BY <2>1, <2>3, <3>1, <3>2 DEF OneStepMore
  <2> QED
    BY <2>1, <2>2, <2>3, <2>4 DEF PathInv, PathUnlessTouched, OneStepMore
<1>2. CASE LeavesRecording
  BY <1>2 DEF LeavesRecording, PathInv, PathUnlessTouched, Recording
<1> QED
  BY <1>1, <1>2, RecordsOrNot

\* Numbers are given once.
LEMMA IndexKept == IndexInv /\ [Next]_vars => IndexInv'
<1> SUFFICES ASSUME IndexInv, [Next]_vars PROVE IndexInv'
  OBVIOUS
<1>1. CASE Records
  <2> DEFINE n == Len(steps) + 1
  <2>1. OneStepMore
    BY <1>1, RecordsAddsOne DEF IndexInv
  <2>2. stepIndex' \in Nat /\ ~Deciding' /\ pc' # "enter"
    <3>1. pc' = "top"
      BY <1>1 DEF Records
    <3>2. stepIndex' = stepIndex + 1 \/ stepIndex' = stepIndex
      BY <1>1, Zenon DEF Records
    <3> QED
      BY <3>1, <3>2 DEF IndexInv, Deciding
  <2>3. \A k \in 1 .. Len(steps) : steps[k].index \in Nat /\ steps[k].index < stepIndex'
    <3>1. CASE pc = "enter"
      BY <1>1, <2>1, <3>1 DEF IndexInv, OneStepMore
    <3>2. CASE pc # "enter"
      <4>1. Deciding /\ stepIndex' = stepIndex
        BY <1>1, <3>2, Zenon DEF Records
      <4> QED
        BY <2>1, <4>1 DEF IndexInv, OneStepMore
    <3> QED
      BY <3>1, <3>2
  <2>4. \A k \in DOMAIN steps' : steps'[k].index \in Nat /\ steps'[k].index <= stepIndex'
    BY <2>1, <2>2, <2>3 DEF OneStepMore
  <2>5. \A j, k \in DOMAIN steps' : steps'[j].index = steps'[k].index => j = k
    BY <2>1, <2>2, <2>3 DEF OneStepMore, IndexInv
  <2> QED
    BY <2>1, <2>2, <2>4, <2>5 DEF IndexInv, OneStepMore
<1>2. CASE LeavesRecording
  BY <1>2 DEF LeavesRecording, IndexInv, Recording
<1> QED
  BY <1>1, <1>2, RecordsOrNot

-----------------------------------------------------------------------------
(* The theorems.                                                           *)

DiscoveryInv == GateInv /\ CountInv /\ PathInv /\ IndexInv

\* A discovery starts with nothing decided and nothing recorded.
LEMMA Initially == Init => DiscoveryInv
<1> SUFFICES ASSUME Init PROVE DiscoveryInv
  OBVIOUS
<1>1. Recording /\ DOMAIN steps = {} /\ Len(steps) = 0 /\ pc = "enter" /\ ~Deciding
  BY EmptySeq DEF Init, Recording, Deciding
<1>2. GateInv /\ CountInv
  BY <1>1, BudgetsAssumption DEF Init, GateInv, GateNeedsApproval, CountInv
<1>3. PathInv
  BY <1>1 DEF Init, PathInv, PathUnlessTouched
<1>4. IndexInv
  BY <1>1 DEF Init, IndexInv
<1> QED
  BY <1>2, <1>3, <1>4 DEF DiscoveryInv

\* The invariant holds throughout, whatever the model proposes.
THEOREM Invariance == Spec => []DiscoveryInv
<1>1. DiscoveryInv /\ [Next]_vars => DiscoveryInv'
  BY GateKept, CountKept, PathKept, IndexKept DEF DiscoveryInv
<1> QED
  BY <1>1, Initially, PTL DEF Spec

\* An action the policy wants a human for is carried out only after a human
\* approved this very decision (_act and _escalate).
THEOREM GatesHold == Spec => []GateNeedsApproval
<1>1. DiscoveryInv => GateNeedsApproval
  BY DEF DiscoveryInv, GateInv
<1> QED
  BY <1>1, Invariance, PTL

\* No model makes the loop carry out the same proposal StuckRepeats times in a
\* row on the same observation (_is_stuck).
THEOREM RepetitionIsBounded == Spec => []NoBlindRepetition
<1>1. DiscoveryInv => NoBlindRepetition
  BY DEF DiscoveryInv, CountInv, NoBlindRepetition
<1> QED
  BY <1>1, Invariance, PTL

\* What is recorded is a path through the application, except where something
\* that is not recorded touched the page (Recorder.record).
THEOREM RecordingIsAPath == Spec => []PathUnlessTouched
<1>1. DiscoveryInv => PathUnlessTouched
  BY DEF DiscoveryInv, PathInv
<1> QED
  BY <1>1, Invariance, PTL

\* What the schema asks of a recording follows from the four conditions and from
\* the numbering of the steps.
LEMMA SoundIsValid == IndexInv => SoundRecordingIsValid
<1> SUFFICES ASSUME IndexInv, NamesAccepted, Arguments \subseteq Inputs,
                    Placeholders(steps, observed) \subseteq Arguments,
                    \A k \in DOMAIN steps : steps[k].action = "extract" => steps[k].text
             PROVE  Valid(steps, Echo, observed)
  BY DEF SoundRecordingIsValid
<1>1. Placeholders(steps, observed) \subseteq KeptInputs(steps, Echo)
  BY DEF Arguments, KeptInputs, UsedInputs
<1>2. \A j, k \in DOMAIN steps : steps[j].index = steps[k].index => j = k
  BY DEF IndexInv
<1>3. /\ CapabilityName \in Identifiers
      /\ KeptInputs(steps, Echo) \subseteq Identifiers \ RESERVED_PARAMETERS
      /\ Echoes(steps, Echo) \subseteq Identifiers
  BY DEF NamesAccepted, KeptInputs, Echoes
<1>4. \A o \in Outputs : Reading(steps, o) = Extracting(steps, o)
  BY DEF Reading, Extracting
<1>5. \A o \in Outputs : Extracting(steps, o) # {} => o \in DeclaredOutputs(steps, Echo)
  BY <1>4 DEF DeclaredOutputs
<1>6. {o \in Outputs : Reading(steps, o) # {}} \subseteq Identifiers
  BY OutputsAssumption
<1> QED
  BY <1>1, <1>2, <1>3, <1>4, <1>5, <1>6 DEF Valid, DeclaredOutputs

\* Under names that the schema accepts, a recording whose arguments mention every
\* input that its URLs and expected headings mention, with every extraction done
\* by automation, becomes a valid artifact (build_artifact).
THEOREM SoundRecordingsAreValid == Spec => []SoundRecordingIsValid
<1>1. DiscoveryInv => SoundRecordingIsValid
  BY SoundIsValid DEF DiscoveryInv
<1> QED
  BY <1>1, Invariance, PTL
=============================================================================
