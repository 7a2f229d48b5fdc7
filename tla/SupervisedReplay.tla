--------------------------- MODULE SupervisedReplay ---------------------------
(***************************************************************************)
(* One replay as run_replay wires it: the step loop of ReplayExecutor and  *)
(* the manager, session and console of Handoff on one event loop, inside   *)
(* the lifetime of the browser and of the console server.                  *)
(*                                                                         *)
(* The two components share the attendance, the pause flag and the kind of *)
(* the request in preparation.  Each action here is an action of the       *)
(* executor, one of the handoff, or both at once; run, the program counter *)
(* the handoff gives to an abstract run, follows the executor's pc.        *)
(***************************************************************************)
EXTENDS Integers, Sequences, FiniteSets

CONSTANTS
    N, Step, Rules, Rule, MaxPauses,                \* of ReplayExecutor
    Kinds, Calls, MaxInterventions, MaxRecords      \* of Handoff

VARIABLES
    \* of both
    attended, pause, asking,
    \* of ReplayExecutor
    pc, position, result, pauses, confirm, attempts, ruleAttempts, approved, retried,
    humanCompleted, recoveries, extracted, verified, finalOk, refused, evaluated,
    granted, acted,
    \* of Handoff
    session, created, kind, status, log, proxied, run, call, records,
    \* of run_replay
    phase,          \* how far run_replay is
    browser,        \* the context and the browser of launch_surface
    current_step    \* the step each intervention was created for, 0 for none

M == INSTANCE Handoff

E == INSTANCE ReplayExecutor

ASSUME KindsAssumption == Kinds = E!InterventionKind
ASSUME BoundsAssumption == MaxInterventions \in Nat /\ MaxRecords \in Nat
ASSUME SizeAssumption == N \in Nat \ {0} /\ MaxPauses \in Nat
ASSUME StepAssumption == Step \in [E!StepIds -> E!StepSpec]
ASSUME RuleAssumption == Rule \in [Rules -> E!RuleSpec]
ASSUME RulesFinite == IsFiniteSet(Rules)

executorVars ==
    <<pc, position, result, pauses, confirm, attempts, ruleAttempts, approved, retried,
      humanCompleted, recoveries, extracted, verified, finalOk, refused, evaluated,
      granted, acted>>
handoffVars == <<session, created, kind, status, log, proxied, run, call, records>>
lifeVars == <<phase, browser>>
vars == <<attended, pause, asking, executorVars, handoffVars, lifeVars, current_step>>

Phase == {"starting", "running", "stopping", "closing", "ended"}

Init ==
    /\ M!Init
    /\ E!Init
    /\ phase = "starting"
    /\ browser = "open"
    /\ current_step = [i \in M!Ids |-> 0]

-----------------------------------------------------------------------------
(* The run: what each step of the executor is for the handoff.             *)

ExecutorWaits == UNCHANGED executorVars

HandoffWaits == UNCHANGED handoffVars

\* The step loop between two actions on the page: a request for help begins, the
\* step is over or starts again, a rule is to be applied, or the run dies.
Follow ==
    CASE pc' = "asking"  -> M!RunAsks
      [] pc' = "top"     -> M!StepDone
      [] pc' = "recovering" /\ run = "stepping" -> M!RunReads
      [] pc' = "crashed" -> M!RunDies
      [] OTHER           -> HandoffWaits

Think ==
    /\ \/ E!CheckPreconditions \/ E!EvaluatePolicy \/ E!Resolve \/ E!CheckPostconditions
       \/ E!AfterHandoff \/ E!FinalCheckpoint \/ E!ReadFails
    /\ Follow

\* Before the first step the run navigates to the entry page, unless the first
\* step is a navigation; nothing else happens to the page before it.
EntryNavigates == pc = "entry" /\ M!RunActs /\ ExecutorWaits

Enter ==
    /\ E!Enter
    /\ CASE pc' = "top" -> M!RunStarts \/ (M!RunActed /\ run' = "boundary")
         [] pc' = "crashed" -> run = "acting" /\ M!RunDies
         [] OTHER -> run = "entering" /\ HandoffWaits

\* The top of the step loop.
Top ==
    /\ E!Top
    /\ IF pc' \in {"asking", "pre"} THEN M!CheckPause ELSE HandoffWaits

\* The action of a step, and the click of a recovery: the ownership of the page is
\* checked when they begin.  Reading an output needs none, and a control without
\* an element is found out before.
ActionBegins ==
    /\ M!RunActs
    /\ \/ pc = "act" /\ ~E!step.extracts /\ run' = "acting"
       \/ pc = "recovering" /\ run' = "recovering"
    /\ ExecutorWaits

Act ==
    /\ E!Act
    /\ \/ run = "stepping" /\ pc' = "crashed" /\ M!RunDies
       \/ run = "acting" /\ pc' # "crashed"
          /\ M!RunActed /\ run' = IF pc' = "top" THEN "boundary" ELSE "judging"
       \/ run = "stepping" /\ pc' # "crashed" /\ E!step.extracts
          /\ CASE pc' = "top" -> M!StepDone
               [] pc' = "post" -> M!RunReads
               [] OTHER -> HandoffWaits

Recover ==
    /\ E!Recover
    /\ IF pc' = "crashed" THEN M!RunDies ELSE M!RunActed

Finish == E!Finish /\ M!RunEnds

-----------------------------------------------------------------------------
(* request(): it is published, waited for, and returns.                    *)

\* With nobody attached it returns at once.
Escalate ==
    /\ M!Escalate
    /\ current_step' = [current_step EXCEPT ![created'] = E!current]
    /\ IF attended THEN ExecutorWaits ELSE E!AnsweredBy("unattended")

TimeOut == M!TimeOut /\ E!AnsweredBy("timed_out")

\* The waiter was set.  Of a request after the action of a step, or without any,
\* the run makes up its mind in _after_handoff.
Wake ==
    /\ M!Wake
    /\ E!AnsweredBy(status[created])
    /\ run' = CASE pc' = "finishing" -> "closing"
                [] pc' = "handoff" /\ asking # "approval_required" -> "judging"
                [] OTHER -> "stepping"

\* The body of the try: executor.replay().
Replay ==
    /\ phase = "running"
    /\ \/ /\ \/ Think \/ EntryNavigates \/ Enter \/ Top \/ ActionBegins \/ Act \/ Recover
             \/ Finish \/ TimeOut \/ Wake
          /\ UNCHANGED current_step
       \/ Escalate
    /\ UNCHANGED lifeVars

-----------------------------------------------------------------------------
(* run_replay around it.                                                   *)

Stays == ExecutorWaits /\ HandoffWaits /\ UNCHANGED <<attended, pause, asking, current_step>>

\* The console is started and the browser recorder installed, before the try: if
\* either fails only the browser is closed.
Start ==
    /\ phase = "starting"
    /\ \/ phase' = "running"
       \/ attended /\ phase' = "closing"
    /\ UNCHANGED browser
    /\ Stays

\* The finally clause: the console is asked to stop once the run is over.
StopConsole ==
    /\ phase = "running"
    /\ run = "over"
    /\ phase' = IF attended THEN "stopping" ELSE "closing"
    /\ UNCHANGED browser
    /\ Stays

\* A faulty stop: it does not wait for the requests in progress.
ConsoleStopped_atOnce ==
    /\ phase = "stopping"
    /\ phase' = "closing"
    /\ UNCHANGED browser
    /\ Stays

\* stop() returns when the server has finished the requests in progress.
ConsoleStopped ==
    /\ phase = "stopping"
    /\ \A c \in Calls : call[c].pc = "idle"
    /\ phase' = "closing"
    /\ UNCHANGED browser
    /\ Stays

\* The end of launch_surface.
CloseBrowser ==
    /\ phase = "closing"
    /\ browser' = "closed"
    /\ phase' = "ended"
    /\ Stays

RunReplay == Start \/ StopConsole \/ ConsoleStopped \/ CloseBrowser

-----------------------------------------------------------------------------
(* The console: its server is up from the start of the run to its stop.    *)

Served == attended /\ phase \in {"running", "stopping"}

Operator ==
    /\ Served
    /\ \/ \E i \in M!Ids : M!take_control(i) \/ M!approve(i) \/ M!release(i) \/ M!abort(i)
       \/ \E c \in Calls, i \in M!Ids : M!ConsoleStart(c, i)
       \/ M!BrowserEvent
    /\ ExecutorWaits
    /\ UNCHANGED <<lifeVars, current_step>>

Pause ==
    /\ Served
    /\ E!RequestPause
    /\ M!request_pause
    /\ UNCHANGED <<lifeVars, current_step>>

\* A console request in progress goes on, whatever becomes of the run.
ConsoleCall(c) ==
    /\ M!ConsoleCall(c)
    /\ ExecutorWaits
    /\ UNCHANGED <<pause, asking, lifeVars, current_step>>

Next ==
    \/ Replay \/ RunReplay \/ Operator \/ Pause
    \/ \E c \in Calls : ConsoleCall(c)

\* The event loop runs what is ready, and every await of the run and of a console
\* request is under a timeout.  Nothing is assumed of the humans.
Fairness ==
    /\ WF_vars(Replay)
    /\ WF_vars(RunReplay)
    /\ \A c \in Calls : WF_vars(ConsoleCall(c))

Spec == Init /\ [][Next]_vars /\ Fairness

-----------------------------------------------------------------------------
(* Properties.                                                             *)

\* Automation takes an action that wants a human only if the manager's records
\* show it: a request for approval of this very step that an operator approved,
\* or answered by giving control back.  The executor decides from its own
\* variables; the records are the manager's.
ApprovalOnRecord ==
    pc = "act" /\ confirm =>
        \E i \in M!Ids : /\ kind[i] = "approval_required"
                         /\ current_step[i] = E!current
                         /\ status[i] \in {"approved", "released"}

\* The result, the session and the interventions agree on how a run ended: the
\* session is aborted exactly if some intervention was refused, the result is
\* ESCALATED then, and otherwise the session was completed; nothing is left open.
OutcomeMatchesSession ==
    pc = "done" =>
        /\ M!Open = {}
        /\ session \in {"ABORTED", "COMPLETED"}
        /\ session = "ABORTED" <=> \E i \in M!Ids : status[i] \in E!Refusals
        /\ session = "ABORTED" => result = "ESCALATED"

\* The browser is closed only when no console request uses the page any more:
\* one that was in the middle of an action when the run ended finishes first.
BrowserOutlivesConsole ==
    browser = "closed" => \A c \in Calls : call[c].pc = "idle"

\* Whatever the page and the humans do, the run ends, its console is stopped and
\* its browser is closed.
TornDown == <>(browser = "closed")

\* The supervised run is a run as Handoff has it, and one as ReplayExecutor has it.
SupervisesHandoff == M!Init /\ [][M!Next]_(M!vars)

SupervisesExecutor == E!Init /\ [][E!Next]_(E!vars)
==============================================================================
