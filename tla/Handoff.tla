------------------------------- MODULE Handoff -------------------------------
(***************************************************************************)
(* The handoff of one live page between an automation run and the human    *)
(* operators: EscalationManager, SessionController, the two OwnedSurfaces  *)
(* and the browser recorder, as one asyncio event loop interleaves them.   *)
(*                                                                         *)
(* A step of this module is the code between two suspension points (an     *)
(* await that really yields).  Three kinds of coroutines interleave:       *)
(*   - the run (ReplayExecutor or AgentLoop, reduced to what it does to    *)
(*     the manager and to the surface): run is its program counter;        *)
(*   - operator requests that do not suspend: take control, approve,       *)
(*     release, abort, pause;                                              *)
(*   - console actions (perform_human_action), each a coroutine that       *)
(*     suspends while it resolves, acts and settles: call is their state.  *)
(***************************************************************************)
EXTENDS Session, Integers, Sequences, FiniteSets, Functions

CONSTANTS
    Kinds,              \* the intervention kinds that occur
    Calls,              \* console requests that can be in progress at once
    MaxInterventions,   \* bound: interventions one run may create
    MaxRecords          \* bound: console actions and browser events of a run

ASSUME KindsAssumption == {"approval_required", "operator_pause"} \subseteq Kinds
ASSUME BoundsAssumption == MaxInterventions \in Nat /\ MaxRecords \in Nat

VARIABLES
    attended,   \* an operator console is attached; fixed for the run
    session,    \* SessionController._state
    created,    \* len(interventions)
    kind,       \* kind of each intervention
    status,     \* status of each intervention
    log,        \* human_action_log of each intervention
    pause,      \* pause_requested
    proxied,    \* proxied_action_in_progress
    run,        \* where the run is suspended
    asking,     \* the kind of the request the run is preparing
    call,       \* where each console action is, and for which intervention
    records     \* console actions and browser events so far

managerVars == <<created, kind, status, log>>
runVars == <<run, asking>>
consoleVars == <<proxied, call, records, log>>
vars == <<attended, session, created, kind, status, log, pause, proxied, run,
          asking, call, records>>

Ids == 1 .. MaxInterventions

TERMINAL_STATUSES == {"approved", "released", "aborted", "timed_out", "unattended"}

\* "absent" is the status of an intervention that does not exist yet.
InterventionStatus == {"absent", "pending", "human_control"} \cup TERMINAL_STATUSES

HumanActionRecord == [source : {"console", "browser"}, ok : BOOLEAN]

is_open(i) == status[i] \in {"pending", "human_control"}

\* entering: before the steps; boundary: top of the step loop; stepping: before the action of the step;
\* acting, recovering: a mutation is in flight; judging: after the action;
\* reporting: request() gathers evidence; waiting: request() is blocked on
\* its waiter; closing: the request ended the run; over: the run returned.
RunPc == {"entering", "boundary", "stepping", "acting", "judging", "recovering",
          "reporting", "waiting", "closing", "over"}

CallPc == {"idle", "resolving", "acting", "settling"}

Idle == [pc |-> "idle", id |-> 0]

TypeOK ==
    /\ attended \in BOOLEAN
    /\ session \in SessionState
    /\ created \in 0 .. MaxInterventions
    /\ kind \in [Ids -> Kinds]
    /\ status \in [Ids -> InterventionStatus]
    /\ log \in [Ids -> Seq(HumanActionRecord)]
    /\ pause \in BOOLEAN
    /\ proxied \in BOOLEAN
    /\ run \in RunPc
    /\ asking \in Kinds
    /\ call \in [Calls -> [pc : CallPc, id : Ids \cup {0}]]
    /\ records \in 0 .. MaxRecords

Init ==
    /\ attended \in BOOLEAN
    /\ session = "AUTOMATION"
    /\ created = 0
    /\ kind = [i \in Ids |-> "operator_pause"]
    /\ status = [i \in Ids |-> "absent"]
    /\ log = [i \in Ids |-> <<>>]
    /\ pause = FALSE
    /\ proxied = FALSE
    /\ run = "entering"
    /\ asking = "operator_pause"
    /\ call = [c \in Calls |-> Idle]
    /\ records = 0

-----------------------------------------------------------------------------
(* The session, and the end of an intervention.                            *)

transition(target) ==
    /\ MayGo(session, target)
    /\ session' = target

_finish(i, outcome) == status' = [status EXCEPT ![i] = outcome]

-----------------------------------------------------------------------------
(* The run.                                                                *)

goto(pc) == run' = pc

\* request(): the evidence of the request is gathered first, and that suspends.
BeginRequest(k) ==
    /\ created < MaxInterventions
    /\ asking' = k
    /\ goto("reporting")

\* A faulty step loop: it does not look at the pause.
CheckPause_blind ==
    /\ run = "boundary"
    /\ goto("stepping")
    /\ UNCHANGED <<attended, session, managerVars, pause, proxied, asking, call, records>>

\* The run starts on the page as it is; else it navigates there, by RunActs.
RunStarts ==
    /\ run = "entering"
    /\ goto("boundary")
    /\ UNCHANGED <<attended, session, managerVars, pause, proxied, asking, call, records>>

\* Top of the step loop: a pause the operator asked for becomes a request.
CheckPause ==
    /\ run = "boundary"
    /\ IF pause
       THEN BeginRequest("operator_pause") /\ pause' = FALSE
       ELSE goto("stepping") /\ UNCHANGED <<attended, asking, pause>>
    /\ UNCHANGED <<attended, session, managerVars, proxied, call, records>>

\* A mutation through the automation's OwnedSurface: the guard, then the
\* action itself, which suspends.  Before the first step it is the navigation
\* to the entry page.
RunActs ==
    /\ \/ run \in {"entering", "stepping"} /\ goto("acting")
       \/ run \in {"stepping", "judging"} /\ goto("recovering")
    /\ Authorized(session, "automation")
    /\ UNCHANGED <<attended, session, managerVars, pause, proxied, asking, call, records>>

\* The action is over; one that failed may be tried again from the top.
RunActed ==
    /\ \/ run = "acting" /\ run' \in {"judging", "boundary"}
       \/ run = "recovering" /\ goto("boundary")
    /\ UNCHANGED <<attended, session, managerVars, pause, proxied, asking, call, records>>

\* Reading the page needs no ownership.
RunReads ==
    /\ run = "stepping"
    /\ goto("judging")
    /\ UNCHANGED <<attended, session, managerVars, pause, proxied, asking, call, records>>

\* The run needs a human: approval before the action, help before or after it.
RunAsks ==
    /\ run \in {"stepping", "judging"}
    /\ \E k \in Kinds \ {"operator_pause"} :
           (k = "approval_required" => run = "stepping") /\ BeginRequest(k)
    /\ UNCHANGED <<attended, session, managerVars, pause, proxied, call, records>>

\* The step is done, or is to be tried again.
StepDone ==
    /\ run \in {"stepping", "judging"}
    /\ goto("boundary")
    /\ UNCHANGED <<attended, session, managerVars, pause, proxied, asking, call, records>>

\* The run ends with a result: session.complete().
RunEnds ==
    /\ run \in {"entering", "boundary", "stepping", "judging", "closing"}
    /\ MayComplete(session)
    /\ session' = Completed(session)
    /\ goto("over")
    /\ UNCHANGED <<attended, managerVars, pause, proxied, asking, call, records>>

\* An exception the run does not catch: it ends, the session is left as it is.
RunDies ==
    /\ run \in RunPc \ {"waiting", "over"}
    /\ goto("over")
    /\ UNCHANGED <<attended, session, managerVars, pause, proxied, asking, call, records>>

\* request(), second half: the intervention is published and the session
\* escalated in one piece; with nobody attached it is closed at once.
Escalate ==
    /\ run = "reporting"
    /\ MayGo(session, "ESCALATED")
    /\ created' = created + 1
    /\ kind' = [kind EXCEPT ![created + 1] = asking]
    /\ IF attended
       THEN /\ status' = [status EXCEPT ![created + 1] = "pending"]
            /\ session' = "ESCALATED"
            /\ goto("waiting")
       ELSE /\ MayGo("ESCALATED", "ABORTED")
            /\ _finish(created + 1, "unattended")
            /\ session' = "ABORTED"
            /\ goto("closing")
    /\ UNCHANGED <<attended, log, pause, proxied, asking, call, records>>

\* A faulty timeout: the session is not aborted.
TimeOut_keepsSession ==
    /\ run = "waiting"
    /\ is_open(created)
    /\ _finish(created, "timed_out")
    /\ goto("closing")
    /\ UNCHANGED <<attended, session, created, kind, log, pause, proxied, asking,
                    call, records>>

\* A faulty timeout: the run carries on and leaves the intervention open.
TimeOut_carriesOn ==
    /\ run = "waiting"
    /\ is_open(created)
    /\ session' = "AUTOMATION"
    /\ goto("boundary")
    /\ UNCHANGED <<attended, managerVars, pause, proxied, asking, call, records>>

\* A faulty timeout: it spares a human who has taken control.
TimeOut_pendingOnly ==
    /\ run = "waiting"
    /\ status[created] = "pending"
    /\ transition("ABORTED")
    /\ _finish(created, "timed_out")
    /\ goto("closing")
    /\ UNCHANGED <<attended, created, kind, log, pause, proxied, asking, call, records>>

\* request(), the waiter: the timeout fires while the intervention is open.
TimeOut ==
    /\ run = "waiting"
    /\ is_open(created)
    /\ transition("ABORTED")
    /\ _finish(created, "timed_out")
    /\ goto("closing")
    /\ UNCHANGED <<attended, created, kind, log, pause, proxied, asking, call, records>>

\* request(), the waiter was set: it returns, and a release resumes the session.
\* Of a release or an approval the run makes what it will: the step is done,
\* or is tried again, or the run goes on to act.
Wake ==
    /\ run = "waiting"
    /\ ~is_open(created)
    /\ IF status[created] = "released"
       THEN transition("AUTOMATION")
       ELSE UNCHANGED session
    /\ IF status[created] \in {"released", "approved"}
       THEN run' \in {"boundary", "stepping", "judging"}
       ELSE goto("closing")
    /\ UNCHANGED <<attended, managerVars, pause, proxied, asking, call, records>>

-----------------------------------------------------------------------------
(* The operator: requests that do not suspend.  Each checks the status of   *)
(* the intervention it is for, and raises OperatorError if it does not fit. *)

CanTake(i) == status[i] = "pending"

\* A faulty check: whatever is open can be approved.
CanApprove_open(i) == is_open(i) /\ kind[i] = "approval_required"

CanApprove(i) == status[i] = "pending" /\ kind[i] = "approval_required"

CanRelease(i) == status[i] = "human_control"

\* A faulty check: whatever exists can be aborted.
CanAbort_any(i) == status[i] # "absent"

CanAbort(i) == is_open(i)

take_control(i) ==
    /\ CanTake(i)
    /\ transition("HUMAN_CONTROL")
    /\ status' = [status EXCEPT ![i] = "human_control"]
    /\ UNCHANGED <<attended, created, kind, log, pause, proxied, runVars, call, records>>

approve(i) ==
    /\ CanApprove(i)
    /\ transition("AUTOMATION")
    /\ _finish(i, "approved")
    /\ UNCHANGED <<attended, created, kind, log, pause, proxied, runVars, call, records>>

release(i) ==
    /\ CanRelease(i)
    /\ transition("RESUMING")
    /\ _finish(i, "released")
    /\ UNCHANGED <<attended, created, kind, log, pause, proxied, runVars, call, records>>

abort(i) ==
    /\ CanAbort(i)
    /\ transition("ABORTED")
    /\ _finish(i, "aborted")
    /\ UNCHANGED <<attended, created, kind, log, pause, proxied, runVars, call, records>>

request_pause ==
    /\ pause' = TRUE
    /\ UNCHANGED <<attended, session, managerVars, proxied, runVars, call, records>>

-----------------------------------------------------------------------------
(* A console action: perform_human_action.                                 *)

\* The status check and the flag; an action on a control goes on to resolve
\* it, one without a target (press, navigate) goes straight to the guard.
ConsoleStart(c, i) ==
    /\ call[c].pc = "idle"
    /\ status[i] = "human_control"
    /\ records < MaxRecords
    /\ records' = records + 1
    /\ proxied' = TRUE
    /\ \/ call' = [call EXCEPT ![c] = [pc |-> "resolving", id |-> i]]
       \/ /\ Authorized(session, "human")
          /\ call' = [call EXCEPT ![c] = [pc |-> "acting", id |-> i]]
    /\ UNCHANGED <<attended, session, managerVars, pause, runVars>>

\* A faulty end: the record goes to the latest intervention.
ConsoleEnds_latest(c, ok) ==
    /\ proxied' = FALSE
    /\ log' = [log EXCEPT ![created] = Append(@, [source |-> "console", ok |-> ok])]
    /\ call' = [call EXCEPT ![c] = Idle]

\* The finally clause, and the record appended to the log of the intervention
\* the action was started for.
ConsoleEnds(c, ok) ==
    /\ proxied' = FALSE
    /\ log' = [log EXCEPT ![call[c].id] =
                   Append(@, [source |-> "console", ok |-> ok])]
    /\ call' = [call EXCEPT ![c] = Idle]

\* A faulty console: it acts on the surface itself, not through the guard.
ConsoleProceeds_unguarded(c) ==
    /\ call[c].pc = "resolving"
    /\ call' = [call EXCEPT ![c].pc = "acting"]
    /\ UNCHANGED <<attended, session, managerVars, pause, proxied, runVars, records>>

\* The control is resolved: reading it needs no ownership, acting on it does.
ConsoleProceeds(c) ==
    /\ call[c].pc = "resolving"
    /\ \/ call' = [call EXCEPT ![c].pc = "settling"]
       \/ /\ Authorized(session, "human")
          /\ call' = [call EXCEPT ![c].pc = "acting"]
    /\ UNCHANGED <<attended, session, managerVars, pause, proxied, runVars, records>>

\* The control is not resolved, or the guard of the human's surface refuses.
ConsoleRefused(c) ==
    /\ call[c].pc = "resolving"
    /\ ConsoleEnds(c, FALSE)
    /\ UNCHANGED <<attended, session, created, kind, status, pause, runVars, records>>

ConsoleActed(c) ==
    /\ call[c].pc = "acting"
    /\ \/ /\ call' = [call EXCEPT ![c].pc = "settling"]
          /\ UNCHANGED <<attended, log, proxied>>
       \/ ConsoleEnds(c, FALSE)
    /\ UNCHANGED <<attended, session, created, kind, status, pause, runVars, records>>

\* The page settles, or reading it fails with an error that perform_human_action
\* does not catch: then only the finally clause is executed.
ConsoleSettled(c) ==
    /\ call[c].pc = "settling"
    /\ \/ ConsoleEnds(c, TRUE)
       \/ /\ proxied' = FALSE
          /\ call' = [call EXCEPT ![c] = Idle]
          /\ UNCHANGED log
    /\ UNCHANGED <<attended, session, created, kind, status, pause, runVars, records>>

-----------------------------------------------------------------------------
(* The human acts in the browser window itself (HEADLESS=false) and the     *)
(* recorder reports it; an event it drops changes nothing.                  *)

BrowserEvent ==
    /\ records < MaxRecords
    /\ session = "HUMAN_CONTROL"
    /\ ~proxied
    /\ \E i \in Ids :
           /\ status[i] = "human_control"
           /\ log' = [log EXCEPT ![i] = Append(@, [source |-> "browser", ok |-> TRUE])]
    /\ records' = records + 1
    /\ UNCHANGED <<attended, session, created, kind, status, pause, proxied, runVars, call>>

-----------------------------------------------------------------------------

RunNext ==
    \/ RunStarts \/ CheckPause \/ RunActs \/ RunActed \/ RunReads \/ RunAsks \/ StepDone
    \/ RunEnds \/ RunDies \/ Escalate \/ TimeOut \/ Wake

OperatorNext ==
    \/ \E i \in Ids : take_control(i) \/ approve(i) \/ release(i) \/ abort(i)
    \/ request_pause

ConsoleCall(c) ==
    \/ ConsoleProceeds(c) \/ ConsoleRefused(c) \/ ConsoleActed(c) \/ ConsoleSettled(c)

ConsoleNext ==
    \/ \E c \in Calls : ConsoleCall(c) \/ \E i \in Ids : ConsoleStart(c, i)
    \/ BrowserEvent

Next == RunNext \/ OperatorNext \/ ConsoleNext

\* The event loop runs every coroutine that is ready, and every await of the
\* run is under a timeout: a request ends by TimeOut at the latest.  Nothing is
\* assumed of the humans: they may never answer, act or ask for a pause.
Fairness == WF_vars(RunNext)

Spec == Init /\ [][Next]_vars /\ Fairness

-----------------------------------------------------------------------------
(* Safety.                                                                 *)

Open == {i \in Ids : is_open(i)}

\* The manager and the session tell the same story: an intervention is pending
\* exactly while the session is ESCALATED, under human control exactly while
\* the session is, and RESUMING only between a release and the run's wake-up.
\* The code updates the two in different statements of different classes.
StatusMatchesSession ==
    /\ session = "ESCALATED" <=> \E i \in Ids : status[i] = "pending"
    /\ session = "HUMAN_CONTROL" <=> \E i \in Ids : status[i] = "human_control"
    /\ session = "RESUMING" => run = "waiting" /\ status[created] = "released"

\* record_browser_action and the operators take the open intervention for
\* granted: there is never a second one.
AtMostOneOpen == \A i, j \in Open : i = j

\* Whenever the run is not blocked in request(), nothing is open and the
\* session lets it act: no guard of its surface ever refuses it.
AutomationActsUnasked ==
    run \notin {"waiting", "closing", "over"} =>
        Open = {} /\ Authorized(session, "automation")

\* IllegalTransitionError is never raised: the check each operation makes on
\* the intervention (or on nothing at all, in request()) already implies that
\* the session accepts the transition it then asks for.
NoIllegalTransition ==
    /\ run = "reporting" => MayGo(session, "ESCALATED")
    /\ run = "waiting" =>
           /\ is_open(created) => MayGo(session, "ABORTED")
           /\ status[created] = "released" => MayGo(session, "AUTOMATION")
    /\ run \in {"entering", "boundary", "stepping", "judging", "closing"} => MayComplete(session)
    /\ \A i \in Ids :
           /\ CanTake(i) => MayGo(session, "HUMAN_CONTROL")
           /\ CanApprove(i) => MayGo(session, "AUTOMATION")
           /\ CanRelease(i) => MayGo(session, "RESUMING")
           /\ CanAbort(i) => MayGo(session, "ABORTED")

\* The human_action_log of an intervention has entries only if a human had
\* control in it at some time, though not necessarily when the entry is made: one
\* that was approved, or never answered by anybody, has none, however late the
\* console actions of its neighbours finish.
LogImpliesControl ==
    \A i \in Ids : log[i] # <<>> =>
        status[i] \in {"human_control", "released", "aborted", "timed_out"}

\* An intervention that was resolved stays as it was resolved, whatever the
\* order of a timeout, an operator's answer and the run's wake-up.
ResolvedForGood ==
    [][\A i \in Ids : status[i] \in TERMINAL_STATUSES => status'[i] = status[i]]_vars

\* A human's action on the page never begins while one of the automation's is
\* still in flight: the run is blocked in request() by then.
HumanNeverStartsOverAutomation ==
    [][\A c \in Calls :
          call[c].pc # "acting" /\ call'[c].pc = "acting" =>
              run \notin {"acting", "recovering"}]_vars

HumanActing(c) == call[c].pc = "acting"

\* A human's action and one of the automation's are in flight at once only if the
\* human gave control back in between: never when the intervention the action
\* was started for was aborted, or timed out, in the middle of it.
OverlapOnlyAfterRelease ==
    run \in {"acting", "recovering"} =>
        \A c \in Calls : HumanActing(c) => status[call[c].id] = "released"

-----------------------------------------------------------------------------
(* Liveness and refinement.                                                *)

\* Every intervention is resolved, by an operator or by the timeout.
InterventionsResolved == \A i \in Ids : is_open(i) ~> ~is_open(i)

\* A pause the operator asks for is turned into a hand-over, or the run ends.
PauseHonoured == pause ~> (~pause \/ run = "over")

\* The manager, the session and the surfaces implement the token of control.
Abstract == INSTANCE ControlHandoff WITH
                holder <- Owner[session],
                asking <- Open # {},
                over <- IsOver(session)

\* Every behaviour of the handoff is a behaviour of ControlHandoff, the closing
\* of every request for help included.
ImplementsControlHandoff == Abstract!Spec

-----------------------------------------------------------------------------
(* What the source says of itself, for the runs that refute it.            *)

\* session.py: "Exactly one actor may act on the live surface at a time".
OneActorAtATime ==
    run \in {"acting", "recovering"} => \A c \in Calls : ~HumanActing(c)

\* REPORT.md: "Console actions are ... recorded exactly": whatever was begun is
\* in a log or still in progress.
EveryActionRecorded ==
    records = FoldFunction(LAMBDA l, n : Len(l) + n, 0, log)
              + Cardinality({c \in Calls : call[c].pc # "idle"})

\* The docstring of proxied_action_in_progress: "True while a console action
\* runs, so the browser recorder does not double-record."
ProxiedWhileConsoleActs == (\E c \in Calls : call[c].pc # "idle") => proxied

\* The lifecycle in manager.py: "PENDING --timeout--> TIMED_OUT", and no other
\* arrow into TIMED_OUT.
OnlyPendingTimesOut ==
    [][\A i \in Ids : status'[i] = "timed_out" => status[i] \in {"pending", "timed_out"}]_vars
==============================================================================
