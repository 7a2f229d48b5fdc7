---------------------------- MODULE PolicyEngine ----------------------------
(***************************************************************************)
(* PolicyEngine.evaluate, and the two times a step meets it: when          *)
(* discovery performs and records it, and when replay repeats it, where    *)
(* the recorded risk class is the proposal and the page may be another.    *)
(* The policy file may have been replaced in between.                      *)
(***************************************************************************)
EXTENDS Integers, Sequences, Functions

CONSTANTS
    Policies,   \* policy files, records with the fields of PolicyConfig
    Requests,   \* action requests: [action, url, name, type]
    Urls        \* URLs of pages

SAFE == "safe"
SENSITIVE == "sensitive"
IRREVERSIBLE == "irreversible"
RiskClass == {SAFE, SENSITIVE, IRREVERSIBLE}

ASSUME PoliciesAssumption ==
    \A p \in Policies :
        /\ DOMAIN p = {"allowed_actions", "allowed_urls", "denied_urls", "rules", "sensitive_actions",
                       "irreversible_actions", "secrets_only_into_masked_fields"}
        /\ p.allowed_urls \subseteq Urls /\ p.denied_urls \subseteq Urls
        /\ p.sensitive_actions \in {"allow", "block"}
        /\ p.irreversible_actions \in {"require_confirmation", "block"}
        /\ p.secrets_only_into_masked_fields \in BOOLEAN
        /\ Len(p.rules) \in Nat /\ DOMAIN p.rules = 1 .. Len(p.rules)
        /\ \A i \in DOMAIN p.rules : p.rules[i].risk_class \in RiskClass

RISK_ORDER == [r \in RiskClass |-> CASE r = SAFE -> 0 [] r = SENSITIVE -> 1 [] OTHER -> 2]

\* url_allowed: denied patterns win.
UrlAllowed(policy, url) == url \in policy.allowed_urls \ policy.denied_urls

\* A rule's criteria: the sets it accepts; an absent criterion accepts all.
Matches(rule, request, url) ==
    /\ request.action \in rule.actions /\ request.name \in rule.names
    /\ request.type \in rule.types /\ url \in rule.urls

\* A class that is strictly higher takes the place of the one found so far; the
\* proposal, and each rule that matches, is weighed in this way.
Raised(risk, other) == IF RISK_ORDER[other] > RISK_ORDER[risk] THEN other ELSE risk

\* Faulty: the loop forgets to compare, and the latest rule that matches decides.
Classify_latest(policy, request, url) ==
    LET best[n \in 0 .. Len(policy.rules)] ==
            IF n = 0 THEN SAFE
            ELSE IF Matches(policy.rules[n], request, url) THEN policy.rules[n].risk_class
            ELSE best[n - 1]
    IN  best[Len(policy.rules)]

\* classify: the loop over the rules in the order of the file; best[n] is what
\* it has found after n of them.
Classify(policy, request, url) ==
    LET best[n \in 0 .. Len(policy.rules)] ==
            IF n = 0 THEN SAFE
            ELSE IF Matches(policy.rules[n], request, url)
            THEN Raised(best[n - 1], policy.rules[n].risk_class)
            ELSE best[n - 1]
    IN  best[Len(policy.rules)]

Refused(risk) == [allowed |-> FALSE, risk_class |-> risk, requires_confirmation |-> FALSE]
Allowed(risk, confirm) == [allowed |-> TRUE, risk_class |-> risk, requires_confirmation |-> confirm]

Decision == [allowed : BOOLEAN, risk_class : RiskClass, requires_confirmation : BOOLEAN]

\* evaluate; no proposal is the proposal SAFE.
Evaluate(policy, request, current_url, proposed, secret) ==
    LET checked == IF request.action = "navigate" THEN request.url ELSE current_url
        risk == Raised(Classify(policy, request, current_url), proposed)
    IN  IF request.action \notin policy.allowed_actions \/ ~UrlAllowed(policy, checked)
        THEN Refused(SAFE)
        ELSE IF /\ secret /\ policy.secrets_only_into_masked_fields
                /\ request.action = "type" /\ request.type # "password"
        THEN Refused(SENSITIVE)
        ELSE IF \/ risk = SENSITIVE /\ policy.sensitive_actions = "block"
                \/ risk = IRREVERSIBLE /\ policy.irreversible_actions = "block"
        THEN Refused(risk)
        ELSE Allowed(risk, risk = IRREVERSIBLE)

VARIABLES
    policy,     \* the policy in force
    request,    \* the action
    secret,     \* the value typed is a sensitive input
    url,        \* the page it is to be performed on
    proposed,   \* the risk class of the recorded step
    decision,   \* the latest decision, in discovery or in replay
    confirmed,  \* history: a human had to confirm the action when it was recorded
    phase

policyVars == <<policy, request, secret, url, proposed, decision, confirmed, phase>>

PolicyTypeOK ==
    /\ policy \in Policies /\ request \in Requests /\ url \in Urls
    /\ secret \in BOOLEAN /\ confirmed \in BOOLEAN
    /\ proposed \in RiskClass /\ decision \in Decision
    /\ phase \in {"proposed", "discovered", "recorded", "replayed"}
    /\ decision.requires_confirmation => decision.allowed /\ decision.risk_class = IRREVERSIBLE

PolicyInit ==
    /\ policy \in Policies /\ request \in Requests /\ url \in Urls /\ secret \in BOOLEAN
    /\ proposed = SAFE /\ decision = Refused(SAFE) /\ confirmed = FALSE
    /\ phase = "proposed"

\* AgentLoop._act
Discover ==
    /\ phase = "proposed"
    /\ decision' = Evaluate(policy, request, url, SAFE, secret)
    /\ phase' = "discovered"
    /\ UNCHANGED <<policy, request, secret, url, proposed, confirmed>>

\* Faulty: the step is recorded without its class.
RecordedRisk_lost == SAFE

\* The risk class that the recorded step carries.
RecordedRisk == decision.risk_class

\* Recorder.record: an action that was performed becomes a step. When replay
\* meets it, the page, the inputs, and the policy file may be others, and the
\* target has only the attributes that the recording kept.
Record ==
    /\ phase = "discovered" /\ decision.allowed
    /\ proposed' = RecordedRisk
    /\ confirmed' = decision.requires_confirmation
    /\ policy' \in Policies /\ url' \in Urls
    /\ request' \in {r \in Requests : r.action = request.action}
    /\ phase' = "recorded"
    /\ UNCHANGED <<secret, decision>>

\* ReplayExecutor._run_step
Replay ==
    /\ phase = "recorded"
    /\ decision' = Evaluate(policy, request, url, proposed, secret)
    /\ phase' = "replayed"
    /\ UNCHANGED <<policy, request, secret, url, proposed, confirmed>>

PolicyNext == Discover \/ Record \/ Replay

PolicySpec == PolicyInit /\ [][PolicyNext]_policyVars

-----------------------------------------------------------------------------

\* What a human had to confirm when it was recorded, replay never performs
\* without a human, whatever the page and the policy are by then.
ConfirmationSurvivesRecording ==
    phase = "replayed" /\ confirmed /\ decision.allowed => decision.requires_confirmation

\* The orders in which each policy file could list its rules.
RuleOrders == [p \in Policies |-> Bijection(DOMAIN p.rules, DOMAIN p.rules)]

\* The policy with its rules in another order.
Reordered(order) == [policy EXCEPT !.rules = [i \in DOMAIN policy.rules |-> policy.rules[order[i]]]]

\* A request that several rules match is treated as the strictest of them asks,
\* wherever each of them stands in the policy file: the loop decides alike on
\* every rearrangement of the rules, so none is weakened by one before or after it.
RuleOrderIsIrrelevant ==
    \A order \in RuleOrders[policy] :
        Evaluate(Reordered(order), request, url, proposed, secret)
            = Evaluate(policy, request, url, proposed, secret)

\* policy.py: "Nothing in model output can bypass a decision made here": what is
\* refused without a proposal is refused with one.
ProposalNeverPermits ==
    phase = "replayed" /\ decision.allowed =>
        Evaluate(policy, request, url, SAFE, secret).allowed
=============================================================================
