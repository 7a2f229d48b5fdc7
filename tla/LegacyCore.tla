----------------------------- MODULE LegacyCore -----------------------------
(***************************************************************************)
(* The demonstration application: the LegacyCore teller workstation, with  *)
(* its sessions, the opening of sub-accounts and the fault injection.      *)
(*                                                                         *)
(* The tabs of one browser share the session cookie. A person follows the  *)
(* links and submits the forms of the pages that are shown, in the same    *)
(* tab or in another one. The server takes a request in two steps: the     *)
(* middleware, which holds on to the flags it found on arrival and may     *)
(* sleep first, and the handler.                                           *)
(***************************************************************************)
EXTENDS Integers, Sequences, SequencesExt

CONSTANTS
    Tabs,
    Members,         \* the members on file
    Operators,       \* who may sign in
    Supervisors,     \* those with the role that opening an account takes
    None,            \* no member, no request, no session data
    Requests,        \* valid pairs of account type and nickname
    MaxLogins,       \* bounds: sign-ins;
    MaxEvents        \*   submitted sub-account forms, injected faults and resets together

ASSUME SupervisorsAssumption == Supervisors \subseteq Operators
ASSUME BoundsAssumption == MaxLogins \in Nat /\ MaxEvents \in Nat

Unknown == "unknown"      \* a well-formed number that no member has
Malformed == "malformed"  \* not five digits; or a form that the server refuses

VARIABLES
    sessions,       \* AppState.sessions: token -> session
    flags,          \* the InjectionFlags objects made so far, the current one last
    accounts,       \* created_accounts
    confirmationSeq,
    cookie,         \* the browser's session token, or 0
    page,           \* what each tab shows; None: the tab is not open yet
    request,        \* the request of each tab that the server works on, or None
    \* history
    logins, submissions, injections, resets,
    notices         \* notices shown

vars == <<sessions, flags, accounts, confirmationSeq, cookie, page, request,
          logins, submissions, injections, resets, notices>>
bounds == <<logins, submissions, injections, resets>>

NoFaults == [failures |-> 0, interstitial |-> FALSE, expire |-> FALSE, error |-> FALSE]

Page(at, member, shows) == [at |-> at, member |-> member, shows |-> shows]
LoginPage == Page("login", None, None)
Details(m) == Page("details", m, None)

\* A request: its path, the member in it, and what the form carries.
Get(path, m) == [path |-> path, method |-> "GET", member |-> m, carries |-> None]
Post(path, m, carried) == [path |-> path, method |-> "POST", member |-> m, carries |-> carried]

\* The links and forms of a page.
Links(p) ==
    CASE p.at = "login" -> {Post("login", None, o) : o \in Operators \cup {Unknown}}
      [] p.at = "notice" -> {Post("ack", None, p.shows)}
      [] OTHER ->
           {Get("home", None), Get("search", None), Post("logout", None, None)}
           \cup (CASE p.at = "search" ->
                        {Post("search", m, None) : m \in Members \cup {Unknown, Malformed}}
                   [] p.at = "details" -> {Get("new", p.member)}
                   [] p.at = "form" ->
                        {Post("new", p.member, r) : r \in Requests \cup {Malformed}}
                        \cup {Get("details", p.member)}
                   [] p.at = "review" ->
                        {Post("confirm", p.member, p.shows), Get("new", p.member),
                         Get("details", p.member)}
                   [] p.at = "confirmation" -> {Get("details", p.member)}
                   [] OTHER -> {})

\* A request as the server works on it: with the cookie and the flags it came
\* with, and a number of its own for a sign-in or a submitted form.
Numbered(r, token, number) ==
    [path |-> r.path, method |-> r.method, member |-> r.member, carries |-> r.carries,
     token |-> token, number |-> number, flags |-> Len(flags), admitted |-> FALSE]
Sent(r, token) == Numbered(r, token, 0)

SubmitsForm(r) == r.path = "new" /\ r.method = "POST"
SignsIn(r) == r.path = "login" /\ r.method = "POST"

LiveTokens == DOMAIN sessions

\* session_of
HasSession(r) == r.token \in LiveTokens

TypeOK ==
    /\ LiveTokens \subseteq 1 .. MaxLogins
    /\ \A s \in LiveTokens :
          /\ sessions[s].operator \in Operators
          /\ sessions[s].pending = None
             \/ sessions[s].pending \in [id : 1 .. MaxEvents, what : Requests]
          /\ sessions[s].last = None \/ sessions[s].last.confirmation <= confirmationSeq
    /\ Len(flags) = resets + 1
    /\ \A f \in Range(flags) : f \in [failures : 0 .. 1, interstitial : BOOLEAN,
                                      expire : BOOLEAN, error : BOOLEAN]
    /\ Len(accounts) <= submissions /\ confirmationSeq = Len(accounts)
    /\ cookie \in 0 .. MaxLogins
    /\ \A t \in Tabs : request[t] # None => request[t].flags \in 1 .. Len(flags)
    /\ notices \in Nat

Init ==
    /\ sessions = <<>> /\ flags = <<NoFaults>> /\ accounts = <<>> /\ confirmationSeq = 0
    /\ cookie = 0
    /\ \E first \in Tabs : page = [t \in Tabs |-> IF t = first THEN LoginPage ELSE None]
    /\ request = [t \in Tabs |-> None]
    /\ logins = 0 /\ submissions = 0 /\ injections = 0 /\ resets = 0 /\ notices = 0

IsOpen(t) == page[t] # None \/ request[t] # None

\* A person clicks in the page of tab u; the answer opens there or in a new tab t.
Click(t, u) ==
    /\ request[t] = None /\ page[u] # None
    /\ t = u \/ ~IsOpen(t)
    /\ \E r \in Links(page[u]) :
          /\ logins' = IF SignsIn(r) THEN logins + 1 ELSE logins
          /\ submissions' = IF SubmitsForm(r) THEN submissions + 1 ELSE submissions
          /\ logins' <= MaxLogins /\ submissions' + injections + resets <= MaxEvents
          /\ request' = [request EXCEPT ![t] = Numbered(r, cookie,
                            IF SignsIn(r) THEN logins' ELSE IF SubmitsForm(r) THEN submissions'
                            ELSE 0)]
    /\ UNCHANGED <<sessions, flags, accounts, confirmationSeq, cookie, page, injections, resets,
                   notices>>

\* The answer to tab t: a page, or a redirect that the browser follows at once,
\* with the cookie that it has by then.
Show(t, p) ==
    /\ page' = [page EXCEPT ![t] = p]
    /\ request' = [request EXCEPT ![t] = None]
Redirect(t, r, token) ==
    /\ request' = [request EXCEPT ![t] = Sent(r, token)]
    /\ UNCHANGED page

Exempt(r) == r.path \in {"login", "logout", "ack"}

\* Faulty: the notice stays switched on.
Shown_sticky(f) == f

\* A notice is shown once.
Shown(f) == [f EXCEPT !.interstitial = FALSE]

\* runtime_conditions: session expiry and the one-shot notice, both judged by
\* the flags object that was current when the request came.
Admit(t) ==
    LET r == request[t]
        f == flags[r.flags]
        expires == HasSession(r) /\ ~Exempt(r) /\ f.expire
        interrupts == HasSession(r) /\ ~Exempt(r) /\ r.method = "GET" /\ f.interstitial
    IN  /\ r # None /\ ~r.admitted
        /\ \/ /\ expires
              /\ flags' = [flags EXCEPT ![r.flags].expire = FALSE]
              /\ sessions' = [s \in LiveTokens \ {r.token} |-> sessions[s]]
              /\ cookie' = 0
              /\ Redirect(t, Get("login", None), 0)
              /\ UNCHANGED notices
           \/ /\ ~expires /\ interrupts
              /\ flags' = [flags EXCEPT ![r.flags] = Shown(f)]
              /\ Show(t, Page("notice", None, [Get(r.path, r.member) EXCEPT !.carries = r.carries]))
              /\ notices' = notices + 1
              /\ UNCHANGED <<sessions, cookie>>
           \/ /\ ~expires /\ ~interrupts
              /\ request' = [request EXCEPT ![t].admitted = TRUE]
              /\ UNCHANGED <<flags, sessions, cookie, page, notices>>
        /\ UNCHANGED <<accounts, confirmationSeq, bounds>>

Admitted(t, path, method) ==
    /\ request[t] # None
    /\ request[t].admitted /\ request[t].path = path /\ request[t].method = method

unchangedStore == UNCHANGED <<sessions, flags, accounts, confirmationSeq>>

\* What the handlers that need a session answer without one.
SignIn(t) ==
    /\ request[t] # None /\ request[t].admitted
    /\ ~Exempt(request[t]) /\ ~HasSession(request[t])
    /\ Redirect(t, Get("login", None), cookie)
    /\ unchangedStore
    /\ UNCHANGED <<cookie, bounds, notices>>

Login(t) ==
    LET r == request[t]
    IN  /\ \/ /\ \/ Admitted(t, "login", "GET")
                 \/ Admitted(t, "login", "POST") /\ r.carries = Unknown
              /\ Show(t, LoginPage)
              /\ UNCHANGED <<sessions, cookie>>
           \/ /\ Admitted(t, "login", "POST") /\ r.carries # Unknown
              /\ sessions' = [s \in LiveTokens \cup {r.number} |->
                     IF s = r.number THEN [operator |-> r.carries, pending |-> None, last |-> None]
                     ELSE sessions[s]]
              /\ cookie' = r.number
              /\ Redirect(t, Get("home", None), r.number)
        /\ UNCHANGED <<flags, accounts, confirmationSeq, bounds, notices>>

Logout(t) ==
    /\ Admitted(t, "logout", "POST")
    /\ sessions' = [s \in LiveTokens \ {request[t].token} |-> sessions[s]]
    /\ cookie' = 0
    /\ Redirect(t, Get("login", None), 0)
    /\ UNCHANGED <<flags, accounts, confirmationSeq, bounds, notices>>

\* acknowledge_notice
Acknowledge(t) ==
    /\ Admitted(t, "ack", "POST")
    /\ Redirect(t, request[t].carries, cookie)
    /\ unchangedStore
    /\ UNCHANGED <<cookie, bounds, notices>>

\* home, member_search_form, member_details
Browse(t) ==
    LET r == request[t]
    IN  /\ \/ Admitted(t, "home", "GET") /\ Show(t, Page("home", None, None))
           \/ Admitted(t, "search", "GET") /\ Show(t, Page("search", None, None))
           \/ Admitted(t, "details", "GET") /\ Show(t, Details(r.member))
        /\ HasSession(r)
        /\ unchangedStore
        /\ UNCHANGED <<cookie, bounds, notices>>

\* member_search_submit, on the flags as they are now
Search(t) ==
    LET r == request[t]
        now == Len(flags)
        again == Page("search", None, None)
    IN  /\ Admitted(t, "search", "POST") /\ HasSession(r)
        /\ \/ /\ flags[now].error
              /\ Show(t, Page("error", None, None)) /\ UNCHANGED flags
           \/ /\ ~flags[now].error /\ r.member = Malformed
              /\ Show(t, again) /\ UNCHANGED flags
           \/ /\ ~flags[now].error /\ r.member # Malformed /\ flags[now].failures > 0
              /\ Show(t, again)
              /\ flags' = [flags EXCEPT ![now].failures = @ - 1]
           \/ /\ ~flags[now].error /\ r.member # Malformed /\ flags[now].failures = 0
              /\ IF r.member \in Members THEN Redirect(t, Get("details", r.member), cookie)
                 ELSE Show(t, again)
              /\ UNCHANGED flags
        /\ UNCHANGED <<sessions, accounts, confirmationSeq, cookie, bounds, notices>>

\* The role that the form, its submission and the confirmation all ask for.
MayOpen(session) == session.operator \in Supervisors

\* subaccount_form, subaccount_submit
SubaccountForm(t) ==
    LET r == request[t]
        s == sessions[r.token]
        accepted == SubmitsForm(r) /\ r.carries \in Requests
    IN  /\ Admitted(t, "new", "GET") \/ Admitted(t, "new", "POST")
        /\ HasSession(r)
        /\ \/ /\ ~MayOpen(s)
              /\ Show(t, Page("error", None, None)) /\ UNCHANGED sessions
           \/ /\ MayOpen(s) /\ ~accepted
              /\ Show(t, Page("form", r.member, None)) /\ UNCHANGED sessions
           \/ /\ MayOpen(s) /\ accepted
              /\ sessions' = [sessions EXCEPT ![r.token].pending =
                                  [id |-> r.number, what |-> r.carries]]
              /\ Redirect(t, Get("review", r.member), cookie)
        /\ UNCHANGED <<flags, accounts, confirmationSeq, cookie, bounds, notices>>

\* Where review and confirmation send the browser when nothing is pending.
NothingPending == "new"

\* subaccount_review
Review(t) ==
    LET r == request[t]
    IN  /\ Admitted(t, "review", "GET") /\ HasSession(r)
        /\ IF sessions[r.token].pending = None
           THEN Redirect(t, Get(NothingPending, r.member), cookie)
           ELSE Show(t, Page("review", r.member, sessions[r.token].pending))
        /\ unchangedStore
        /\ UNCHANGED <<cookie, bounds, notices>>

\* Faulty: the request stays pending after it was opened.
Opened_stays(s, last) == [s EXCEPT !.last = last]

\* An opened account is no longer pending.
Opened(s, last) == [s EXCEPT !.pending = None, !.last = last]

\* Faulty: the confirmation number is taken after the account is stored.
NextConfirmation_late == confirmationSeq

\* next_confirmation_number
NextConfirmation == confirmationSeq + 1

\* Faulty: what the session opened before is opened again.
ToOpen_stale(s) == IF s.last = None THEN s.pending ELSE s.last.account.request

\* What a confirmation opens.
ToOpen(s) == s.pending

\* subaccount_confirm
Confirm(t) ==
    LET r == request[t]
        s == sessions[r.token]
        account == [no |-> Len(accounts) + 1, member |-> r.member, request |-> ToOpen(s),
                    by |-> s.operator, reviewed |-> r.carries]
    IN  /\ Admitted(t, "confirm", "POST") /\ HasSession(r)
        /\ IF s.pending # None /\ MayOpen(s)
           THEN /\ accounts' = Append(accounts, account)
                /\ confirmationSeq' = NextConfirmation
                /\ sessions' = [sessions EXCEPT ![r.token] =
                       Opened(s, [confirmation |-> confirmationSeq', account |-> account])]
                /\ Redirect(t,
                       [Get("confirmation", r.member) EXCEPT !.carries = confirmationSeq'],
                       cookie)
           ELSE /\ IF s.pending = None
                   THEN Redirect(t, Get(NothingPending, r.member), cookie)
                   ELSE Show(t, Page("error", None, None))
                /\ UNCHANGED <<sessions, accounts, confirmationSeq>>
        /\ UNCHANGED <<flags, cookie, bounds, notices>>

\* subaccount_confirmation
Confirmation(t) ==
    LET r == request[t]
        last == sessions[r.token].last
    IN  /\ Admitted(t, "confirmation", "GET") /\ HasSession(r)
        /\ IF last = None \/ last.confirmation # r.carries
           THEN Show(t, Page("error", None, None))
           ELSE Show(t, Page("confirmation", r.member, last.account))
        /\ unchangedStore
        /\ UNCHANGED <<cookie, bounds, notices>>

Handle(t) ==
    \/ SignIn(t) \/ Login(t) \/ Logout(t) \/ Acknowledge(t) \/ Browse(t) \/ Search(t)
    \/ SubaccountForm(t) \/ Review(t) \/ Confirm(t) \/ Confirmation(t)

\* admin_inject
Inject ==
    /\ submissions + injections + resets < MaxEvents
    /\ injections' = injections + 1
    /\ \E f \in LET now == flags[Len(flags)]
               IN  {[now EXCEPT !.failures = 1], [now EXCEPT !.interstitial = TRUE],
                    [now EXCEPT !.expire = TRUE], [now EXCEPT !.error = TRUE]} :
          flags' = [flags EXCEPT ![Len(flags)] = f]
    /\ UNCHANGED <<sessions, accounts, confirmationSeq, cookie, page, request, logins,
                   submissions, resets, notices>>

\* admin_reset and admin_reset_all: a new object takes the place of the flags.
Reset ==
    /\ submissions + injections + resets < MaxEvents
    /\ resets' = resets + 1
    /\ flags' = Append(flags, NoFaults)
    /\ \/ UNCHANGED <<sessions, accounts, confirmationSeq>>
       \/ sessions' = <<>> /\ accounts' = <<>> /\ confirmationSeq' = 0
    /\ UNCHANGED <<cookie, page, request, logins, submissions, injections, notices>>

Serve(t) == Admit(t) \/ Handle(t)

Next ==
    \/ \E t \in Tabs : Serve(t) \/ \E u \in Tabs : Click(t, u)
    \/ Inject \/ Reset

Spec == Init /\ [][Next]_vars

-----------------------------------------------------------------------------

\* A submitted form opens at most one account, also if it is confirmed twice at
\* the same time or in two tabs.
SubmissionOpensOnce ==
    \A i, j \in DOMAIN accounts : accounts[i].request.id = accounts[j].request.id => i = j

\* The page that confirms an opening shows an account of the member in its URL,
\* never the one that another tab has opened since for another member; a reset
\* alone gives the numbers of confirmations away a second time.
ConfirmationIsOwn ==
    resets = 0 => \A t \in Tabs : page[t] # None /\ page[t].at = "confirmation" =>
        page[t].shows.member = page[t].member

\* An injected notice interrupts one request, however many are under way.
NoticeIsOneShot == notices <= injections

\* main.py: "form -> review -> confirm": what is opened is what the person who
\* confirmed it had reviewed. With two tabs it is not: the request of one takes
\* the place of the other's.
OpensWhatWasReviewed == \A i \in DOMAIN accounts : accounts[i].request = accounts[i].reviewed

\* No second tab was opened.
InOneTab == \A t, u \in Tabs : IsOpen(t) /\ IsOpen(u) => t = u

\* In a single tab, as the automation works, what is opened is what was reviewed:
\* sign-outs, expiries, notices, resets, links and forms of that tab never put one
\* request in the place of another.
OneTabOpensWhatWasReviewed == InOneTab => OpensWhatWasReviewed
=============================================================================
