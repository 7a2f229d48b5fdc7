---------------------------- MODULE LegacyProofs ----------------------------
(***************************************************************************)
(* Proofs about LegacyCore, for any tabs, members and operators and any    *)
(* number of sign-ins, forms, faults and resets: a submitted form opens at *)
(* most one account, a confirmation shows its own account, a notice is     *)
(* shown once, and in a single tab what is opened is what was reviewed.    *)
(***************************************************************************)
EXTENDS LegacyCore, SequenceTheorems, FiniteSetTheorems, TLAPS

-----------------------------------------------------------------------------
(* The shapes of the records, where the code has dataclasses and forms.    *)

IsGet(r) ==
    r = [path |-> r.path, method |-> "GET", member |-> r.member, carries |-> r.carries]

IsRequest(r) ==
    r = [path |-> r.path, method |-> r.method, member |-> r.member, carries |-> r.carries,
         token |-> r.token, number |-> r.number, flags |-> r.flags, admitted |-> r.admitted]

IsSession(s) == s = [operator |-> s.operator, pending |-> s.pending, last |-> s.last]

\* A notice holds back a page that was asked for, never a form.
Browsing ==
    /\ DOMAIN request = Tabs /\ DOMAIN page = Tabs
    /\ \A t \in Tabs : request[t] # None =>
          /\ IsRequest(request[t])
          /\ request[t].path = "ack" => IsGet(request[t].carries) /\ request[t].carries.path # "ack"
    /\ \A t \in Tabs : page[t] # None /\ page[t].at = "notice" =>
          IsGet(page[t].shows) /\ page[t].shows.path # "ack"

Stored ==
    /\ \A s \in LiveTokens : IsSession(sessions[s])
    /\ \E S : accounts \in Seq(S)

Counted == logins \in Nat /\ submissions \in Nat /\ injections \in Nat /\ resets \in Nat

Shapes == Browsing /\ Stored /\ Counted

Submitting(t) == request[t] # None /\ SubmitsForm(request[t])

IsPending(s) == sessions[s].pending # None

\* A number of a form is in one place: with the request that submits it, pending
\* in one session, or with the account that it opened.
WithRequests ==
    /\ \A t \in Tabs : Submitting(t) => request[t].number \in 1 .. submissions
    /\ \A t, u \in Tabs :
          Submitting(t) /\ Submitting(u) /\ request[t].number = request[u].number => t = u

WithSessions ==
    /\ \A s \in LiveTokens : IsPending(s) =>
          /\ sessions[s].pending.id \in 1 .. submissions
          /\ \A t \in Tabs : Submitting(t) => request[t].number # sessions[s].pending.id
    /\ \A s, v \in LiveTokens :
          IsPending(s) /\ IsPending(v) /\ sessions[s].pending.id = sessions[v].pending.id => s = v

WithAccounts ==
    \A i \in DOMAIN accounts :
       /\ accounts[i].request.id \in 1 .. submissions
       /\ \A t \in Tabs : Submitting(t) => request[t].number # accounts[i].request.id
       /\ \A s \in LiveTokens : IsPending(s) => sessions[s].pending.id # accounts[i].request.id

InOnePlace == WithRequests /\ WithSessions /\ WithAccounts

Inv == Shapes /\ InOnePlace /\ SubmissionOpensOnce

-----------------------------------------------------------------------------
(* What an answer is.                                                      *)

LEMMA SentShape ==
    ASSUME NEW r, NEW token
    PROVE  /\ IsRequest(Sent(r, token))
           /\ Sent(r, token).path = r.path /\ Sent(r, token).method = r.method
           /\ Sent(r, token).member = r.member /\ Sent(r, token).carries = r.carries
           /\ Sent(r, token).token = token /\ Sent(r, token).flags = Len(flags)
BY DEF IsRequest, Sent, Numbered

LEMMA GetShape ==
    ASSUME NEW path, NEW m
    PROVE  /\ IsGet(Get(path, m)) /\ Get(path, m).path = path /\ Get(path, m).method = "GET"
           /\ Get(path, m).member = m /\ Get(path, m).carries = None
           /\ \A c : LET g == [Get(path, m) EXCEPT !.carries = c]
                     IN  /\ IsGet(g) /\ g.path = path /\ g.method = "GET"
                         /\ g.member = m /\ g.carries = c
BY DEF IsGet, Get

-----------------------------------------------------------------------------
(* Most steps move no form.                                                *)

\* No request that submits a form is new.
NoNewForm ==
    \A t \in Tabs : Submitting(t)' => Submitting(t) /\ request'[t].number = request[t].number

\* A redirect asks for a page: where it goes no form is submitted.
LEMMA AfterRedirect ==
    ASSUME Inv, NEW t \in Tabs, NEW r, NEW token, r.method = "GET", r.path # "ack",
           Redirect(t, r, token)
    PROVE  /\ Browsing' /\ NoNewForm /\ ~Submitting(t)'
           /\ \A u \in Tabs : u # t => request'[u] = request[u]
<1>1. /\ DOMAIN request' = Tabs /\ page' = page /\ request'[t] = Sent(r, token)
      /\ \A u \in Tabs : u # t => request'[u] = request[u]
  BY DEF Inv, Shapes, Browsing, Redirect
<1>2. IsRequest(request'[t]) /\ request'[t].path # "ack" /\ ~SubmitsForm(request'[t])
  BY <1>1, SentShape DEF SubmitsForm
<1>3. Browsing'
  BY <1>1, <1>2 DEF Inv, Shapes, Browsing
<1>4. NoNewForm /\ ~Submitting(t)'
  BY <1>1, <1>2 DEF NoNewForm, Submitting
<1> QED
  BY <1>1, <1>3, <1>4

LEMMA AfterShow ==
    ASSUME Inv, NEW t \in Tabs, NEW p, Show(t, p),
           p.at = "notice" => IsGet(p.shows) /\ p.shows.path # "ack"
    PROVE  /\ Browsing' /\ NoNewForm /\ ~Submitting(t)'
           /\ \A u \in Tabs : u # t => request'[u] = request[u]
<1>1. /\ DOMAIN request' = Tabs /\ DOMAIN page' = Tabs
      /\ request'[t] = None /\ page'[t] = p
      /\ \A u \in Tabs : u # t => request'[u] = request[u] /\ page'[u] = page[u]
  BY DEF Inv, Shapes, Browsing, Show
<1>2. Browsing'
  BY <1>1 DEF Inv, Shapes, Browsing
<1>3. NoNewForm /\ ~Submitting(t)'
  BY <1>1 DEF NoNewForm, Submitting
<1> QED
  BY <1>1, <1>2, <1>3

\* The pages that are no notices.
LEMMA PlainPage ==
    ASSUME NEW at, NEW m, NEW x, at # "notice"
    PROVE  Page(at, m, x).at # "notice"
BY DEF Page

\* What is pending was pending already; accounts are kept or all forgotten.
Calm ==
    /\ NoNewForm
    /\ submissions' = submissions
    /\ accounts' = accounts \/ accounts' = <<>>
    /\ \A s \in DOMAIN sessions' : sessions'[s].pending # None =>
          /\ s \in LiveTokens /\ IsPending(s)
          /\ sessions'[s].pending = sessions[s].pending

LEMMA CalmKeeps ==
    ASSUME Inv, Calm
    PROVE  InOnePlace' /\ SubmissionOpensOnce'
<1>1. \A i \in DOMAIN accounts' : i \in DOMAIN accounts /\ accounts'[i] = accounts[i]
  BY DEF Calm
<1>2. SubmissionOpensOnce'
  BY <1>1 DEF Inv, SubmissionOpensOnce
<1>3. InOnePlace'
  BY <1>1 DEF Inv, InOnePlace, WithRequests, WithSessions, WithAccounts, Calm, NoNewForm,
              IsPending, LiveTokens
<1> QED
  BY <1>2, <1>3

\* A step that leaves the sessions and the accounts alone.
LEMMA LeftAlone ==
    ASSUME Inv, UNCHANGED <<sessions, accounts, bounds>>, Browsing', NoNewForm
    PROVE  Inv'
<1>1. Stored' /\ Counted'
  BY DEF Inv, Shapes, Stored, Counted, LiveTokens, bounds
<1>2. Calm
  BY DEF Calm, bounds, LiveTokens, IsPending
<1> QED
  BY <1>1, <1>2, CalmKeeps DEF Inv, Shapes

\* A step after which fewer sessions are left, or one more with nothing pending.
LEMMA SessionsChange ==
    ASSUME Inv, UNCHANGED <<accounts, bounds>>, Browsing', NoNewForm,
           \A s \in LiveTokens' :
              \/ s \in LiveTokens /\ sessions'[s] = sessions[s]
              \/ IsSession(sessions'[s]) /\ sessions'[s].pending = None
    PROVE  Inv'
<1>1. Stored' /\ Counted'
  BY DEF Inv, Shapes, Stored, Counted, LiveTokens, bounds
<1>2. Calm
  BY DEF Calm, bounds, LiveTokens, IsPending
<1> QED
  BY <1>1, <1>2, CalmKeeps DEF Inv, Shapes

LEMMA AdmitKeeps ==
    ASSUME Inv, NEW t \in Tabs, Admit(t)
    PROVE  Inv'
<1> DEFINE r == request[t]
           f == flags[r.flags]
<1>0. r # None /\ UNCHANGED <<accounts, bounds>>
  BY DEF Admit
<1>1. CASE /\ sessions' = [s \in LiveTokens \ {r.token} |-> sessions[s]]
           /\ Redirect(t, Get("login", None), 0)
  <2>1. Browsing' /\ NoNewForm
    BY <1>1, AfterRedirect, GetShape
  <2> QED
    BY <1>0, <1>1, <2>1, SessionsChange DEF LiveTokens
<1>2. CASE /\ Show(t, Page("notice", None, [Get(r.path, r.member) EXCEPT !.carries = r.carries]))
           /\ ~Exempt(r) /\ UNCHANGED sessions
  <2> DEFINE g == [Get(r.path, r.member) EXCEPT !.carries = r.carries]
             p == Page("notice", None, g)
  <2>a. IsGet(g) /\ g.path = r.path
    BY GetShape
  <2>b. p.shows = g
    BY DEF Page
  <2>1. IsGet(p.shows) /\ p.shows.path # "ack"
    <3> HIDE DEF g, p
    <3> QED BY <1>2, <2>a, <2>b DEF Exempt
  <2>2. Show(t, p)
    BY <1>2
  <2> HIDE DEF p
  <2>3. Browsing' /\ NoNewForm
    BY <2>1, <2>2, AfterShow
  <2> QED
    BY <1>0, <1>2, <2>3, LeftAlone
<1>3. CASE request' = [request EXCEPT ![t].admitted = TRUE] /\ UNCHANGED <<sessions, page>>
  <2>1. IsRequest(r) /\ DOMAIN request = Tabs
    BY <1>0 DEF Inv, Shapes, Browsing
  <2>2. /\ DOMAIN request' = Tabs
        /\ request'[t] = [r EXCEPT !.admitted = TRUE]
        /\ \A u \in Tabs : u # t => request'[u] = request[u]
    BY <1>3, <2>1
  <2>3. /\ IsRequest(request'[t]) /\ request'[t].path = r.path /\ request'[t].method = r.method
        /\ request'[t].number = r.number /\ request'[t].carries = r.carries
    BY <2>1, <2>2 DEF IsRequest
  <2>4. Browsing'
    BY <1>0, <1>3, <2>2, <2>3 DEF Inv, Shapes, Browsing
  <2>5. NoNewForm
    BY <1>0, <2>2, <2>3 DEF NoNewForm, Submitting, SubmitsForm
  <2> QED
    BY <1>0, <1>3, <2>4, <2>5, LeftAlone
<1> QED
  BY <1>1, <1>2, <1>3 DEF Admit

LEMMA SignInKeeps ==
    ASSUME Inv, NEW t \in Tabs, SignIn(t)
    PROVE  Inv'
<1>1. Browsing' /\ NoNewForm
  BY AfterRedirect, GetShape DEF SignIn
<1> QED
  BY <1>1, LeftAlone DEF SignIn, unchangedStore

LEMMA LoginKeeps ==
    ASSUME Inv, NEW t \in Tabs, Login(t)
    PROVE  Inv'
<1>1. UNCHANGED <<accounts, bounds>>
  BY DEF Login
<1>2. CASE Show(t, LoginPage) /\ UNCHANGED sessions
  <2>1. Browsing' /\ NoNewForm
    BY <1>2, AfterShow, PlainPage DEF LoginPage
  <2> QED
    BY <1>1, <1>2, <2>1, LeftAlone
<1>3. CASE /\ sessions' = [s \in LiveTokens \cup {request[t].number} |->
                  IF s = request[t].number
                  THEN [operator |-> request[t].carries, pending |-> None, last |-> None]
                  ELSE sessions[s]]
           /\ Redirect(t, Get("home", None), request[t].number)
  <2>1. Browsing' /\ NoNewForm
    BY <1>3, AfterRedirect, GetShape
  <2>2. \A s \in LiveTokens' :
           \/ s \in LiveTokens /\ sessions'[s] = sessions[s]
           \/ IsSession(sessions'[s]) /\ sessions'[s].pending = None
    BY <1>3 DEF LiveTokens, IsSession
  <2> QED
    BY <1>1, <2>1, <2>2, SessionsChange
<1> QED
  BY <1>2, <1>3 DEF Login

LEMMA LogoutKeeps ==
    ASSUME Inv, NEW t \in Tabs, Logout(t)
    PROVE  Inv'
<1>1. Browsing' /\ NoNewForm
  BY AfterRedirect, GetShape DEF Logout
<1>2. \A s \in LiveTokens' : s \in LiveTokens /\ sessions'[s] = sessions[s]
  BY DEF Logout, LiveTokens
<1> QED
  BY <1>1, <1>2, SessionsChange DEF Logout

LEMMA AcknowledgeKeeps ==
    ASSUME Inv, NEW t \in Tabs, Acknowledge(t)
    PROVE  Inv'
<1>1. /\ IsGet(request[t].carries) /\ request[t].carries.path # "ack"
      /\ Redirect(t, request[t].carries, cookie)
  BY DEF Acknowledge, Admitted, Inv, Shapes, Browsing
<1>2. request[t].carries.method = "GET"
  BY <1>1 DEF IsGet
<1>3. Browsing' /\ NoNewForm
  BY <1>1, <1>2, AfterRedirect
<1> QED
  BY <1>3, LeftAlone DEF Acknowledge, unchangedStore

LEMMA BrowseKeeps ==
    ASSUME Inv, NEW t \in Tabs, Browse(t)
    PROVE  Inv'
<1>1. PICK at \in {"home", "search", "details"}, m \in {None, request[t].member} :
         Show(t, Page(at, m, None))
  BY DEF Browse, Details
<1>2. Browsing' /\ NoNewForm
  BY <1>1, AfterShow, PlainPage
<1> QED
  BY <1>2, LeftAlone DEF Browse, unchangedStore

LEMMA SearchKeeps ==
    ASSUME Inv, NEW t \in Tabs, Search(t)
    PROVE  Inv'
<1>1. \/ \E at \in {"search", "error"} : Show(t, Page(at, None, None))
      \/ Redirect(t, Get("details", request[t].member), cookie)
  BY DEF Search
<1>2. Browsing' /\ NoNewForm
  BY <1>1, AfterShow, AfterRedirect, PlainPage, GetShape
<1> QED
  BY <1>2, LeftAlone DEF Search

LEMMA ReviewKeeps ==
    ASSUME Inv, NEW t \in Tabs, Review(t)
    PROVE  Inv'
<1>1. \/ Show(t, Page("review", request[t].member, sessions[request[t].token].pending))
      \/ Redirect(t, Get("new", request[t].member), cookie)
  BY DEF Review, NothingPending
<1>2. Browsing' /\ NoNewForm
  BY <1>1, AfterShow, AfterRedirect, PlainPage, GetShape
<1> QED
  BY <1>2, LeftAlone DEF Review, unchangedStore

LEMMA ConfirmationKeeps ==
    ASSUME Inv, NEW t \in Tabs, Confirmation(t)
    PROVE  Inv'
<1>1. PICK at, m, x : at \in {"error", "confirmation"} /\ Show(t, Page(at, m, x))
  BY DEF Confirmation
<1>2. Browsing' /\ NoNewForm
  BY <1>1, AfterShow, PlainPage
<1> QED
  BY <1>2, LeftAlone DEF Confirmation, unchangedStore

-----------------------------------------------------------------------------
(* The steps that move a form: it is submitted, accepted, and opened.      *)

\* A redirect of one tab: nobody else's request changes.
LEMMA ClickKeeps ==
    ASSUME Inv, NEW t \in Tabs, NEW u \in Tabs, Click(t, u)
    PROVE  Inv'
<1>1. PICK r \in Links(page[u]) :
         /\ logins' = IF SignsIn(r) THEN logins + 1 ELSE logins
         /\ submissions' = IF SubmitsForm(r) THEN submissions + 1 ELSE submissions
         /\ request' = [request EXCEPT ![t] = Numbered(r, cookie,
                            IF SignsIn(r) THEN logins' ELSE IF SubmitsForm(r) THEN submissions'
                            ELSE 0)]
  BY DEF Click
<1>2. /\ UNCHANGED <<sessions, accounts, page, injections, resets>>
      /\ request[t] = None /\ page[u] # None
  BY DEF Click
<1>3. r.path = "ack" => IsGet(r.carries) /\ r.carries.path # "ack"
  BY <1>1, <1>2 DEF Links, Get, Post, Inv, Shapes, Browsing
<1> DEFINE n == IF SignsIn(r) THEN logins' ELSE IF SubmitsForm(r) THEN submissions' ELSE 0
<1>4. /\ DOMAIN request' = Tabs /\ request'[t] = Numbered(r, cookie, n)
      /\ \A v \in Tabs : v # t => request'[v] = request[v]
  BY <1>1 DEF Inv, Shapes, Browsing
<1>5. /\ IsRequest(request'[t])
      /\ request'[t].path = r.path /\ request'[t].method = r.method
      /\ request'[t].carries = r.carries /\ request'[t].number = n
  <2> HIDE DEF n
  <2> QED BY <1>4 DEF IsRequest, Numbered
<1>6. Browsing'
  BY <1>2, <1>3, <1>4, <1>5 DEF Inv, Shapes, Browsing
<1>7. Stored' /\ Counted'
  BY <1>1, <1>2 DEF Inv, Shapes, Stored, Counted, LiveTokens
<1>8. CASE ~SubmitsForm(r)
  <2>1. NoNewForm
    BY <1>4, <1>5, <1>8 DEF NoNewForm, Submitting, SubmitsForm
  <2>2. Calm
    BY <1>1, <1>2, <1>8, <2>1 DEF Calm, LiveTokens, IsPending
  <2> QED
    BY <1>6, <1>7, <2>2, CalmKeeps DEF Inv, Shapes
<1>9. CASE SubmitsForm(r)
  <2>1. submissions' = submissions + 1 /\ submissions \in Nat /\ request'[t].number = submissions'
    BY <1>1, <1>5, <1>9 DEF Inv, Shapes, Counted, SubmitsForm, SignsIn
  <2>2. \A v \in Tabs : v # t => (Submitting(v)' <=> Submitting(v))
    BY <1>4 DEF Submitting
  <2>3. SubmissionOpensOnce'
    BY <1>2 DEF Inv, SubmissionOpensOnce
  <2>4. InOnePlace'
    BY <1>2, <1>4, <2>1, <2>2 DEF Inv, InOnePlace, WithRequests, WithSessions, WithAccounts,
                                  IsPending, LiveTokens
  <2> QED
    BY <1>6, <1>7, <2>3, <2>4 DEF Inv, Shapes
<1> QED
  BY <1>8, <1>9

LEMMA SubaccountFormKeeps ==
    ASSUME Inv, NEW t \in Tabs, SubaccountForm(t)
    PROVE  Inv'
<1> DEFINE r == request[t]
           s == sessions[r.token]
<1>1. UNCHANGED <<accounts, bounds>> /\ r # None /\ r.token \in LiveTokens
  BY DEF SubaccountForm, HasSession, Admitted
<1>2. CASE UNCHANGED sessions /\ \E at \in {"error", "form"} : \E m : Show(t, Page(at, m, None))
  <2>1. Browsing' /\ NoNewForm
    BY <1>2, AfterShow, PlainPage
  <2> QED
    BY <1>1, <1>2, <2>1, LeftAlone
<1>3. CASE /\ SubmitsForm(r)
           /\ sessions' = [sessions EXCEPT ![r.token].pending =
                               [id |-> r.number, what |-> r.carries]]
           /\ Redirect(t, Get("review", r.member), cookie)
  <2>1. /\ Browsing' /\ NoNewForm /\ ~Submitting(t)'
        /\ \A u \in Tabs : u # t => request'[u] = request[u]
    BY <1>3, AfterRedirect, GetShape
  <2>2. /\ LiveTokens' = LiveTokens
        /\ \A v \in LiveTokens : v # r.token => sessions'[v] = sessions[v]
        /\ sessions'[r.token] = [s EXCEPT !.pending = [id |-> r.number, what |-> r.carries]]
    BY <1>1, <1>3 DEF LiveTokens
  <2>3. IsSession(s)
    BY <1>1 DEF Inv, Shapes, Stored
  <2>4. IsSession(sessions'[r.token]) /\ sessions'[r.token].pending.id = r.number
    BY <2>2, <2>3 DEF IsSession
  <2>5. Stored' /\ Counted'
    BY <1>1, <2>2, <2>4 DEF Inv, Shapes, Stored, Counted, bounds
  <2>6. Submitting(t) /\ submissions' = submissions
    BY <1>1, <1>3 DEF Submitting, bounds
  <2>7. SubmissionOpensOnce'
    BY <1>1 DEF Inv, SubmissionOpensOnce
  <2>8. InOnePlace'
    <3>1. \A u \in Tabs : Submitting(u)' =>
             u # t /\ Submitting(u) /\ request'[u].number = request[u].number
      BY <2>1 DEF NoNewForm
    <3>2. \A v \in LiveTokens' :
             \/ v = r.token
             \/ v \in LiveTokens /\ sessions'[v] = sessions[v]
      BY <2>2
    <3>3. /\ \A v \in LiveTokens : IsPending(v) => sessions[v].pending.id # r.number
          /\ \A i \in DOMAIN accounts : accounts[i].request.id # r.number
      BY <2>6 DEF Inv, InOnePlace, WithRequests, WithSessions, WithAccounts
    <3>4. WithRequests'
      BY <2>6, <3>1 DEF Inv, InOnePlace, WithRequests
    <3>5. /\ r.number \in 1 .. submissions
          /\ \A u \in Tabs : Submitting(u)' => request'[u].number # r.number
      BY <2>6, <3>1 DEF Inv, InOnePlace, WithRequests
    <3>6. \A v \in LiveTokens' : IsPending(v)' =>
             \/ sessions'[v].pending.id = r.number /\ v = r.token
             \/ /\ v \in LiveTokens /\ IsPending(v) /\ sessions'[v] = sessions[v]
                /\ sessions'[v].pending.id # r.number
      BY <2>2, <2>4, <3>2, <3>3 DEF IsPending
    <3>7. WithSessions'
      BY <2>6, <3>1, <3>5, <3>6 DEF Inv, InOnePlace, WithSessions
    <3>8. WithAccounts'
      BY <1>1, <2>6, <3>1, <3>3, <3>6 DEF Inv, InOnePlace, WithAccounts
    <3> QED
      BY <3>4, <3>7, <3>8 DEF InOnePlace
  <2> QED
    BY <2>1, <2>5, <2>7, <2>8 DEF Inv, Shapes
<1> QED
  BY <1>2, <1>3 DEF SubaccountForm

LEMMA OpenedShape ==
    ASSUME NEW s, NEW last, IsSession(s)
    PROVE  IsSession(Opened(s, last)) /\ Opened(s, last).pending = None
<1>1. Opened(s, last) = [operator |-> s.operator, pending |-> None, last |-> last]
  <2>1. s = [operator |-> s.operator, pending |-> s.pending, last |-> s.last]
    BY DEF IsSession
  <2>2. DOMAIN s = {"operator", "pending", "last"}
    BY <2>1
  <2> DEFINE emptied == [s EXCEPT !.pending = None]
  <2>3. emptied = [operator |-> s.operator, pending |-> None, last |-> s.last]
    BY <2>2
  <2>4. Opened(s, last) = [emptied EXCEPT !.last = last]
    BY DEF Opened
  <2> HIDE DEF emptied
  <2> QED
    BY <2>3, <2>4
<1> QED
  BY <1>1 DEF IsSession

LEMMA OpenedLast ==
    ASSUME NEW s, NEW last, IsSession(s)
    PROVE  Opened(s, last).last = last
BY DEF IsSession, Opened

LEMMA ConfirmKeeps ==
    ASSUME Inv, NEW t \in Tabs, Confirm(t)
    PROVE  Inv'
<1> DEFINE r == request[t]
           s == sessions[r.token]
           account == [no |-> Len(accounts) + 1, member |-> r.member, request |-> ToOpen(s),
                       by |-> s.operator, reviewed |-> r.carries]
           last == [confirmation |-> confirmationSeq', account |-> account]
<1>1. UNCHANGED bounds /\ r # None /\ r.token \in LiveTokens
  BY DEF Confirm, HasSession, Admitted
<1>2. CASE /\ UNCHANGED <<sessions, accounts>>
           /\ \/ Redirect(t, Get(NothingPending, r.member), cookie)
              \/ Show(t, Page("error", None, None))
  <2>1. Browsing' /\ NoNewForm
    BY <1>2, AfterShow, AfterRedirect, PlainPage, GetShape DEF NothingPending
  <2> QED
    BY <1>1, <1>2, <2>1, LeftAlone
<1>3. CASE /\ s.pending # None
           /\ accounts' = Append(accounts, account)
           /\ sessions' = [sessions EXCEPT ![r.token] = Opened(s, last)]
           /\ Redirect(t, [Get("confirmation", r.member) EXCEPT !.carries = confirmationSeq'],
                       cookie)
  <2>1. Browsing' /\ NoNewForm
    <3> DEFINE g == [Get("confirmation", r.member) EXCEPT !.carries = confirmationSeq']
    <3>1. g.method = "GET" /\ g.path = "confirmation"
      BY GetShape
    <3>2. Redirect(t, g, cookie)
      BY <1>3
    <3> HIDE DEF g
    <3> QED
      BY <3>1, <3>2, AfterRedirect
  <2>2. IsSession(s)
    BY <1>1 DEF Inv, Shapes, Stored
  <2>3. /\ LiveTokens' = LiveTokens
        /\ \A v \in LiveTokens : v # r.token => sessions'[v] = sessions[v]
        /\ IsSession(sessions'[r.token]) /\ sessions'[r.token].pending = None
    <3> HIDE DEF last, account
    <3>1. IsSession(Opened(s, last)) /\ Opened(s, last).pending = None
      BY <2>2, OpenedShape
    <3> QED
      BY <1>1, <1>3, <3>1 DEF LiveTokens
  <2>4. /\ accounts' \in Seq(UNION {Range(accounts), {account}})
        /\ Len(accounts') = Len(accounts) + 1
        /\ DOMAIN accounts' = 1 .. Len(accounts) + 1
        /\ DOMAIN accounts = 1 .. Len(accounts) /\ Len(accounts) \in Nat
        /\ accounts'[Len(accounts) + 1] = account
        /\ \A i \in DOMAIN accounts : accounts'[i] = accounts[i]
    <3> HIDE DEF account
    <3>1. PICK S : accounts \in Seq(S)
      BY DEF Inv, Shapes, Stored
    <3>2. accounts \in Seq(Range(accounts) \cup {account})
      BY <3>1 DEF Range
    <3> QED
      BY <1>3, <3>2
  <2>5. account.request = s.pending
    BY DEF ToOpen
  <2> HIDE DEF account, last
  <2>6. Stored' /\ Counted'
    BY <1>1, <2>3, <2>4 DEF Inv, Shapes, Stored, Counted, bounds
  <2>7. IsPending(r.token) /\ submissions' = submissions
    BY <1>1, <1>3 DEF IsPending, bounds
  <2>8. \A i \in DOMAIN accounts' :
           \/ i \in DOMAIN accounts /\ accounts'[i] = accounts[i]
           \/ i = Len(accounts) + 1 /\ i \notin DOMAIN accounts /\ accounts'[i].request = s.pending
    BY <2>4, <2>5
  <2>9. SubmissionOpensOnce'
    BY <1>1, <2>7, <2>8 DEF Inv, InOnePlace, WithRequests, WithSessions, WithAccounts,
                            SubmissionOpensOnce
  <2>10. InOnePlace'
    <3>1. \A u \in Tabs : Submitting(u)' =>
             Submitting(u) /\ request'[u].number = request[u].number
      BY <2>1 DEF NoNewForm
    <3>2. \A v \in LiveTokens' : IsPending(v)' =>
             v # r.token /\ v \in LiveTokens /\ IsPending(v) /\ sessions'[v] = sessions[v]
      BY <2>3 DEF IsPending
    <3>3. \A u \in Tabs, v \in LiveTokens :
             /\ Submitting(u) => request[u].number # s.pending.id
             /\ v # r.token /\ IsPending(v) => sessions[v].pending.id # s.pending.id
      BY <1>1, <2>7 DEF Inv, InOnePlace, WithRequests, WithSessions, WithAccounts
    <3>4. s.pending.id \in 1 .. submissions
      BY <1>1, <2>7 DEF Inv, InOnePlace, WithRequests, WithSessions, WithAccounts
    <3>5. WithRequests'
      BY <2>7, <3>1 DEF Inv, InOnePlace, WithRequests
    <3>6. WithSessions'
      BY <2>7, <3>1, <3>2 DEF Inv, InOnePlace, WithSessions
    <3>7. WithAccounts'
      <4> SUFFICES ASSUME NEW i \in DOMAIN accounts'
                   PROVE  /\ accounts'[i].request.id \in 1 .. submissions'
                          /\ \A u \in Tabs : Submitting(u)' =>
                                request'[u].number # accounts'[i].request.id
                          /\ \A v \in LiveTokens' : IsPending(v)' =>
                                sessions'[v].pending.id # accounts'[i].request.id
        BY DEF WithAccounts
      <4>1. CASE i \in DOMAIN accounts /\ accounts'[i] = accounts[i]
        BY <4>1, <2>7, <3>1, <3>2 DEF Inv, InOnePlace, WithAccounts
      <4>2. CASE accounts'[i].request = s.pending
        BY <1>1, <4>2, <2>7, <3>1, <3>2, <3>3, <3>4
      <4> QED
        BY <2>8, <4>1, <4>2
    <3> QED
      BY <3>5, <3>6, <3>7 DEF InOnePlace
  <2> QED
    BY <2>1, <2>6, <2>9, <2>10 DEF Inv, Shapes
<1> QED
  BY <1>2, <1>3 DEF Confirm

-----------------------------------------------------------------------------

LEMMA InitInv == Init => Inv
<1> SUFFICES ASSUME Init PROVE Inv
  OBVIOUS
<1>1. Browsing
  BY DEF Init, Browsing, LoginPage, Page
<1>2. Stored /\ Counted
  <2>1. LiveTokens = {} /\ accounts \in Seq({})
    BY DEF Init, LiveTokens
  <2> QED
    BY <2>1 DEF Init, Stored, Counted
<1>3. InOnePlace /\ SubmissionOpensOnce
  BY DEF Init, InOnePlace, WithRequests, WithSessions, WithAccounts, SubmissionOpensOnce,
         Submitting, LiveTokens
<1> QED
  BY <1>1, <1>2, <1>3 DEF Inv, Shapes

LEMMA NextInv == Inv /\ [Next]_vars => Inv'
<1> SUFFICES ASSUME Inv, [Next]_vars PROVE Inv'
  OBVIOUS
<1>1. ASSUME NEW t \in Tabs, Handle(t) PROVE Inv'
  BY <1>1, SignInKeeps, LoginKeeps, LogoutKeeps, AcknowledgeKeeps, BrowseKeeps, SearchKeeps,
     SubaccountFormKeeps, ReviewKeeps, ConfirmKeeps, ConfirmationKeeps DEF Handle
<1>2. ASSUME UNCHANGED <<submissions, page, request, logins>>, Counted',
             \/ UNCHANGED <<sessions, accounts>>
             \/ sessions' = <<>> /\ accounts' = <<>>
      PROVE  Inv'
  <2>1. Browsing' /\ NoNewForm
    BY <1>2 DEF Inv, Shapes, Browsing, NoNewForm, Submitting
  <2>2. Stored'
    <3>1. CASE UNCHANGED <<sessions, accounts>>
      BY <3>1 DEF Inv, Shapes, Stored, LiveTokens
    <3>2. CASE sessions' = <<>> /\ accounts' = <<>>
      <4>1. LiveTokens' = {} /\ accounts' \in Seq({})
        BY <3>2 DEF LiveTokens
      <4> QED
        BY <4>1 DEF Stored
    <3> QED
      BY <1>2, <3>1, <3>2
  <2>3. Calm
    BY <1>2, <2>1 DEF Calm, LiveTokens, IsPending
  <2> QED
    BY <1>2, <2>1, <2>2, <2>3, CalmKeeps DEF Inv, Shapes
<1>3. CASE Inject
  BY <1>2, <1>3 DEF Inject, Inv, Shapes, Counted
<1>4. CASE Reset
  BY <1>2, <1>4 DEF Reset, Inv, Shapes, Counted
<1>5. CASE UNCHANGED vars
  BY <1>2, <1>5 DEF vars, bounds, Inv, Shapes, Counted
<1> QED
  BY <1>1, <1>3, <1>4, <1>5, AdmitKeeps, ClickKeeps DEF Next, Serve

THEOREM Invariance == Spec => []Inv
<1> QED
  BY InitInv, NextInv, PTL DEF Spec

\* However many times, in however many tabs and by whatever sessions the review of
\* a form is confirmed (subaccount_confirm), the form opens at most one account.
THEOREM OpensOnce == Spec => []SubmissionOpensOnce
<1>1. Inv => SubmissionOpensOnce
  BY DEF Inv
<1> QED
  BY <1>1, Invariance, PTL

-----------------------------------------------------------------------------
(* A confirmation shows its own account, as long as nothing is reset: each *)
(* link to a confirmation that the browser was ever given names an account *)
(* of the member in it.                                                    *)

Names(n, m) == n \in DOMAIN accounts /\ accounts[n].member = m

LeadsHome(r) == r.path = "confirmation" => Names(r.carries, r.member)

GoodRequest(r) == LeadsHome(r) /\ (r.path = "ack" => LeadsHome(r.carries))

GoodPage(p) ==
    /\ p.at = "confirmation" => p.shows.member = p.member
    /\ p.at = "notice" => LeadsHome(p.shows)

GoodSession(s) ==
    s.last # None =>
        /\ s.last.confirmation \in DOMAIN accounts
        /\ s.last.account = accounts[s.last.confirmation]

Owned ==
    /\ confirmationSeq = Len(accounts)
    /\ \A s \in LiveTokens : GoodSession(sessions[s])
    /\ \A t \in Tabs :
          /\ request[t] # None => GoodRequest(request[t])
          /\ page[t] # None => GoodPage(page[t])

OwnedUntilReset == resets = 0 => Owned

\* The sessions are as they were, with respect to what they opened last.
LastKept ==
    \A s \in LiveTokens' :
       \/ sessions'[s].last = None
       \/ s \in LiveTokens /\ sessions'[s].last = sessions[s].last

LEMMA OwnedShow ==
    ASSUME Inv, Owned, UNCHANGED <<accounts, confirmationSeq>>, LastKept,
           NEW t \in Tabs, NEW p, Show(t, p), GoodPage(p)
    PROVE  Owned'
<1>1. /\ request'[t] = None /\ page'[t] = p
      /\ \A u \in Tabs : u # t => request'[u] = request[u] /\ page'[u] = page[u]
  BY DEF Inv, Shapes, Browsing, Show
<1>3. \A s \in LiveTokens' : (GoodSession(sessions[s]))'
  BY DEF LastKept, Owned, GoodSession
<1>4. \A u \in Tabs :
         /\ request'[u] # None => (GoodRequest(request[u]))'
         /\ page'[u] # None => (GoodPage(page[u]))'
  BY <1>1 DEF Owned, GoodRequest, GoodPage, LeadsHome, Names
<1> QED
  BY <1>3, <1>4 DEF Owned

LEMMA OwnedRedirect ==
    ASSUME Inv, Owned, UNCHANGED <<accounts, confirmationSeq>>, LastKept,
           NEW t \in Tabs, NEW r, NEW token, Redirect(t, r, token), GoodRequest(r)
    PROVE  Owned'
<1>1. /\ page' = page /\ request'[t] = Sent(r, token)
      /\ \A u \in Tabs : u # t => request'[u] = request[u]
  BY DEF Inv, Shapes, Browsing, Redirect
<1>2. /\ request'[t].path = r.path /\ request'[t].member = r.member
      /\ request'[t].carries = r.carries
  BY <1>1, SentShape
<1>3. \A s \in LiveTokens' : (GoodSession(sessions[s]))'
  BY DEF LastKept, Owned, GoodSession
<1>4. \A u \in Tabs :
         /\ request'[u] # None => (GoodRequest(request[u]))'
         /\ page'[u] # None => (GoodPage(page[u]))'
  BY <1>1, <1>2 DEF Owned, GoodRequest, GoodPage, LeadsHome, Names
<1> QED
  BY <1>3, <1>4 DEF Owned

LEMMA SameSessions ==
    ASSUME UNCHANGED sessions
    PROVE  LastKept
BY DEF LastKept, LiveTokens

LEMMA PlainRequest ==
    ASSUME NEW path, NEW m, path \notin {"confirmation", "ack"}
    PROVE  GoodRequest(Get(path, m))
BY GetShape DEF GoodRequest, LeadsHome

LEMMA PlainGoodPage ==
    ASSUME NEW at, NEW m, NEW x, at \notin {"confirmation", "notice"}
    PROVE  GoodPage(Page(at, m, x))
BY DEF GoodPage, Page

LEMMA AdmitOwned ==
    ASSUME Inv, Owned, NEW t \in Tabs, Admit(t)
    PROVE  Owned'
<1> DEFINE r == request[t]
           g == [Get(r.path, r.member) EXCEPT !.carries = r.carries]
<1>0. r # None /\ UNCHANGED <<accounts, confirmationSeq>>
  BY DEF Admit
<1>1. CASE /\ sessions' = [s \in LiveTokens \ {r.token} |-> sessions[s]]
           /\ Redirect(t, Get("login", None), 0)
  <2>1. LastKept
    BY <1>1 DEF LastKept, LiveTokens
  <2> QED
    BY <1>0, <1>1, <2>1, OwnedRedirect, PlainRequest
<1>2. CASE Show(t, Page("notice", None, g)) /\ UNCHANGED sessions
  <2>1. g.path = r.path /\ g.member = r.member /\ g.carries = r.carries
    BY GetShape
  <2>2. Show(t, Page("notice", None, g))
    BY <1>2
  <2> HIDE DEF g
  <2>3. GoodPage(Page("notice", None, g))
    BY <1>0, <2>1 DEF GoodPage, Page, Owned, GoodRequest, LeadsHome
  <2> QED
    BY <1>0, <1>2, <2>2, <2>3, OwnedShow, SameSessions
<1>3. CASE request' = [request EXCEPT ![t].admitted = TRUE] /\ UNCHANGED <<sessions, page>>
  <2>1. IsRequest(r) /\ DOMAIN request = Tabs
    BY <1>0 DEF Inv, Shapes, Browsing
  <2>2. /\ request'[t] = [r EXCEPT !.admitted = TRUE]
        /\ \A u \in Tabs : u # t => request'[u] = request[u]
    BY <1>3, <2>1
  <2>3. /\ request'[t].path = r.path /\ request'[t].member = r.member
        /\ request'[t].carries = r.carries
    BY <2>1, <2>2 DEF IsRequest
  <2> HIDE DEF r, g
  <2>4. \A u \in Tabs : request'[u] # None => (GoodRequest(request[u]))'
    <3>1. GoodRequest(r)
      BY <1>0 DEF Owned, r
    <3>2. (GoodRequest(request[t]))'
      BY <1>0, <2>3, <3>1 DEF GoodRequest, LeadsHome, Names
    <3>3. \A u \in Tabs : u # t /\ request'[u] # None => (GoodRequest(request[u]))'
      BY <1>0, <2>2 DEF Owned, GoodRequest, LeadsHome, Names
    <3> QED
      BY <3>2, <3>3
  <2> QED
    BY <1>0, <1>3, <2>4 DEF Owned, GoodPage, GoodSession, LeadsHome, Names, LiveTokens
<1> QED
  BY <1>1, <1>2, <1>3 DEF Admit

LEMMA LoginOwned ==
    ASSUME Inv, Owned, NEW t \in Tabs, Login(t)
    PROVE  Owned'
<1>1. LastKept
  BY DEF Login, LastKept, LiveTokens
<1>2. \/ Show(t, Page("login", None, None)) 
      \/ Redirect(t, Get("home", None), request[t].number)
  BY DEF Login, LoginPage
<1> QED
  BY <1>1, <1>2, OwnedShow, OwnedRedirect, PlainRequest, PlainGoodPage DEF Login

LEMMA LogoutOwned ==
    ASSUME Inv, Owned, NEW t \in Tabs, Logout(t)
    PROVE  Owned'
<1>1. LastKept
  BY DEF Logout, LastKept, LiveTokens
<1> QED
  BY <1>1, OwnedRedirect, PlainRequest DEF Logout

LEMMA AcknowledgeOwned ==
    ASSUME Inv, Owned, NEW t \in Tabs, Acknowledge(t)
    PROVE  Owned'
<1>1. GoodRequest(request[t].carries)
  BY DEF Acknowledge, Admitted, Inv, Shapes, Browsing, Owned, GoodRequest
<1> QED
  BY <1>1, OwnedRedirect, SameSessions DEF Acknowledge, unchangedStore

\* The handlers that answer with a page of the workstation or lead to another.
LEMMA ReadingOwned ==
    ASSUME Inv, Owned, NEW t \in Tabs,
           SignIn(t) \/ Browse(t) \/ Search(t) \/ Review(t)
    PROVE  Owned'
<1>1. UNCHANGED <<sessions, accounts, confirmationSeq>>
  BY DEF SignIn, Browse, Search, Review, unchangedStore
<1>2. \/ \E at \in {"home", "search", "details", "error", "review"} : \E m, x : Show(t, Page(at, m, x))
      \/ \E path \in {"login", "details", "new"} : \E m, token : Redirect(t, Get(path, m), token)
  BY DEF SignIn, Browse, Search, Review, Details, NothingPending
<1> QED
  BY <1>1, <1>2, OwnedShow, OwnedRedirect, SameSessions, PlainRequest, PlainGoodPage

LEMMA SubaccountFormOwned ==
    ASSUME Inv, Owned, NEW t \in Tabs, SubaccountForm(t)
    PROVE  Owned'
<1> DEFINE r == request[t]
<1>1. UNCHANGED <<accounts, confirmationSeq>> /\ r.token \in LiveTokens
  BY DEF SubaccountForm, HasSession
<1>2. CASE UNCHANGED sessions /\ \E at \in {"error", "form"} : \E m : Show(t, Page(at, m, None))
  BY <1>1, <1>2, OwnedShow, SameSessions, PlainGoodPage
<1>3. CASE /\ sessions' = [sessions EXCEPT ![r.token].pending =
                               [id |-> r.number, what |-> r.carries]]
           /\ Redirect(t, Get("review", r.member), cookie)
  <2>1. IsSession(sessions[r.token])
    BY <1>1 DEF Inv, Shapes, Stored
  <2>2. /\ LiveTokens' = LiveTokens
        /\ \A v \in LiveTokens : v # r.token => sessions'[v] = sessions[v]
        /\ sessions'[r.token].last = sessions[r.token].last
    BY <1>1, <1>3, <2>1 DEF LiveTokens, IsSession
  <2>3. LastKept
    BY <2>2 DEF LastKept
  <2> QED
    BY <1>1, <1>3, <2>3, OwnedRedirect, PlainRequest
<1> QED
  BY <1>2, <1>3 DEF SubaccountForm

LEMMA ConfirmationOwned ==
    ASSUME Inv, Owned, NEW t \in Tabs, Confirmation(t)
    PROVE  Owned'
<1> DEFINE r == request[t]
           last == sessions[r.token].last
<1>1. /\ UNCHANGED <<sessions, accounts, confirmationSeq>>
      /\ r # None /\ r.path = "confirmation" /\ r.token \in LiveTokens
  BY DEF Confirmation, Admitted, HasSession, unchangedStore
<1>2. CASE Show(t, Page("error", None, None))
  BY <1>1, <1>2, OwnedShow, SameSessions, PlainGoodPage
<1>3. CASE /\ last # None /\ last.confirmation = r.carries
           /\ Show(t, Page("confirmation", r.member, last.account))
  <2>1. last.account = accounts[r.carries]
    BY <1>1, <1>3 DEF Owned, GoodSession
  <2>2. accounts[r.carries].member = r.member
    BY <1>1 DEF Owned, GoodRequest, LeadsHome, Names
  <2>3. GoodPage(Page("confirmation", r.member, last.account))
    BY <2>1, <2>2 DEF GoodPage, Page
  <2> QED
    BY <1>1, <1>3, <2>3, OwnedShow, SameSessions
<1> QED
  BY <1>2, <1>3 DEF Confirmation

LEMMA ConfirmOwned ==
    ASSUME Inv, Owned, NEW t \in Tabs, Confirm(t)
    PROVE  Owned'
<1> DEFINE r == request[t]
           s == sessions[r.token]
           account == [no |-> Len(accounts) + 1, member |-> r.member, request |-> ToOpen(s),
                       by |-> s.operator, reviewed |-> r.carries]
           last == [confirmation |-> confirmationSeq', account |-> account]
           g == [Get("confirmation", r.member) EXCEPT !.carries = confirmationSeq']
<1>1. r # None /\ r.token \in LiveTokens
  BY DEF Confirm, HasSession, Admitted
<1>2. CASE /\ UNCHANGED <<sessions, accounts, confirmationSeq>>
           /\ \/ Redirect(t, Get(NothingPending, r.member), cookie)
              \/ Show(t, Page("error", None, None))
  BY <1>2, OwnedShow, OwnedRedirect, SameSessions, PlainRequest, PlainGoodPage
     DEF NothingPending
<1>3. CASE /\ accounts' = Append(accounts, account)
           /\ confirmationSeq' = NextConfirmation
           /\ sessions' = [sessions EXCEPT ![r.token] = Opened(s, last)]
           /\ Redirect(t, g, cookie)
  <2>1. account.member = r.member /\ last.account = account /\ last.confirmation = confirmationSeq'
    OBVIOUS
  <2>2. g.path = "confirmation" /\ g.member = r.member /\ g.carries = confirmationSeq'
    BY GetShape
  <2>3. /\ accounts' = Append(accounts, account) /\ Redirect(t, g, cookie)
        /\ sessions' = [sessions EXCEPT ![r.token] = Opened(s, last)]
    BY <1>3
  <2>4. IsSession(s)
    BY <1>1 DEF Inv, Shapes, Stored
  <2> HIDE DEF account, last, g
  <2>5. /\ Len(accounts) \in Nat /\ Len(accounts') = Len(accounts) + 1
        /\ DOMAIN accounts = 1 .. Len(accounts) /\ DOMAIN accounts' = 1 .. Len(accounts) + 1
        /\ accounts'[Len(accounts) + 1] = account
        /\ \A i \in DOMAIN accounts : accounts'[i] = accounts[i]
    <3>1. PICK S : accounts \in Seq(S)
      BY DEF Inv, Shapes, Stored
    <3> QED
      BY <2>3, <3>1
  <2>6. confirmationSeq' = Len(accounts')
    BY <1>3, <2>5 DEF NextConfirmation, Owned
  <2>7. /\ LiveTokens' = LiveTokens
        /\ \A v \in LiveTokens : v # r.token => sessions'[v] = sessions[v]
        /\ sessions'[r.token].last = last
    <3>1. Opened(s, last).last = last
      BY <2>4, OpenedLast
    <3> QED
      BY <1>1, <2>3, <3>1 DEF LiveTokens
  <2>8. \A v \in LiveTokens' : (GoodSession(sessions[v]))'
    BY <2>1, <2>5, <2>6, <2>7 DEF Owned, GoodSession
  <2>9. /\ page' = page /\ request'[t] = Sent(g, cookie)
        /\ \A u \in Tabs : u # t => request'[u] = request[u]
    BY <2>3 DEF Inv, Shapes, Browsing, Redirect
  <2>10. (GoodRequest(request[t]))'
    BY <2>1, <2>2, <2>5, <2>6, <2>9, SentShape DEF GoodRequest, LeadsHome, Names
  <2>11. \A u \in Tabs :
            /\ request'[u] # None => (GoodRequest(request[u]))'
            /\ page'[u] # None => (GoodPage(page[u]))'
    <3>1. \A n, m : Names(n, m) => Names(n, m)'
      BY <2>5 DEF Names
    <3>2. \A h : LeadsHome(h) => LeadsHome(h)'
      BY <3>1 DEF LeadsHome
    <3>3. ASSUME NEW u \in Tabs, u # t, request'[u] # None PROVE (GoodRequest(request[u]))'
      BY <2>9, <3>2, <3>3 DEF Owned, GoodRequest
    <3>4. ASSUME NEW u \in Tabs, page'[u] # None PROVE (GoodPage(page[u]))'
      BY <2>9, <3>2, <3>4 DEF Owned, GoodPage
    <3> QED
      BY <2>10, <3>3, <3>4
  <2> QED
    BY <2>6, <2>8, <2>11 DEF Owned
<1> QED
  BY <1>2, <1>3 DEF Confirm

LEMMA ClickOwned ==
    ASSUME Inv, Owned, NEW t \in Tabs, NEW u \in Tabs, Click(t, u)
    PROVE  Owned'
<1>1. PICK r, n : r \in Links(page[u]) /\ request' = [request EXCEPT ![t] = Numbered(r, cookie, n)]
  BY DEF Click
<1>2. UNCHANGED <<sessions, accounts, confirmationSeq, page>> /\ page[u] # None
  BY DEF Click
<1>3. GoodRequest(r)
  BY <1>1, <1>2 DEF Links, Get, Post, Owned, GoodPage, GoodRequest, LeadsHome
<1>4. /\ request'[t] = Numbered(r, cookie, n)
      /\ \A v \in Tabs : v # t => request'[v] = request[v]
  BY <1>1 DEF Inv, Shapes, Browsing
<1>5. /\ request'[t].path = r.path /\ request'[t].member = r.member
      /\ request'[t].carries = r.carries
  BY <1>4 DEF Numbered
<1>6. \A v \in Tabs : request'[v] # None => (GoodRequest(request[v]))'
  BY <1>2, <1>3, <1>4, <1>5 DEF Owned, GoodRequest, LeadsHome, Names
<1> QED
  BY <1>2, <1>6 DEF Owned, GoodPage, GoodSession, LeadsHome, Names, LiveTokens

LEMMA InitOwned == Init => Owned
<1> SUFFICES ASSUME Init PROVE Owned
  OBVIOUS
<1>1. GoodPage(LoginPage)
  BY PlainGoodPage DEF LoginPage
<1> QED
  BY <1>1 DEF Init, Owned, LiveTokens

LEMMA NextOwned == Inv /\ OwnedUntilReset /\ [Next]_vars => OwnedUntilReset'
<1> SUFFICES ASSUME Inv, OwnedUntilReset, [Next]_vars, resets' = 0 PROVE Owned'
  BY DEF OwnedUntilReset
<1>1. ASSUME NEW t \in Tabs, Serve(t) \/ \E u \in Tabs : Click(t, u)
      PROVE  Owned'
  <2>1. resets' = resets
    BY <1>1 DEF Serve, Handle, Admit, SignIn, Login, Logout, Acknowledge, Browse, Search,
                SubaccountForm, Review, Confirm, Confirmation, Click, bounds
  <2>2. Owned
    BY <2>1 DEF OwnedUntilReset
  <2> QED
    BY <1>1, <2>2, AdmitOwned, LoginOwned, LogoutOwned, AcknowledgeOwned, ReadingOwned,
       SubaccountFormOwned, ConfirmOwned, ConfirmationOwned, ClickOwned DEF Serve, Handle
<1>2. CASE Inject \/ UNCHANGED vars
  <2>1. UNCHANGED <<sessions, accounts, confirmationSeq, page, request, resets>>
    BY <1>2 DEF Inject, vars, bounds
  <2> QED
    BY <2>1 DEF OwnedUntilReset, Owned, GoodPage, GoodRequest, GoodSession, LeadsHome, Names,
                LiveTokens
<1>3. CASE Reset
  BY <1>3 DEF Reset, Inv, Shapes, Counted
<1> QED
  BY <1>1, <1>2, <1>3 DEF Next

\* The page that confirms an opening (subaccount_confirmation) shows an account of
\* the member in its URL, as long as nothing was reset: a number of a confirmation
\* never leads to what another tab or session has opened.
THEOREM ConfirmsItsOwn == Spec => []ConfirmationIsOwn
<1>1. Init => OwnedUntilReset
  BY InitOwned DEF OwnedUntilReset
<1>2. OwnedUntilReset => ConfirmationIsOwn
  BY DEF OwnedUntilReset, Owned, GoodPage, ConfirmationIsOwn
<1> QED
  BY <1>1, <1>2, NextOwned, Invariance, PTL DEF Spec

-----------------------------------------------------------------------------
(* A notice is shown once: those shown and those that still wait in some   *)
(* object of flags, the discarded ones that a request under way holds on   *)
(* to included, are no more than were injected.                            *)

IsFlags(f) ==
    f \in [failures : Int, interstitial : BOOLEAN, expire : BOOLEAN, error : BOOLEAN]

Waiting == {i \in DOMAIN flags : flags[i].interstitial = TRUE}

Kept ==
    /\ \E S : flags \in Seq(S)
    /\ Len(flags) >= 1
    /\ \A i \in DOMAIN flags : IsFlags(flags[i])
    /\ \A t \in Tabs : request[t] # None => request[t].flags \in DOMAIN flags

Injected ==
    /\ Kept
    /\ notices \in Nat
    /\ notices + Cardinality(Waiting) <= injections

\* A request keeps its flags; a new one holds the current ones.
Dated ==
    \A t \in Tabs : request'[t] # None =>
       \/ request[t] # None /\ request'[t].flags = request[t].flags
       \/ request'[t].flags = Len(flags)

LEMMA FiniteFlags ==
    ASSUME Kept
    PROVE  /\ Len(flags) \in Nat /\ DOMAIN flags = 1 .. Len(flags)
           /\ IsFiniteSet(Waiting) /\ Cardinality(Waiting) \in Nat
<1>1. PICK S : flags \in Seq(S)
  BY DEF Kept
<1>2. Len(flags) \in Nat /\ DOMAIN flags = 1 .. Len(flags)
  BY <1>1
<1>3. IsFiniteSet(DOMAIN flags)
  BY <1>2, FS_Interval
<1>4. IsFiniteSet(Waiting)
  BY <1>3, FS_Subset DEF Waiting
<1> QED
  BY <1>2, <1>4, FS_CardinalityType

LEMMA ShowDated ==
    ASSUME Inv, NEW t \in Tabs, NEW p, Show(t, p)
    PROVE  Dated
BY DEF Inv, Shapes, Browsing, Show, Dated

LEMMA RedirectDated ==
    ASSUME Inv, NEW t \in Tabs, NEW r, NEW token, Redirect(t, r, token)
    PROVE  Dated
BY SentShape DEF Inv, Shapes, Browsing, Redirect, Dated

LEMMA FlagsKept ==
    ASSUME Injected, Dated, UNCHANGED <<flags, notices, injections>>
    PROVE  Injected'
BY FiniteFlags DEF Injected, Kept, Dated, Waiting

\* One object of flags changes.
LEMMA FlagsReplaced ==
    ASSUME Kept, Dated, NEW i \in DOMAIN flags, NEW f, IsFlags(f),
           flags' = [flags EXCEPT ![i] = f]
    PROVE  /\ Kept' /\ Cardinality(Waiting)' \in Nat
           /\ (f.interstitial = TRUE <=> flags[i].interstitial = TRUE) =>
                 Cardinality(Waiting)' = Cardinality(Waiting)
           /\ flags[i].interstitial = TRUE /\ f.interstitial = FALSE =>
                 Cardinality(Waiting)' = Cardinality(Waiting) - 1
           /\ Cardinality(Waiting)' <= Cardinality(Waiting) + 1
<1>1. PICK S : flags \in Seq(S)
  BY DEF Kept
<1>2. flags \in Seq(S \cup {f}) /\ i \in 1 .. Len(flags)
  BY <1>1
<1>3. flags' \in Seq(S \cup {f}) /\ Len(flags') = Len(flags)
  BY <1>2, ExceptSeq
<1>4. /\ DOMAIN flags' = DOMAIN flags /\ flags'[i] = f
      /\ \A j \in DOMAIN flags : j # i => flags'[j] = flags[j]
  OBVIOUS
<1>5. Kept'
  BY <1>3, <1>4, FiniteFlags DEF Kept, Dated
<1>6. f.interstitial = TRUE \/ f.interstitial = FALSE
  BY DEF IsFlags
<1>7. flags[i].interstitial = TRUE <=> i \in Waiting
  BY DEF Waiting
<1>8. CASE f.interstitial = TRUE
  <2>1. Waiting' = Waiting \cup {i}
    BY <1>4, <1>8 DEF Waiting
  <2>2. /\ Cardinality(Waiting) \in Nat
        /\ Cardinality(Waiting \cup {i}) =
              IF i \in Waiting THEN Cardinality(Waiting) ELSE Cardinality(Waiting) + 1
    BY FiniteFlags, FS_AddElement
  <2> QED
    BY <1>5, <1>7, <1>8, <2>1, <2>2
<1>9. CASE f.interstitial = FALSE
  <2>1. Waiting' = Waiting \ {i}
    BY <1>4, <1>9 DEF Waiting
  <2>2. /\ Cardinality(Waiting) \in Nat
        /\ Cardinality(Waiting \ {i}) =
              IF i \in Waiting THEN Cardinality(Waiting) - 1 ELSE Cardinality(Waiting)
    BY FiniteFlags, FS_RemoveElement
  <2>3. i \in Waiting => Cardinality(Waiting) # 0
    BY FiniteFlags, FS_EmptySet
  <2> QED
    BY <1>5, <1>7, <1>9, <2>1, <2>2, <2>3
<1> QED
  BY <1>6, <1>8, <1>9

LEMMA AdmitInjected ==
    ASSUME Inv, Injected, NEW t \in Tabs, Admit(t)
    PROVE  Injected'
<1> DEFINE r == request[t]
           f == flags[r.flags]
<1>1. injections' = injections /\ injections \in Nat /\ r # None /\ r.flags \in DOMAIN flags
  BY DEF Admit, bounds, Injected, Kept, Inv, Shapes, Counted
<1>2. IsFlags(f) /\ Cardinality(Waiting) \in Nat
  BY <1>1, FiniteFlags DEF Injected, Kept
<1>3. CASE /\ flags' = [flags EXCEPT ![r.flags].expire = FALSE]
           /\ Redirect(t, Get("login", None), 0) /\ notices' = notices
  <2> DEFINE g == [f EXCEPT !.expire = FALSE]
  <2>1. IsFlags(g) /\ (g.interstitial = TRUE <=> f.interstitial = TRUE)
    BY <1>2 DEF IsFlags
  <2>2. flags' = [flags EXCEPT ![r.flags] = g] /\ Dated
    BY <1>1, <1>3, RedirectDated
  <2> HIDE DEF g
  <2> QED
    BY <1>1, <1>3, <2>1, <2>2, FlagsReplaced DEF Injected
<1>4. CASE /\ f.interstitial /\ flags' = [flags EXCEPT ![r.flags] = Shown(f)]
           /\ notices' = notices + 1 /\ \E p : Show(t, p)
  <2>1. IsFlags(Shown(f)) /\ Shown(f).interstitial = FALSE /\ f.interstitial = TRUE
    BY <1>2, <1>4 DEF IsFlags, Shown
  <2>2. Dated
    BY <1>4, ShowDated
  <2> QED
    <3>1. Kept' /\ Cardinality(Waiting)' = Cardinality(Waiting) - 1
      BY <1>1, <1>4, <2>1, <2>2, FlagsReplaced DEF Injected
    <3> QED
      BY <1>1, <1>2, <1>4, <3>1 DEF Injected
<1>5. CASE request' = [request EXCEPT ![t].admitted = TRUE] /\ UNCHANGED <<flags, notices>>
  <2>1. IsRequest(r) /\ DOMAIN request = Tabs
    BY <1>1 DEF Inv, Shapes, Browsing
  <2>2. /\ request'[t] = [r EXCEPT !.admitted = TRUE]
        /\ \A u \in Tabs : u # t => request'[u] = request[u]
    BY <1>5, <2>1
  <2>3. request'[t].flags = r.flags
    BY <2>1, <2>2 DEF IsRequest
  <2>4. Dated
    BY <1>1, <2>2, <2>3 DEF Dated
  <2> QED
    BY <1>1, <1>5, <2>4, FlagsKept
<1> QED
  BY <1>3, <1>4, <1>5 DEF Admit

LEMMA SearchInjected ==
    ASSUME Inv, Injected, NEW t \in Tabs, Search(t)
    PROVE  Injected'
<1>1. notices' = notices /\ injections' = injections /\ Dated
  BY ShowDated, RedirectDated DEF Search, bounds
<1>2. CASE UNCHANGED flags
  BY <1>1, <1>2, FlagsKept
<1>3. CASE flags' = [flags EXCEPT ![Len(flags)].failures = @ - 1]
  <2> DEFINE f == flags[Len(flags)]
             g == [f EXCEPT !.failures = @ - 1]
  <2>1. Len(flags) \in DOMAIN flags
    BY FiniteFlags DEF Injected, Kept
  <2>2. IsFlags(f)
    BY <2>1 DEF Injected, Kept
  <2>3. IsFlags(g) /\ (g.interstitial = TRUE <=> f.interstitial = TRUE)
    BY <2>2 DEF IsFlags
  <2>4. flags' = [flags EXCEPT ![Len(flags)] = g]
    BY <1>3, <2>1
  <2> HIDE DEF g
  <2> QED
    BY <1>1, <2>1, <2>3, <2>4, FlagsReplaced DEF Injected
<1> QED
  BY <1>2, <1>3 DEF Search

LEMMA InjectInjected ==
    ASSUME Inv, Injected, Inject
    PROVE  Injected'
<1> DEFINE now == flags[Len(flags)]
<1>1. /\ injections' = injections + 1 /\ injections \in Nat
      /\ UNCHANGED <<request, notices>> /\ Dated
  BY DEF Inject, Inv, Shapes, Counted, Dated
<1>2. PICK f \in {[now EXCEPT !.failures = 1], [now EXCEPT !.interstitial = TRUE],
                  [now EXCEPT !.expire = TRUE], [now EXCEPT !.error = TRUE]} :
         flags' = [flags EXCEPT ![Len(flags)] = f]
  BY DEF Inject
<1>3. Len(flags) \in DOMAIN flags /\ Cardinality(Waiting) \in Nat
  BY FiniteFlags DEF Injected, Kept
<1>4. IsFlags(now)
  BY <1>3 DEF Injected, Kept
<1>5. IsFlags(f)
  <2> HIDE DEF now
  <2>1. IsFlags([now EXCEPT !.failures = 1])
    BY <1>4 DEF IsFlags
  <2>2. IsFlags([now EXCEPT !.interstitial = TRUE])
    BY <1>4 DEF IsFlags
  <2>3. IsFlags([now EXCEPT !.expire = TRUE])
    BY <1>4 DEF IsFlags
  <2>4. IsFlags([now EXCEPT !.error = TRUE])
    BY <1>4 DEF IsFlags
  <2> QED
    BY <2>1, <2>2, <2>3, <2>4
<1>6. Kept' /\ Cardinality(Waiting)' \in Nat
      /\ Cardinality(Waiting)' <= Cardinality(Waiting) + 1
  BY <1>1, <1>2, <1>3, <1>5, FlagsReplaced DEF Injected
<1> QED
  BY <1>1, <1>3, <1>6 DEF Injected

LEMMA ResetInjected ==
    ASSUME Inv, Injected, Reset
    PROVE  Injected'
<1>1. flags' = Append(flags, NoFaults) /\ UNCHANGED <<request, injections, notices>>
  BY DEF Reset
<1>2. PICK S : flags \in Seq(S)
  BY DEF Injected, Kept
<1>3. flags \in Seq(S \cup {NoFaults})
  BY <1>2
<1>4. /\ flags' \in Seq(S \cup {NoFaults}) /\ Len(flags') = Len(flags) + 1
      /\ flags'[Len(flags) + 1] = NoFaults
      /\ \A i \in 1 .. Len(flags) : flags'[i] = flags[i]
  BY <1>1, <1>3, AppendProperties
<1>5. IsFlags(NoFaults) /\ NoFaults.interstitial = FALSE
  BY DEF IsFlags, NoFaults
<1>6. /\ Len(flags) \in Nat /\ DOMAIN flags = 1 .. Len(flags)
      /\ DOMAIN flags' = 1 .. Len(flags) + 1
  BY <1>2, <1>4
<1>7. Kept'
  BY <1>1, <1>4, <1>5, <1>6 DEF Injected, Kept
<1>8. Waiting' = Waiting
  BY <1>4, <1>5, <1>6 DEF Waiting
<1> QED
  BY <1>1, <1>7, <1>8 DEF Injected

LEMMA NextInjected == Inv /\ Injected /\ [Next]_vars => Injected'
<1> SUFFICES ASSUME Inv, Injected, [Next]_vars PROVE Injected'
  OBVIOUS
<1>1. ASSUME NEW t \in Tabs,
             \/ SignIn(t) \/ Login(t) \/ Logout(t) \/ Acknowledge(t) \/ Browse(t)
             \/ SubaccountForm(t) \/ Review(t) \/ Confirm(t) \/ Confirmation(t)
      PROVE  Injected'
  <2>1. UNCHANGED <<flags, notices, injections>>
    BY <1>1 DEF SignIn, Login, Logout, Acknowledge, Browse, SubaccountForm, Review, Confirm,
                Confirmation, unchangedStore, bounds
  <2>2. (\E p : Show(t, p)) \/ \E r, token : Redirect(t, r, token)
    BY <1>1 DEF SignIn, Login, Logout, Acknowledge, Browse, SubaccountForm, Review, Confirm,
                Confirmation
  <2> QED
    BY <2>1, <2>2, ShowDated, RedirectDated, FlagsKept
<1>2. ASSUME NEW t \in Tabs, NEW u \in Tabs, Click(t, u) PROVE Injected'
  <2>1. UNCHANGED <<flags, notices, injections>>
    BY <1>2 DEF Click
  <2>2. PICK r, n : request' = [request EXCEPT ![t] = Numbered(r, cookie, n)]
    BY <1>2 DEF Click
  <2>3. Dated
    BY <2>2 DEF Dated, Numbered, Inv, Shapes, Browsing
  <2> QED
    BY <2>1, <2>3, FlagsKept
<1>3. CASE UNCHANGED vars
  BY <1>3, FlagsKept DEF vars, bounds, Dated
<1> QED
  BY <1>1, <1>2, <1>3, AdmitInjected, SearchInjected, InjectInjected, ResetInjected
     DEF Next, Serve, Handle

LEMMA InitInjected == Init => Injected
<1> SUFFICES ASSUME Init PROVE Injected
  OBVIOUS
<1>1. /\ flags \in Seq({NoFaults}) /\ Len(flags) = 1 /\ DOMAIN flags = {1}
      /\ flags[1] = NoFaults
  BY DEF Init
<1>2. Waiting = {}
  BY <1>1 DEF Waiting, NoFaults
<1>3. Kept
  <2>1. IsFlags(NoFaults)
    BY DEF IsFlags, NoFaults
  <2>2. \A t \in Tabs : request[t] = None
    BY DEF Init
  <2> QED
    BY <1>1, <2>1, <2>2 DEF Kept
<1> QED
  BY <1>2, <1>3, FS_EmptySet DEF Injected, Init

\* The notice of runtime_conditions interrupts one request for each time it was
\* injected, however many requests are held up with the same flags.
THEOREM NoticeShownOnce == Spec => []NoticeIsOneShot
<1>1. Inv /\ Injected => NoticeIsOneShot
  BY FiniteFlags DEF Injected, NoticeIsOneShot, Inv, Shapes, Counted
<1> QED
  BY <1>1, InitInjected, NextInjected, Invariance, PTL DEF Spec

-----------------------------------------------------------------------------
(* In one tab, what waits to be opened is what the tab reviews or confirms.*)

\* No request and no page is mistaken for None.
NoneIsNoRecord == \A x : "path" \in DOMAIN x \/ "at" \in DOMAIN x => x # None

Unopened(s) == s \in LiveTokens /\ sessions[s].pending # None

Faithful(t) ==
    /\ request[t] = None /\ page[t] # None /\ page[t].at = "review" /\ Unopened(cookie) =>
          page[t].shows = sessions[cookie].pending
    /\ request[t] # None => request[t].token = cookie
    /\ request[t] # None /\ request[t].path = "confirm" /\ request[t].method = "POST"
          /\ Unopened(cookie) => request[t].carries = sessions[cookie].pending

OneTabInv == InOneTab => OpensWhatWasReviewed /\ \A t \in Tabs : Faithful(t)

\* A tab that answers stays open, and the others stay as they were.
LEMMA Redirected ==
    ASSUME NoneIsNoRecord, Inv, OneTabInv, InOneTab', NEW t \in Tabs, request[t] # None,
           NEW r, NEW token, Redirect(t, r, token)
    PROVE  /\ InOneTab /\ OpensWhatWasReviewed /\ request[t].token = cookie /\ Faithful(t)
           /\ r.method = "GET" /\ token = cookie' => \A u \in Tabs : (Faithful(u))'
<1>1. /\ page' = page /\ request'[t] = Sent(r, token)
      /\ \A u \in Tabs : u # t => request'[u] = request[u]
  BY DEF Inv, Shapes, Browsing, Redirect
<1>2. request'[t] # None /\ request'[t].token = token /\ request'[t].method = r.method
  BY <1>1, SentShape DEF NoneIsNoRecord, Sent, Numbered
<1>3. InOneTab
  BY <1>1, <1>2 DEF InOneTab, IsOpen
<1>4. \A u \in Tabs : u # t => request[u] = None /\ page[u] = None
  BY <1>3 DEF InOneTab, IsOpen
<1>5. Faithful(t) /\ OpensWhatWasReviewed
  BY <1>3 DEF OneTabInv
<1>6. ASSUME r.method = "GET", token = cookie', NEW u \in Tabs
      PROVE  (Faithful(u))'
  <2>1. CASE u = t
    BY <1>2, <1>6, <2>1 DEF Faithful
  <2>2. CASE u # t
    BY <1>1, <1>4, <2>2 DEF Faithful
  <2> QED
    BY <2>1, <2>2
<1> QED
  BY <1>3, <1>5, <1>6 DEF Faithful

LEMMA Answered ==
    ASSUME NoneIsNoRecord, Inv, OneTabInv, InOneTab', NEW t \in Tabs, request[t] # None,
           NEW at, NEW m, NEW x, Show(t, Page(at, m, x))
    PROVE  /\ InOneTab /\ OpensWhatWasReviewed /\ request[t].token = cookie
           /\ (at = "review" /\ (Unopened(cookie))' => x = (sessions[cookie].pending)')
                 => \A u \in Tabs : (Faithful(u))'
<1>1. /\ request'[t] = None /\ page'[t] = Page(at, m, x)
      /\ \A u \in Tabs : u # t => request'[u] = request[u] /\ page'[u] = page[u]
  BY DEF Inv, Shapes, Browsing, Show
<1>2. page'[t] # None /\ page'[t].at = at /\ page'[t].shows = x
  BY <1>1 DEF NoneIsNoRecord, Page
<1>3. InOneTab
  BY <1>1, <1>2 DEF InOneTab, IsOpen
<1>4. \A u \in Tabs : u # t => request[u] = None /\ page[u] = None
  BY <1>3 DEF InOneTab, IsOpen
<1>5. Faithful(t) /\ OpensWhatWasReviewed
  BY <1>3 DEF OneTabInv
<1>6. ASSUME at = "review" /\ (Unopened(cookie))' => x = (sessions[cookie].pending)',
             NEW u \in Tabs
      PROVE  (Faithful(u))'
  <2>1. CASE u = t
    BY <1>1, <1>2, <1>6, <2>1 DEF Faithful
  <2>2. CASE u # t
    BY <1>1, <1>4, <2>2 DEF Faithful
  <2> QED
    BY <2>1, <2>2
<1> QED
  BY <1>3, <1>5, <1>6 DEF Faithful

\* The answers that open nothing.
LEMMA AnswersFaithful ==
    ASSUME NoneIsNoRecord, Inv, OneTabInv, NEW t \in Tabs,
           \/ SignIn(t) \/ Login(t) \/ Logout(t) \/ Acknowledge(t) \/ Browse(t) \/ Search(t)
           \/ SubaccountForm(t) \/ Review(t) \/ Confirmation(t)
    PROVE  OneTabInv'
<1> SUFFICES ASSUME InOneTab'
             PROVE  OpensWhatWasReviewed' /\ \A u \in Tabs : (Faithful(u))'
  BY DEF OneTabInv
<1>1. request[t] # None /\ accounts' = accounts
  BY DEF SignIn, Login, Logout, Acknowledge, Browse, Search, SubaccountForm, Review,
         Confirmation, Admitted, unchangedStore
<1>2. ASSUME OpensWhatWasReviewed PROVE OpensWhatWasReviewed'
  BY <1>1, <1>2 DEF OpensWhatWasReviewed
<1>3. CASE Login(t)
  <2>1. CASE Show(t, LoginPage)
    BY <1>1, <1>2, <2>1, Answered DEF LoginPage
  <2>2. CASE cookie' = request[t].number /\ Redirect(t, Get("home", None), request[t].number)
    BY <1>1, <1>2, <2>2, Redirected, GetShape
  <2> QED
    BY <1>3, <2>1, <2>2 DEF Login
<1>4. CASE Logout(t)
  BY <1>1, <1>2, <1>4, Redirected, GetShape DEF Logout
<1>5. CASE Acknowledge(t)
  <2>1. IsGet(request[t].carries)
    BY <1>5 DEF Acknowledge, Admitted, Inv, Shapes, Browsing
  <2>2. request[t].carries.method = "GET"
    BY <2>1 DEF IsGet
  <2> QED
    BY <1>1, <1>2, <1>5, <2>2, Redirected DEF Acknowledge
<1>6. CASE Review(t)
  <2>1. CASE Redirect(t, Get(NothingPending, request[t].member), cookie)
    BY <1>1, <1>2, <1>6, <2>1, Redirected, GetShape DEF Review
  <2>2. CASE Show(t, Page("review", request[t].member, sessions[request[t].token].pending))
    BY <1>1, <1>2, <1>6, <2>2, Answered DEF Review, unchangedStore
  <2> QED
    BY <1>6, <2>1, <2>2 DEF Review
<1>7. CASE SignIn(t) \/ Browse(t) \/ Search(t) \/ SubaccountForm(t) \/ Confirmation(t)
  <2>1. cookie' = cookie
    BY <1>7 DEF SignIn, Browse, Search, SubaccountForm, Confirmation
  <2>2. \/ \E at \in {"home", "search", "details", "error", "form", "confirmation"} : \E m, x :
              Show(t, Page(at, m, x))
        \/ \E path, m : Redirect(t, Get(path, m), cookie)
    BY <1>7 DEF SignIn, Browse, Search, SubaccountForm, Confirmation, Details
  <2> QED
    BY <1>1, <1>2, <2>1, <2>2, Redirected, Answered, GetShape
<1> QED
  BY <1>3, <1>4, <1>5, <1>6, <1>7

LEMMA AdmitFaithful ==
    ASSUME NoneIsNoRecord, Inv, OneTabInv, NEW t \in Tabs, Admit(t)
    PROVE  OneTabInv'
<1> DEFINE r == request[t]
<1> SUFFICES ASSUME InOneTab'
             PROVE  OpensWhatWasReviewed' /\ \A u \in Tabs : (Faithful(u))'
  BY DEF OneTabInv
<1>1. request[t] # None /\ accounts' = accounts
  BY DEF Admit
<1>2. ASSUME OpensWhatWasReviewed PROVE OpensWhatWasReviewed'
  BY <1>1, <1>2 DEF OpensWhatWasReviewed
<1>3. CASE cookie' = 0 /\ Redirect(t, Get("login", None), 0)
  BY <1>1, <1>2, <1>3, Redirected, GetShape
<1>4. CASE \E x : Show(t, Page("notice", None, x))
  BY <1>1, <1>2, <1>4, Answered
<1>5. CASE request' = [request EXCEPT ![t].admitted = TRUE] /\ UNCHANGED <<sessions, cookie, page>>
  <2>1. IsRequest(r) /\ DOMAIN request = Tabs
    BY <1>1 DEF Inv, Shapes, Browsing
  <2>2. /\ request'[t] = [r EXCEPT !.admitted = TRUE]
        /\ \A u \in Tabs : u # t => request'[u] = request[u]
    BY <1>5, <2>1
  <2>3. /\ request'[t].path = r.path /\ request'[t].method = r.method
        /\ request'[t].carries = r.carries /\ request'[t].token = r.token
        /\ "path" \in DOMAIN request'[t]
    BY <2>1, <2>2 DEF IsRequest
  <2>4. request'[t] # None
    BY <2>3 DEF NoneIsNoRecord
  <2>5. InOneTab
    BY <1>1, <1>5, <2>2, <2>4 DEF InOneTab, IsOpen
  <2>6. OpensWhatWasReviewed /\ \A u \in Tabs : Faithful(u)
    BY <2>5 DEF OneTabInv
  <2> HIDE DEF r
  <2>7. (Faithful(t))'
    BY <1>1, <1>5, <2>3, <2>4, <2>6 DEF Faithful, Unopened, LiveTokens, r
  <2>8. \A u \in Tabs : u # t => (Faithful(u))'
    BY <1>5, <2>2, <2>6 DEF Faithful, Unopened, LiveTokens
  <2> QED
    BY <1>2, <2>6, <2>7, <2>8
<1> QED
  BY <1>3, <1>4, <1>5 DEF Admit

LEMMA ConfirmFaithful ==
    ASSUME NoneIsNoRecord, Inv, OneTabInv, NEW t \in Tabs, Confirm(t)
    PROVE  OneTabInv'
<1> DEFINE r == request[t]
           s == sessions[r.token]
           account == [no |-> Len(accounts) + 1, member |-> r.member, request |-> ToOpen(s),
                       by |-> s.operator, reviewed |-> r.carries]
           g == [Get("confirmation", r.member) EXCEPT !.carries = confirmationSeq']
<1> SUFFICES ASSUME InOneTab'
             PROVE  OpensWhatWasReviewed' /\ \A u \in Tabs : (Faithful(u))'
  BY DEF OneTabInv
<1>1. /\ r # None /\ r.path = "confirm" /\ r.method = "POST" /\ r.token \in LiveTokens
      /\ cookie' = cookie
  BY DEF Confirm, HasSession, Admitted
<1>2. CASE /\ accounts' = accounts
           /\ \/ Redirect(t, Get(NothingPending, r.member), cookie)
              \/ Show(t, Page("error", None, None))
  <2>1. OpensWhatWasReviewed /\ \A u \in Tabs : (Faithful(u))'
    BY <1>1, <1>2, Redirected, Answered, GetShape
  <2> QED
    BY <1>2, <2>1 DEF OpensWhatWasReviewed
<1>3. CASE /\ s.pending # None
           /\ accounts' = Append(accounts, account)
           /\ Redirect(t, g, cookie)
  <2>1. g.method = "GET"
    BY GetShape
  <2>2. Redirect(t, g, cookie)
    BY <1>3
  <2> HIDE DEF g
  <2>3. /\ OpensWhatWasReviewed /\ r.token = cookie /\ Faithful(t)
        /\ \A u \in Tabs : (Faithful(u))'
    BY <1>1, <2>1, <2>2, Redirected
  <2>4. r.carries = s.pending
    BY <1>1, <1>3, <2>3 DEF Faithful, Unopened
  <2>5. account.request = account.reviewed
    BY <2>4 DEF ToOpen
  <2>6. accounts' = Append(accounts, account)
    BY <1>3
  <2>7. PICK S : accounts \in Seq(S)
    BY DEF Inv, Shapes, Stored
  <2> HIDE DEF account
  <2>8. /\ DOMAIN accounts' = 1 .. Len(accounts) + 1 /\ DOMAIN accounts = 1 .. Len(accounts)
        /\ accounts'[Len(accounts) + 1] = account
        /\ \A i \in DOMAIN accounts : accounts'[i] = accounts[i]
        /\ Len(accounts) \in Nat
    BY <2>6, <2>7
  <2>9. OpensWhatWasReviewed'
    BY <2>3, <2>5, <2>8 DEF OpensWhatWasReviewed
  <2> QED
    BY <2>3, <2>9
<1> QED
  BY <1>2, <1>3 DEF Confirm

LEMMA ClickFaithful ==
    ASSUME NoneIsNoRecord, Inv, OneTabInv, NEW t \in Tabs, NEW u \in Tabs, Click(t, u)
    PROVE  OneTabInv'
<1> SUFFICES ASSUME InOneTab'
             PROVE  OpensWhatWasReviewed' /\ \A v \in Tabs : (Faithful(v))'
  BY DEF OneTabInv
<1>1. PICK r, n : r \in Links(page[u]) /\ request' = [request EXCEPT ![t] = Numbered(r, cookie, n)]
  BY DEF Click
<1>2. /\ UNCHANGED <<sessions, accounts, page, cookie>>
      /\ page[u] # None /\ request[t] = None
  BY DEF Click
<1>3. /\ request'[t] = Numbered(r, cookie, n)
      /\ \A v \in Tabs : v # t => request'[v] = request[v]
  BY <1>1 DEF Inv, Shapes, Browsing
<1>4. /\ request'[t] # None /\ request'[t].token = cookie
      /\ request'[t].path = r.path /\ request'[t].method = r.method
      /\ request'[t].carries = r.carries
  BY <1>3 DEF Numbered, NoneIsNoRecord
<1>5. t = u
  BY <1>2, <1>4 DEF InOneTab, IsOpen
<1>6. InOneTab
  BY <1>2, <1>3, <1>4, <1>5 DEF InOneTab, IsOpen
<1>7. OpensWhatWasReviewed /\ \A v \in Tabs : Faithful(v)
  BY <1>6 DEF OneTabInv
<1>8. r.path = "confirm" => page[t].at = "review" /\ r.carries = page[t].shows
  BY <1>1, <1>5 DEF Links, Get, Post
<1>9. (Faithful(t))'
  BY <1>2, <1>4, <1>5, <1>7, <1>8 DEF Faithful, Unopened, LiveTokens
<1>10. \A v \in Tabs : v # t => (Faithful(v))'
  BY <1>2, <1>3, <1>7 DEF Faithful, Unopened, LiveTokens
<1> QED
  BY <1>2, <1>7, <1>9, <1>10 DEF OpensWhatWasReviewed

LEMMA NextFaithful ==
    ASSUME NoneIsNoRecord
    PROVE  Inv /\ OneTabInv /\ [Next]_vars => OneTabInv'
<1> SUFFICES ASSUME Inv, OneTabInv, [Next]_vars PROVE OneTabInv'
  OBVIOUS
<1>1. ASSUME UNCHANGED <<page, request, cookie>>,
             \/ UNCHANGED <<sessions, accounts>>
             \/ sessions' = <<>> /\ accounts' = <<>>
      PROVE  OneTabInv'
  <2>1. InOneTab' => InOneTab
    BY <1>1 DEF InOneTab, IsOpen
  <2>2. OpensWhatWasReviewed => OpensWhatWasReviewed'
    BY <1>1 DEF OpensWhatWasReviewed
  <2>3. \A t \in Tabs : Faithful(t) => (Faithful(t))'
    BY <1>1 DEF Faithful, Unopened, LiveTokens
  <2> QED
    BY <2>1, <2>2, <2>3 DEF OneTabInv
<1>2. CASE Inject \/ Reset \/ UNCHANGED vars
  BY <1>1, <1>2 DEF Inject, Reset, vars
<1> QED
  BY <1>2, AnswersFaithful, AdmitFaithful, ConfirmFaithful, ClickFaithful
     DEF Next, Serve, Handle

LEMMA InitFaithful == Init => OneTabInv
<1> SUFFICES ASSUME Init PROVE OneTabInv
  OBVIOUS
<1>1. \A t \in Tabs : request[t] = None /\ page[t] \in {None, LoginPage}
  BY DEF Init
<1>2. \A t \in Tabs : Faithful(t)
  BY <1>1 DEF Faithful, LoginPage, Page
<1> QED
  BY <1>2 DEF OneTabInv, OpensWhatWasReviewed, Init

\* Where no second tab is opened, as when the automation works alone, what
\* subaccount_confirm opens is what the page of subaccount_review had shown.
THEOREM OneTabOpensTheReviewed ==
    ASSUME NoneIsNoRecord
    PROVE  Spec => []OneTabOpensWhatWasReviewed
<1>1. OneTabInv => OneTabOpensWhatWasReviewed
  BY DEF OneTabInv, OneTabOpensWhatWasReviewed
<1> QED
  BY <1>1, InitFaithful, NextFaithful, Invariance, PTL DEF Spec
=============================================================================
