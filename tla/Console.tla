------------------------------ MODULE Console -------------------------------
(***************************************************************************)
(* The web console (App.tsx, api.ts): one page over the control plane.     *)
(* Requests are in flight at the same time and are answered in any order;  *)
(* an answer is handled by a closure that remembers the state of the       *)
(* moment the request was sent, and handled whoever is logged in by then.  *)
(* The page polls, so what an old answer spoilt is mended by a later one.  *)
(*                                                                         *)
(* Of a run the page shows its version; 0 stands for "not there".  The     *)
(* server is what the requests meet (main.py); workers move runs on.       *)
(***************************************************************************)
EXTENDS Naturals, FiniteSets, SequencesExt

CONSTANTS
  User, NoUser,  \* each the only user of his tenant
  Run, NoRun,
  TenantOf,      \* the user whose tenant each run is of
  MaxWork,       \* bound: what workers do to runs
  MaxLogins,     \* bound: log-ins
  MaxClicks,     \* bound: what else users do with runs
  MaxReads,      \* bound: no refresh is sent while as many reads are in flight
  MaxFailures    \* bound: requests that fail on their way

ASSUME ConsoleAssumption ==
  /\ NoUser \notin User /\ NoRun \notin Run
  /\ TenantOf \in [Run -> User]
  /\ {MaxWork, MaxClicks, MaxReads, MaxFailures} \subseteq Nat
  /\ MaxLogins \in Nat \ {0}   \* a token in storage is of a log-in

VARIABLES
  version,   \* server: the version of each run
  sessions,  \* server: whose access token each session's is
  token,     \* sessionStorage: the session, 0 if there is none
  user,      \* who the page says is logged in
  runs,      \* the versions of the runs the page lists
  jobs,      \* jobsByRun: for each run, whose jobs are kept for it
  selected,  \* selectedRunId
  loading,
  busy,      \* the buttons are disabled
  flights,   \* the requests in flight, answered or not
  stray,     \* history: since the login, another identity's answer came in
  worked, logins, clicks, failures  \* history: how often workers changed
             \* a run, users logged in and did something with a run, and how
             \* many requests failed

serverVars == <<version, sessions>>
pageVars == <<token, user, runs, jobs, selected>>
historyVars == <<worked, logins, clicks, failures>>
vars == <<serverVars, pageVars, loading, busy, flights, stray, historyVars>>

Session == 0..MaxLogins
Version == 0..1 + MaxWork + MaxClicks
Content == [Run -> Version]
Nothing == [r \in Run |-> 0]
Only(r, v) == [Nothing EXCEPT ![r] = v]
Visible(u) == [r \in Run |-> IF TenantOf[r] = u THEN version[r] ELSE 0]

-----------------------------------------------------------------------------
(* Requests.  The token is read from the storage when one is sent.         *)
Kind == {"me", "login", "load", "refresh", "jobs", "start", "decide", "retry"}

Flight == [kind : Kind,
           session : Session,
           who : User \union {NoUser},     \* login: the name given
           run : Run \union {NoRun},       \* the run asked about or selected
           seen : Version,           \* expected_version
           ends : {"busy", "loading", "nothing"},  \* what its "finally" resets
           answered : BOOLEAN,
           content : Content]

Request(kind, session, run, ends) ==
  [kind |-> kind, session |-> session, who |-> NoUser, run |-> run, seen |-> 0,
   ends |-> ends, answered |-> FALSE, content |-> Nothing]

OfKind(kind) == {f \in flights : f.kind = kind}

TypeOK ==
  /\ version \in [Run -> Version]
  /\ sessions \in Seq(User) /\ Len(sessions) <= MaxLogins
  /\ token \in {0} \union DOMAIN sessions
  /\ user \in User \union {NoUser}
  /\ runs \in Content
  /\ jobs \in [Run -> Run \union {NoRun}]
  /\ selected \in Run \union {NoRun}
  /\ flights \subseteq Flight
  /\ {loading, busy, stray} \subseteq BOOLEAN
  /\ busy => \E f \in flights : f.ends = "busy"
  /\ loading => \E f \in flights : f.ends = "loading"
  /\ worked \in Nat /\ logins \in Nat /\ clicks \in Nat /\ failures \in Nat

(* A page opened for the first time, or again with the token in storage.   *)
Init ==
  /\ version \in {[r \in Run |-> IF r \in present THEN 1 ELSE 0] : present \in SUBSET Run}
  /\ user = NoUser
  /\ runs = Nothing
  /\ jobs = [r \in Run |-> NoRun]
  /\ selected = NoRun
  /\ busy = FALSE
  /\ stray = FALSE
  /\ worked = 0 /\ clicks = 0 /\ failures = 0
  /\ \/ /\ sessions = <<>>
        /\ logins = 0
        /\ token = 0
        /\ loading = FALSE
        /\ flights = {}
     \/ /\ sessions \in {<<u>> : u \in User}
        /\ logins = 1
        /\ token = 1
        /\ loading = TRUE
        /\ flights = {Request("me", 1, NoRun, "loading")}

-----------------------------------------------------------------------------
(* The page after a turn: the effect on [selectedRunId, user] asks for the *)
(* jobs of a run that is selected now or is shown to somebody else now.    *)
Turn(inFlight) ==
  flights' = inFlight \union
    IF user' # NoUser /\ selected' # NoRun /\ <<user', selected'>> # <<user, selected>>
    THEN {Request("jobs", token', selected', "nothing")}
    ELSE {}

ClearProtectedState ==
  /\ runs' = Nothing
  /\ jobs' = [r \in Run |-> NoRun]
  /\ selected' = NoRun

Logout ==
  /\ token' = 0
  /\ user' = NoUser
  /\ ClearProtectedState

(* Mutant: a failure is shown, whichever it is. *)
ShowFailure(outcome) == UNCHANGED pageVars

HandleFailure(outcome) ==
  IF outcome = "unauthorized" THEN Logout ELSE UNCHANGED pageVars

Ended(f) ==
  /\ busy' = (busy /\ f.ends # "busy")
  /\ loading' = (loading /\ f.ends # "loading")

GoesOn == UNCHANGED <<busy, loading>>

(* An answer is rendered, whoever asked for it. *)
Rendered(f) == stray' = (stray \/ sessions[f.session] # user)

(* Mutant: the lists are cleared when one logs out only. *)
KeepState == UNCHANGED <<runs, jobs, selected>>

ClearBeforeLogin == ClearProtectedState

-----------------------------------------------------------------------------
(* Answers: one handler for each kind of request.                          *)
MeAnswered(f, outcome) ==
  /\ IF outcome = "ok"
     THEN /\ user' = sessions[f.session]
          /\ UNCHANGED <<token, runs, jobs, selected>>
          /\ Turn((flights \ {f}) \union {Request("load", token', NoRun, "loading")})
          /\ GoesOn
     ELSE HandleFailure(outcome) /\ Turn(flights \ {f}) /\ Ended(f)
  /\ UNCHANGED stray

(* Mutant: a token that is in the storage already is kept. *)
KeepToken(f) == IF token # 0 THEN token ELSE f.session

SaveToken(f) == f.session

LoginAnswered(f, outcome) ==
  IF outcome = "ok"
  THEN /\ token' = SaveToken(f)
       /\ user' = f.who
       /\ ClearBeforeLogin
       /\ Turn((flights \ {f}) \union {Request("load", token', NoRun, "busy")})
       /\ stray' = FALSE
       /\ GoesOn
  ELSE /\ token' = 0
       /\ UNCHANGED <<user, runs, jobs, selected, stray>>
       /\ Turn(flights \ {f})
       /\ Ended(f)

(* loadProtected, of the login or of the start of the page.  A failure     *)
(* clears the token under a login and leaves the user there.               *)
LoadAnswered(f, outcome) ==
  /\ IF outcome = "ok"
     THEN /\ runs' = f.content
          /\ LET listed == {r \in Run : f.content[r] > 0}
             IN IF selected = NoRun /\ listed # {} THEN selected' \in listed
                ELSE UNCHANGED selected
          /\ UNCHANGED <<token, user, jobs>>
          /\ Rendered(f)
     ELSE /\ IF f.ends = "busy" THEN token' = 0 /\ UNCHANGED <<user, runs, jobs, selected>>
             ELSE HandleFailure(outcome)
          /\ UNCHANGED stray
  /\ Turn(flights \ {f})
  /\ Ended(f)

RefreshAnswered(f, outcome) ==
  IF outcome = "ok"
  THEN /\ runs' = f.content
       /\ UNCHANGED <<token, user, jobs, selected>>
       /\ Rendered(f)
       /\ IF f.run # NoRun
          THEN Turn((flights \ {f}) \union {Request("jobs", token, f.run, f.ends)}) /\ GoesOn
          ELSE Turn(flights \ {f}) /\ Ended(f)
  ELSE HandleFailure(outcome) /\ Turn(flights \ {f}) /\ Ended(f) /\ UNCHANGED stray

(* Mutant: the answer is kept under the run that is selected now. *)
UnderSelected(f) == IF selected = NoRun THEN f.run ELSE selected

UnderItsRun(f) == f.run

JobsAnswered(f, outcome) ==
  /\ IF outcome = "ok"
     THEN /\ jobs' = [jobs EXCEPT ![UnderItsRun(f)] = f.run]
          /\ UNCHANGED <<token, user, runs, selected>>
          /\ Rendered(f)
     ELSE HandleFailure(outcome) /\ UNCHANGED stray
  /\ Turn(flights \ {f})
  /\ Ended(f)

(* Mutant: nothing is reset after the refresh. *)
FollowUpOnly(f) == Request("refresh", token', f.run, "nothing")

(* The refresh a closure sends when its request is answered. *)
FollowUp(f) == Request("refresh", token', f.run, f.ends)

(* startRun.  The refresh that follows knows the run selected before.      *)
StartAnswered(f, outcome) ==
  IF outcome = "ok"
  THEN LET r == CHOOSE r \in Run : f.content[r] > 0
       IN /\ jobs' = [jobs EXCEPT ![r] = NoRun]
          /\ selected' = r
          /\ runs' = [runs EXCEPT ![r] = f.content[r]]
          /\ UNCHANGED <<token, user>>
          /\ Turn((flights \ {f}) \union {FollowUp(f)})
          /\ Rendered(f)
          /\ GoesOn
  ELSE HandleFailure(outcome) /\ Turn(flights \ {f}) /\ Ended(f) /\ UNCHANGED stray

(* decide, and retry and cancel, which do not refresh after a failure.     *)
ActAnswered(f, outcome) ==
  IF outcome = "ok"
  THEN /\ runs' = [runs EXCEPT ![f.run] = IF @ > 0 THEN f.content[f.run] ELSE 0]
       /\ UNCHANGED <<token, user, jobs, selected>>
       /\ Turn((flights \ {f}) \union {FollowUp(f)})
       /\ Rendered(f)
       /\ GoesOn
  ELSE /\ HandleFailure(outcome)
       /\ UNCHANGED stray
       /\ IF f.kind = "decide"
          THEN Turn((flights \ {f}) \union {FollowUp(f)}) /\ GoesOn
          ELSE Turn(flights \ {f}) /\ Ended(f)

OwnRun(f) == TenantOf[f.run] = sessions[f.session]

(* What may become of a request but an answer: a token that has expired    *)
(* or is missing, a wrong password, a run of another tenant, a refusal for *)
(* what the user or the run is.  None of them reads what others change, so *)
(* they are found when they are handled.                                   *)
Refused(f) ==
  \/ f.kind \in {"login", "start", "decide", "retry"}
  \/ f.kind = "jobs" /\ f.session # 0 /\ ~OwnRun(f)

Refusals(f) ==
  {o \in {"unauthorized", "failed"} :
     IF o = "failed" THEN Refused(f) ELSE f.kind # "login"}

Handle(f, outcome) ==
  /\ \/ f.kind = "me" /\ MeAnswered(f, outcome)
     \/ f.kind = "login" /\ LoginAnswered(f, outcome)
     \/ f.kind = "load" /\ LoadAnswered(f, outcome)
     \/ f.kind = "refresh" /\ RefreshAnswered(f, outcome)
     \/ f.kind = "jobs" /\ JobsAnswered(f, outcome)
     \/ f.kind = "start" /\ StartAnswered(f, outcome)
     \/ f.kind \in {"decide", "retry"} /\ ActAnswered(f, outcome)
  /\ UNCHANGED <<serverVars, worked, logins, clicks>>

Receive(f) ==
  /\ \/ f.answered /\ Handle(f, "ok")
     \/ ~f.answered /\ \E outcome \in Refusals(f) : Handle(f, outcome)
  /\ UNCHANGED failures

(* The request or its answer is lost, or the server cannot answer.         *)
Lose(f) ==
  /\ failures < MaxFailures
  /\ failures' = failures + 1
  /\ Handle(f, "failed")

-----------------------------------------------------------------------------
(* What users do, and the timer.                                           *)
(* The login page, not disabled. *)
Login(u) ==
  /\ user = NoUser /\ ~loading /\ ~busy
  /\ logins < MaxLogins
  /\ logins' = logins + 1
  /\ busy' = TRUE
  /\ flights' = flights \union {[Request("login", 0, NoRun, "busy") EXCEPT !.who = u]}
  /\ UNCHANGED <<serverVars, pageVars, loading, stray, worked, clicks, failures>>

AtConsole == user # NoUser /\ ~loading

LogoutClick ==
  /\ AtConsole
  /\ Logout
  /\ UNCHANGED <<serverVars, flights, loading, busy, stray, historyVars>>

Click ==
  /\ AtConsole
  /\ clicks < MaxClicks
  /\ clicks' = clicks + 1
  /\ UNCHANGED <<serverVars, worked, logins, failures>>

OpenRun(r) ==
  /\ Click
  /\ runs[r] > 0 /\ selected # r
  /\ selected' = r
  /\ UNCHANGED <<token, user, runs, jobs, loading, busy, stray>>
  /\ Turn(flights)

StartRun ==
  /\ Click
  /\ ~busy
  /\ busy' = TRUE
  /\ flights' = flights \union {Request("start", token, selected, "busy")}
  /\ UNCHANGED <<pageVars, loading, stray>>

Decide(kind) ==
  /\ Click
  /\ ~busy
  /\ selected # NoRun /\ runs[selected] > 0
  /\ busy' = TRUE
  /\ flights' = flights \union
       {[Request(kind, token, selected, "busy") EXCEPT !.seen = runs[selected]]}
  /\ UNCHANGED <<pageVars, loading, stray>>

(* setInterval, and the button that refreshes. *)
RefreshOperations ==
  /\ user # NoUser
  /\ Cardinality(OfKind("refresh") \union OfKind("jobs")) < MaxReads
  /\ flights' = flights \union {Request("refresh", token, selected, "nothing")}
  /\ UNCHANGED <<serverVars, pageVars, loading, busy, stray, historyVars>>

-----------------------------------------------------------------------------
(* The server. *)
Answer(f, content) ==
  flights' = (flights \ {f}) \union
    {[f EXCEPT !.answered = TRUE, !.content = content, !.seen = 0]}

ServeLogin(f) ==
  /\ f.kind = "login"
  /\ sessions' = Append(sessions, f.who)
  /\ flights' = (flights \ {f}) \union
       {[f EXCEPT !.answered = TRUE, !.session = Len(sessions')]}
  /\ UNCHANGED version

ServeRead(f) ==
  /\ f.session # 0
  /\ \/ f.kind = "me" /\ Answer(f, Nothing)
     \/ f.kind \in {"load", "refresh"} /\ Answer(f, Visible(sessions[f.session]))
     \/ f.kind = "jobs" /\ OwnRun(f) /\ Answer(f, Nothing)
  /\ UNCHANGED serverVars

ServeStart(f) ==
  /\ f.kind = "start"
  /\ f.session # 0
  /\ \E r \in Run :
       /\ version[r] = 0 /\ TenantOf[r] = sessions[f.session]
       /\ version' = [version EXCEPT ![r] = 1]
       /\ Answer(f, Only(r, 1))
  /\ UNCHANGED sessions

(* decide, retry and cancel compare the version first. *)
ServeAct(f) ==
  /\ f.kind \in {"decide", "retry"}
  /\ f.session # 0
  /\ OwnRun(f)
  /\ version[f.run] = f.seen
  /\ version' = [version EXCEPT ![f.run] = @ + 1]
  /\ Answer(f, Only(f.run, version[f.run] + 1))
  /\ UNCHANGED sessions

Serve(f) ==
  /\ ~f.answered
  /\ ServeLogin(f) \/ ServeRead(f) \/ ServeStart(f) \/ ServeAct(f)
  /\ UNCHANGED <<pageVars, loading, busy, stray, historyVars>>

Work(r) ==
  /\ version[r] > 0
  /\ worked < MaxWork
  /\ worked' = worked + 1
  /\ version' = [version EXCEPT ![r] = @ + 1]
  /\ UNCHANGED <<sessions, pageVars, loading, busy, flights, stray, logins, clicks, failures>>

-----------------------------------------------------------------------------
Next ==
  \/ \E f \in flights : Receive(f) \/ Serve(f) \/ Lose(f)
  \/ \E u \in User : Login(u)
  \/ \E r \in Run : OpenRun(r) \/ Work(r)
  \/ \E kind \in {"decide", "retry"} : Decide(kind)
  \/ LogoutClick \/ StartRun \/ RefreshOperations

Spec == Init /\ [][Next]_vars

(* The timer ticks, and requests are answered, or refused, and handled:    *)
(* some of those that hold the buttons, of those that hold the page and of *)
(* the others.                                                             *)
Conclude(ends) == \E f \in flights : f.ends = ends /\ Receive(f)

Fairness ==
  /\ WF_vars(RefreshOperations)
  /\ \A ends \in {"busy", "loading", "nothing"} : WF_vars(Conclude(ends))

FairSpec == Spec /\ Fairness

-----------------------------------------------------------------------------
(* Who the page says is logged in is whose token it sends, so that what is *)
(* done on the page is done in the name on the page: logging in and out,   *)
(* expiry and answers of earlier sessions never tear the two apart.        *)
IdentityMatches ==
  user # NoUser /\ token # 0 => sessions[token] = user

(* "An older, slower request can never be rendered under a newly selected  *)
(* run": what is kept for a run is about it.                               *)
JobsOwn ==
  \A r \in Run : jobs[r] \in {r, NoRun}

(* Nothing another identity left on the page is shown under this one: a    *)
(* run of another tenant is there only when an answer to a request of that *)
(* identity came in after this one logged in.                              *)
ForeignExplained ==
  LET shown == {r \in Run : runs[r] > 0 \/ jobs[r] # NoRun \/ selected = r}
  IN user # NoUser /\ ~stray => \A r \in shown : TenantOf[r] = user

(* When users and workers come to rest, the page does too: no button stays *)
(* disabled, and a page with a user on it has his session and his runs as  *)
(* they are, whatever answers came late, failed or were another's.         *)
Settles ==
  <>[](~loading /\ ~busy /\ (user # NoUser => token # 0 /\ runs = Visible(user)))
=============================================================================
