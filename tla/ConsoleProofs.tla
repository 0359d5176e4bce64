---------------------------- MODULE ConsoleProofs ----------------------------
(***************************************************************************)
(* Proofs about Console, for every set of users and runs, and every value  *)
(* of the bounds: what is on the page belongs together, in whatever order  *)
(* the answers of whichever session come in.                               *)
(***************************************************************************)
EXTENDS Console, TLAPS

(* ------------------------------ The invariant --------------------------- *)

(* A request of one of the first n sessions, or of none. *)
RequestOf(n) ==
  [kind : Kind, session : 0..n, who : User \union {NoUser}, run : Run \union {NoRun},
   seen : Nat, ends : {"busy", "loading", "nothing"}, answered : BOOLEAN,
   content : [Run -> Nat]]

(* What the server's answers are about: the one who asked. *)
Honest(f) ==
  /\ f.kind = "login" => f.who \in User
  /\ f.kind = "jobs" => f.run \in Run
  /\ f.answered => f.session # 0
  /\ f.answered /\ f.kind = "login" => sessions[f.session] = f.who
  /\ f.answered /\ f.kind \in {"load", "refresh", "start"} =>
       \A r \in Run : f.content[r] > 0 => TenantOf[r] = sessions[f.session]
  /\ f.answered /\ f.kind = "start" => \E r \in Run : f.content[r] > 0
  /\ f.answered /\ f.kind = "jobs" => TenantOf[f.run] = sessions[f.session]

Good(f) == f \in RequestOf(Len(sessions)) /\ Honest(f)

ServerOK ==
  /\ version \in [Run -> Nat]
  /\ sessions \in Seq(User)

PageOK ==
  /\ token \in 0..Len(sessions)
  /\ user \in User \union {NoUser}
  /\ runs \in [Run -> Nat]
  /\ jobs \in [Run -> Run \union {NoRun}]
  /\ selected \in Run \union {NoRun}
  /\ stray \in BOOLEAN
  /\ IdentityMatches
  /\ JobsOwn
  /\ ForeignExplained

(* Until the page that was opened with a token in storage has learnt whose *)
(* it is, nothing else happens to it.                                      *)
Opening ==
  \A f \in flights : f.kind = "me" =>
    /\ flights = {f}
    /\ token \in {0, f.session}
    /\ loading
    /\ user = NoUser
    /\ runs = Nothing
    /\ jobs = [r \in Run |-> NoRun]
    /\ selected = NoRun

Inv ==
  /\ ServerOK
  /\ PageOK
  /\ \A f \in flights : Good(f)
  /\ Opening

(* -------------------------------- Requests ------------------------------ *)

(* A request just sent promises nothing yet.                               *)
LEMMA NewRequest ==
  ASSUME NEW kind \in Kind \ {"me", "login"}, NEW session \in 0..Len(sessions),
         NEW r \in Run \union {NoRun}, NEW ends \in {"busy", "loading", "nothing"},
         kind = "jobs" => r \in Run
  PROVE  Good(Request(kind, session, r, ends)) /\ Request(kind, session, r, ends).kind # "me"
  BY DEF Good, Honest, Request, RequestOf, Nothing

(* What is in flight after a turn of the page.                             *)
LEMMA TurnRequests ==
  ASSUME NEW S, \A f \in S : Good(f), Turn(S),
         token' \in 0..Len(sessions), selected' \in Run \union {NoRun}
  PROVE  \A f \in flights' : Good(f) /\ (f \in S \/ f.kind # "me")
<1>1. CASE selected' # NoRun
  <2>1. /\ Good(Request("jobs", token', selected', "nothing"))
        /\ Request("jobs", token', selected', "nothing").kind # "me"
    BY <1>1, NewRequest DEF Kind
  <2>2. flights' \subseteq S \union {Request("jobs", token', selected', "nothing")}
    BY DEF Turn
  <2>3. QED
    BY <2>1, <2>2
<1>2. CASE selected' = NoRun
  BY <1>2 DEF Turn
<1>3. QED
  BY <1>1, <1>2

(* An answer has been handled: what is left to show is the page itself and *)
(* the requests it sent.                                                   *)
LEMMA Handled ==
  ASSUME Inv, NEW f \in flights, UNCHANGED serverVars, PageOK',
         NEW S, \A g \in S : g \in flights \ {f} \/ (Good(g) /\ g.kind # "me"),
         Turn(S)
  PROVE  Inv'
<1>1. sessions' = sessions /\ version' = version
  BY DEF serverVars
<1>2. \A g \in S : Good(g) /\ g.kind # "me"
  BY DEF Inv, Opening
<1>3. \A g \in flights' : Good(g) /\ g.kind # "me"
  BY <1>1, <1>2, TurnRequests DEF PageOK
<1>4. \A g \in flights' : Good(g)'
  BY <1>1, <1>3 DEF Good, Honest
<1>5. Opening'
  BY <1>3 DEF Opening
<1>6. QED
  BY <1>1, <1>4, <1>5 DEF Inv, ServerOK

(* ------------------------------- The page ------------------------------- *)

(* The runs that are on the page. *)
Shown == {r \in Run : runs[r] > 0 \/ jobs[r] # NoRun \/ selected = r}

LEMMA ClearedPage ==
  ASSUME ClearProtectedState
  PROVE  /\ runs' \in [Run -> Nat]
         /\ jobs' \in [Run -> Run \union {NoRun}]
         /\ selected' \in Run \union {NoRun}
         /\ JobsOwn'
         /\ ForeignExplained'
<1>1. \A r \in Run : r # NoRun
  BY ConsoleAssumption
<1>2. /\ runs' = [r \in Run |-> 0]
      /\ jobs' = [r \in Run |-> NoRun]
      /\ selected' = NoRun
  BY DEF ClearProtectedState, Nothing
<1>3. \A r \in Run : ~(runs'[r] > 0 \/ jobs'[r] # NoRun \/ selected' = r)
  BY <1>1, <1>2
<1>4. QED
  BY <1>2, <1>3 DEF JobsOwn, ForeignExplained

LEMMA LogoutPage ==
  ASSUME ServerOK, PageOK, Logout, sessions' = sessions, UNCHANGED stray
  PROVE  PageOK'
<1>1. 0 \in 0..Len(sessions)
  BY DEF ServerOK
<1>2. QED
  BY <1>1, ClearedPage DEF PageOK, Logout, IdentityMatches

(* Nothing of the page changes.                                            *)
LEMMA SamePage ==
  ASSUME PageOK, UNCHANGED pageVars, sessions' = sessions, UNCHANGED stray
  PROVE  PageOK'
  BY DEF PageOK, pageVars, IdentityMatches, JobsOwn, ForeignExplained

LEMMA FailurePage ==
  ASSUME ServerOK, PageOK, NEW outcome, HandleFailure(outcome),
         sessions' = sessions, UNCHANGED stray
  PROVE  PageOK'
  BY LogoutPage, SamePage DEF HandleFailure

(* The token is cleared, and all else stays.                               *)
LEMMA TokenClearedPage ==
  ASSUME ServerOK, PageOK, token' = 0, UNCHANGED <<user, runs, jobs, selected, stray>>,
         sessions' = sessions
  PROVE  PageOK'
<1>1. 0 \in 0..Len(sessions)
  BY DEF ServerOK
<1>2. QED
  BY <1>1 DEF PageOK, IdentityMatches, JobsOwn, ForeignExplained

(* An answer is rendered: what it puts on the page is its session's, and   *)
(* if nothing stray is there, the session is the one that is logged in.    *)
LEMMA RenderedPage ==
  ASSUME ServerOK, PageOK, NEW f, f.session \in 1..Len(sessions), Rendered(f),
         sessions' = sessions, UNCHANGED <<token, user>>,
         runs' \in [Run -> Nat],
         jobs' \in [Run -> Run \union {NoRun}],
         selected' \in Run \union {NoRun},
         JobsOwn',
         \A r \in Shown' : r \in Shown \/ TenantOf[r] = sessions[f.session]
  PROVE  PageOK'
<1>1. sessions[f.session] \in User /\ NoUser \notin User
  BY ConsoleAssumption DEF ServerOK
<1>2. IdentityMatches'
  BY DEF PageOK, IdentityMatches
<1>3. stray' \in BOOLEAN
  BY DEF Rendered, PageOK
<1>4. ForeignExplained'
  <2>1. SUFFICES ASSUME user # NoUser, ~stray', NEW r \in Shown'
                 PROVE  TenantOf[r] = user
    BY DEF ForeignExplained, Shown
  <2>2. ~stray /\ sessions[f.session] = user
    BY <2>1 DEF Rendered, PageOK
  <2>3. r \in Shown => TenantOf[r] = user
    BY <2>1, <2>2 DEF PageOK, ForeignExplained, Shown
  <2>4. QED
    BY <2>1, <2>2, <2>3
<1>5. QED
  BY <1>2, <1>3, <1>4 DEF PageOK

(* -------------------------------- Answers ------------------------------- *)

LEMMA FlightFacts ==
  ASSUME Inv, NEW f \in flights
  PROVE  /\ ServerOK /\ PageOK
         /\ Honest(f)
         /\ f.kind \in Kind
         /\ f.session \in 0..Len(sessions)
         /\ f.answered => f.session \in 1..Len(sessions)
         /\ f.answered => sessions[f.session] \in User
         /\ f.who \in User \union {NoUser}
         /\ f.run \in Run \union {NoRun}
         /\ f.ends \in {"busy", "loading", "nothing"}
         /\ f.answered \in BOOLEAN
         /\ f.content \in [Run -> Nat]
<1>1. /\ ServerOK /\ PageOK
      /\ Honest(f)
      /\ f \in RequestOf(Len(sessions))
  BY DEF Inv, Good
<1>2. Len(sessions) \in Nat
  BY <1>1 DEF ServerOK
<1>3. f.answered => f.session \in 1..Len(sessions)
  BY <1>1, <1>2 DEF RequestOf, Honest
<1>4. f.answered => sessions[f.session] \in User
  BY <1>1, <1>3 DEF ServerOK
<1>5. QED
  BY <1>1, <1>3, <1>4 DEF RequestOf

(* A failure that is shown, or logs the page out, and asks for nothing.    *)
LEMMA FailureHandled ==
  ASSUME Inv, NEW f \in flights, UNCHANGED serverVars, UNCHANGED stray,
         NEW outcome, HandleFailure(outcome), Turn(flights \ {f})
  PROVE  Inv'
<1>1. PageOK'
  BY FlightFacts, FailurePage DEF serverVars
<1>2. QED
  BY <1>1, Handled

LEMMA MeStep ==
  ASSUME Inv, NEW f \in flights, UNCHANGED serverVars,
         NEW outcome, outcome = "ok" => f.answered,
         f.kind = "me", MeAnswered(f, outcome)
  PROVE  Inv'
<1>1. CASE outcome # "ok"
  BY <1>1, FailureHandled DEF MeAnswered
<1>2. CASE outcome = "ok"
  <2> DEFINE g == Request("load", token', NoRun, "loading")
             S == (flights \ {f}) \union {g}
  <2>1. /\ token \in {0, f.session}
        /\ runs = Nothing
        /\ jobs = [r \in Run |-> NoRun]
        /\ selected = NoRun
    BY DEF Inv, Opening
  <2>2. /\ user' = sessions[f.session]
        /\ UNCHANGED <<token, runs, jobs, selected, stray>>
        /\ sessions' = sessions
        /\ Turn(S)
    BY <1>2 DEF MeAnswered, serverVars
  <2>3. sessions[f.session] \in User
    BY <1>2, FlightFacts
  <2>4. \A r \in Run : ~(runs'[r] > 0 \/ jobs'[r] # NoRun \/ selected' = r)
    BY <2>1, <2>2, ConsoleAssumption DEF Nothing
  <2>5. PageOK'
    BY <2>1, <2>2, <2>3, <2>4, FlightFacts
    DEF PageOK, IdentityMatches, JobsOwn, ForeignExplained
  <2>6. Good(g) /\ g.kind # "me"
    BY <2>2, FlightFacts, NewRequest DEF PageOK, Kind
  <2>7. QED
    BY <2>2, <2>5, <2>6, Handled
<1>3. QED
  BY <1>1, <1>2

LEMMA LoginStep ==
  ASSUME Inv, NEW f \in flights, UNCHANGED serverVars,
         NEW outcome, outcome = "ok" => f.answered,
         f.kind = "login", LoginAnswered(f, outcome)
  PROVE  Inv'
<1>1. CASE outcome # "ok"
  <2>1. PageOK'
    BY <1>1, FlightFacts, TokenClearedPage DEF LoginAnswered, serverVars
  <2>2. QED
    BY <1>1, <2>1, Handled DEF LoginAnswered
<1>2. CASE outcome = "ok"
  <2> DEFINE g == Request("load", token', NoRun, "busy")
             S == (flights \ {f}) \union {g}
  <2>1. /\ token' = f.session
        /\ user' = f.who
        /\ ClearProtectedState
        /\ stray' = FALSE
        /\ sessions' = sessions
        /\ Turn(S)
    BY <1>2 DEF LoginAnswered, SaveToken, ClearBeforeLogin, serverVars
  <2>2. /\ f.who \in User
        /\ sessions[f.session] = f.who
        /\ f.session \in 0..Len(sessions)
    BY <1>2, FlightFacts DEF Honest
  <2>3. IdentityMatches'
    BY <2>1, <2>2 DEF IdentityMatches
  <2>4. PageOK'
    BY <2>1, <2>2, <2>3, ClearedPage DEF PageOK
  <2>5. Good(g) /\ g.kind # "me"
    BY <2>1, <2>2, NewRequest DEF Kind
  <2>6. QED
    BY <2>1, <2>4, <2>5, Handled
<1>3. QED
  BY <1>1, <1>2

LEMMA LoadStep ==
  ASSUME Inv, NEW f \in flights, UNCHANGED serverVars,
         NEW outcome, outcome = "ok" => f.answered,
         f.kind = "load", LoadAnswered(f, outcome)
  PROVE  Inv'
<1>1. Turn(flights \ {f}) /\ sessions' = sessions
  BY DEF LoadAnswered, serverVars
<1>2. CASE outcome # "ok"
  <2>1. PageOK'
    BY <1>1, <1>2, FlightFacts, TokenClearedPage, FailurePage DEF LoadAnswered
  <2>2. QED
    BY <1>1, <2>1, Handled
<1>3. CASE outcome = "ok"
  <2>1. /\ runs' = f.content
        /\ UNCHANGED <<token, user, jobs>>
        /\ Rendered(f)
    BY <1>3 DEF LoadAnswered
  <2>2. \/ selected' = selected
        \/ selected' \in Run /\ f.content[selected'] > 0
    BY <1>3 DEF LoadAnswered
  <2>3. /\ f.session \in 1..Len(sessions)
        /\ f.content \in [Run -> Nat]
        /\ \A r \in Run : f.content[r] > 0 => TenantOf[r] = sessions[f.session]
    BY <1>3, FlightFacts DEF Honest
  <2>4. \A r \in Shown' : r \in Shown \/ TenantOf[r] = sessions[f.session]
    BY <2>1, <2>2, <2>3 DEF Shown
  <2>5. JobsOwn' /\ PageOK /\ ServerOK
    BY <2>1, FlightFacts DEF PageOK, JobsOwn
  <2>6. PageOK'
    BY <1>1, <2>1, <2>2, <2>3, <2>4, <2>5, RenderedPage DEF PageOK
  <2>7. QED
    BY <1>1, <2>6, Handled
<1>4. QED
  BY <1>2, <1>3

LEMMA RefreshStep ==
  ASSUME Inv, NEW f \in flights, UNCHANGED serverVars,
         NEW outcome, outcome = "ok" => f.answered,
         f.kind = "refresh", RefreshAnswered(f, outcome)
  PROVE  Inv'
<1>1. CASE outcome # "ok"
  BY <1>1, FailureHandled DEF RefreshAnswered
<1>2. CASE outcome = "ok"
  <2>1. /\ runs' = f.content
        /\ UNCHANGED <<token, user, jobs, selected>>
        /\ Rendered(f)
        /\ sessions' = sessions
    BY <1>2 DEF RefreshAnswered, serverVars
  <2>2. /\ f.session \in 1..Len(sessions)
        /\ f.content \in [Run -> Nat]
        /\ \A r \in Run : f.content[r] > 0 => TenantOf[r] = sessions[f.session]
    BY <1>2, FlightFacts DEF Honest
  <2>3. \A r \in Shown' : r \in Shown \/ TenantOf[r] = sessions[f.session]
    BY <2>1, <2>2 DEF Shown
  <2>4. JobsOwn' /\ PageOK /\ ServerOK
    BY <2>1, FlightFacts DEF PageOK, JobsOwn
  <2>5. PageOK'
    BY <2>1, <2>2, <2>3, <2>4, RenderedPage DEF PageOK
  <2>6. CASE f.run # NoRun
    <3> DEFINE g == Request("jobs", token, f.run, f.ends)
    <3>1. Good(g) /\ g.kind # "me"
      BY <2>4, <2>6, FlightFacts, NewRequest DEF PageOK, Kind
    <3>2. Turn((flights \ {f}) \union {g})
      BY <1>2, <2>6 DEF RefreshAnswered
    <3>3. QED
      BY <2>5, <3>1, <3>2, Handled
  <2>7. CASE f.run = NoRun
    BY <1>2, <2>5, <2>7, Handled DEF RefreshAnswered
  <2>8. QED
    BY <2>6, <2>7
<1>3. QED
  BY <1>1, <1>2

LEMMA JobsStep ==
  ASSUME Inv, NEW f \in flights, UNCHANGED serverVars,
         NEW outcome, outcome = "ok" => f.answered,
         f.kind = "jobs", JobsAnswered(f, outcome)
  PROVE  Inv'
<1>1. CASE outcome # "ok"
  BY <1>1, FailureHandled DEF JobsAnswered
<1>2. CASE outcome = "ok"
  <2>1. /\ jobs' = [jobs EXCEPT ![f.run] = f.run]
        /\ UNCHANGED <<token, user, runs, selected>>
        /\ Rendered(f)
        /\ Turn(flights \ {f})
        /\ sessions' = sessions
    BY <1>2 DEF JobsAnswered, UnderItsRun, serverVars
  <2>2. /\ f.session \in 1..Len(sessions)
        /\ f.run \in Run
        /\ TenantOf[f.run] = sessions[f.session]
        /\ PageOK /\ ServerOK
    BY <1>2, FlightFacts DEF Honest
  <2>3. \A r \in Shown' : r \in Shown \/ TenantOf[r] = sessions[f.session]
    BY <2>1, <2>2 DEF Shown, PageOK
  <2>4. JobsOwn'
    BY <2>1, <2>2 DEF PageOK, JobsOwn
  <2>5. PageOK'
    BY <2>1, <2>2, <2>3, <2>4, RenderedPage DEF PageOK
  <2>6. QED
    BY <2>1, <2>5, Handled
<1>3. QED
  BY <1>1, <1>2

(* The refresh that follows an answer. *)
LEMMA FollowUpGood ==
  ASSUME Inv, NEW f \in flights, token' \in 0..Len(sessions)
  PROVE  Good(FollowUp(f)) /\ FollowUp(f).kind # "me"
  BY FlightFacts, NewRequest DEF FollowUp, Kind

LEMMA StartStep ==
  ASSUME Inv, NEW f \in flights, UNCHANGED serverVars,
         NEW outcome, outcome = "ok" => f.answered,
         f.kind = "start", StartAnswered(f, outcome)
  PROVE  Inv'
<1>1. CASE outcome # "ok"
  BY <1>1, FailureHandled DEF StartAnswered
<1>2. CASE outcome = "ok"
  <2> DEFINE r == CHOOSE q \in Run : f.content[q] > 0
  <2>1. /\ jobs' = [jobs EXCEPT ![r] = NoRun]
        /\ selected' = r
        /\ runs' = [runs EXCEPT ![r] = f.content[r]]
        /\ UNCHANGED <<token, user>>
        /\ Turn((flights \ {f}) \union {FollowUp(f)})
        /\ Rendered(f)
        /\ sessions' = sessions
    BY <1>2 DEF StartAnswered, serverVars
  <2>2. /\ f.session \in 1..Len(sessions)
        /\ \A q \in Run : f.content[q] > 0 => TenantOf[q] = sessions[f.session]
        /\ \E q \in Run : f.content[q] > 0
        /\ f.content \in [Run -> Nat]
        /\ PageOK /\ ServerOK
    BY <1>2, FlightFacts DEF Honest
  <2>3. r \in Run /\ TenantOf[r] = sessions[f.session]
    BY <2>2
  <2> HIDE DEF r
  <2>4. \A q \in Shown' : q \in Shown \/ TenantOf[q] = sessions[f.session]
    BY <2>1, <2>3 DEF Shown, PageOK
  <2>5. JobsOwn'
    BY <2>1, <2>2 DEF PageOK, JobsOwn
  <2>6. PageOK'
    BY <2>1, <2>2, <2>3, <2>4, <2>5, RenderedPage DEF PageOK
  <2>7. Good(FollowUp(f)) /\ FollowUp(f).kind # "me"
    BY <2>1, <2>2, FollowUpGood DEF PageOK
  <2>8. QED
    BY <2>1, <2>6, <2>7, Handled
<1>3. QED
  BY <1>1, <1>2

LEMMA ActStep ==
  ASSUME Inv, NEW f \in flights, UNCHANGED serverVars,
         NEW outcome, outcome = "ok" => f.answered,
         ActAnswered(f, outcome)
  PROVE  Inv'
<1>1. sessions' = sessions /\ PageOK /\ ServerOK
  BY FlightFacts DEF serverVars
<1>2. PageOK'
  <2>1. CASE outcome = "ok"
    <3>1. /\ runs' = [runs EXCEPT ![f.run] = IF @ > 0 THEN f.content[f.run] ELSE 0]
          /\ UNCHANGED <<token, user, jobs, selected>>
          /\ Rendered(f)
      BY <2>1 DEF ActAnswered
    <3>2. f.session \in 1..Len(sessions) /\ f.content \in [Run -> Nat]
      BY <2>1, FlightFacts
    <3>3. /\ runs' \in [Run -> Nat]
          /\ \A r \in Run : runs'[r] > 0 => runs[r] > 0
      <4>1. runs \in [Run -> Nat]
        BY <1>1 DEF PageOK
      <4>2. CASE f.run \in Run
        <5>1. f.content[f.run] \in Nat
          BY <3>2, <4>2
        <5>2. QED
          BY <3>1, <4>1, <4>2, <5>1
      <4>3. CASE f.run \notin Run
        BY <3>1, <4>1, <4>3
      <4>4. QED
        BY <4>2, <4>3
    <3>4. \A r \in Shown' : r \in Shown
      BY <3>1, <3>3 DEF Shown
    <3>5. JobsOwn'
      BY <1>1, <3>1 DEF PageOK, JobsOwn
    <3>6. QED
      BY <1>1, <3>1, <3>2, <3>3, <3>4, <3>5, RenderedPage DEF PageOK
  <2>2. CASE outcome # "ok"
    BY <1>1, <2>2, FailurePage DEF ActAnswered
  <2>3. QED
    BY <2>1, <2>2
<1>3. Good(FollowUp(f)) /\ FollowUp(f).kind # "me"
  BY <1>1, <1>2, FollowUpGood DEF PageOK
<1>4. Turn(flights \ {f}) \/ Turn((flights \ {f}) \union {FollowUp(f)})
  BY DEF ActAnswered
<1>5. QED
  BY <1>2, <1>3, <1>4, Handled

LEMMA HandleStep ==
  ASSUME Inv, NEW f \in flights, NEW outcome, outcome = "ok" => f.answered,
         Handle(f, outcome)
  PROVE  Inv'
  BY MeStep, LoginStep, LoadStep, RefreshStep, JobsStep, StartStep, ActStep DEF Handle

(* ------------------------------ Users ----------------------------------- *)

(* A page that is not opening sends a request, or none.                    *)
LEMMA Sent ==
  ASSUME Inv, UNCHANGED serverVars, PageOK', user # NoUser \/ ~loading,
         \A g \in flights' : g \in flights \/ (Good(g) /\ g.kind # "me")
  PROVE  Inv'
<1>1. sessions' = sessions /\ version' = version
  BY DEF serverVars
<1>2. \A g \in flights' : Good(g) /\ g.kind # "me"
  BY DEF Inv, Opening
<1>3. \A g \in flights' : Good(g)'
  BY <1>1, <1>2 DEF Good, Honest
<1>4. Opening'
  BY <1>2 DEF Opening
<1>5. QED
  BY <1>1, <1>3, <1>4 DEF Inv, ServerOK

LEMMA UserSteps ==
  ASSUME Inv,
         \/ \E u \in User : Login(u)
         \/ LogoutClick \/ StartRun \/ RefreshOperations
         \/ \E kind \in {"decide", "retry"} : Decide(kind)
         \/ \E r \in Run : OpenRun(r)
  PROVE  Inv'
<1>1. ServerOK /\ PageOK /\ token \in 0..Len(sessions) /\ 0 \in 0..Len(sessions)
  BY DEF Inv, PageOK, ServerOK
<1>2. ASSUME NEW u \in User, Login(u) PROVE Inv'
  <2> DEFINE h == Request("login", 0, NoRun, "busy")
             g == [h EXCEPT !.who = u]
  <2>1. h \in RequestOf(Len(sessions)) /\ h.kind = "login" /\ ~h.answered
    BY <1>1 DEF Request, RequestOf, Kind, Nothing
  <2> HIDE DEF h
  <2>2. /\ g \in RequestOf(Len(sessions))
        /\ g.kind = "login" /\ ~g.answered /\ g.who = u
    BY <2>1 DEF RequestOf
  <2>3. Good(g) /\ g.kind # "me"
    BY <2>2 DEF Good, Honest
  <2>4. /\ flights' = flights \union {g}
        /\ ~loading
        /\ UNCHANGED <<serverVars, pageVars, stray>>
    BY <1>2 DEF Login, h
  <2>5. PageOK'
    BY <1>1, <2>4, SamePage DEF serverVars
  <2>6. \A x \in flights' : x \in flights \/ (Good(x) /\ x.kind # "me")
    BY <2>3, <2>4
  <2>7. QED
    BY <2>4, <2>5, <2>6, Sent
<1>3. CASE LogoutClick
  <2>1. /\ Logout
        /\ user # NoUser
        /\ UNCHANGED <<serverVars, flights, stray>>
    BY <1>3 DEF LogoutClick, AtConsole
  <2>2. PageOK'
    BY <1>1, <2>1, LogoutPage DEF serverVars
  <2>3. \A x \in flights' : x \in flights \/ (Good(x) /\ x.kind # "me")
    BY <2>1
  <2>4. QED
    BY <2>1, <2>2, <2>3, Sent
<1>4. CASE StartRun
  <2> DEFINE g == Request("start", token, selected, "busy")
  <2>1. /\ user # NoUser
        /\ flights' = flights \union {g}
        /\ UNCHANGED <<serverVars, pageVars, stray>>
    BY <1>4 DEF StartRun, Click, AtConsole
  <2>2. Good(g) /\ g.kind # "me"
    BY <1>1, NewRequest DEF PageOK, Kind
  <2>3. PageOK'
    BY <1>1, <2>1, SamePage DEF serverVars
  <2>4. \A x \in flights' : x \in flights \/ (Good(x) /\ x.kind # "me")
    BY <2>1, <2>2
  <2>5. QED
    BY <2>1, <2>3, <2>4, Sent
<1>5. CASE RefreshOperations
  <2> DEFINE g == Request("refresh", token, selected, "nothing")
  <2>1. /\ user # NoUser
        /\ flights' = flights \union {g}
        /\ UNCHANGED <<serverVars, pageVars, stray>>
    BY <1>5 DEF RefreshOperations
  <2>2. Good(g) /\ g.kind # "me"
    BY <1>1, NewRequest DEF PageOK, Kind
  <2>3. PageOK'
    BY <1>1, <2>1, SamePage DEF serverVars
  <2>4. \A x \in flights' : x \in flights \/ (Good(x) /\ x.kind # "me")
    BY <2>1, <2>2
  <2>5. QED
    BY <2>1, <2>3, <2>4, Sent
<1>6. ASSUME NEW kind \in {"decide", "retry"}, Decide(kind) PROVE Inv'
  <2> DEFINE h == Request(kind, token, selected, "busy")
             g == [h EXCEPT !.seen = runs[selected]]
  <2>1. /\ user # NoUser
        /\ flights' = flights \union {g}
        /\ UNCHANGED <<serverVars, pageVars, stray>>
        /\ selected \in Run
    BY <1>1, <1>6 DEF Decide, Click, AtConsole, PageOK
  <2>2. /\ h \in RequestOf(Len(sessions))
        /\ h.kind \in {"decide", "retry"} /\ ~h.answered
    BY <1>1, <2>1 DEF Request, RequestOf, Kind, Nothing
  <2>3. runs[selected] \in Nat
    BY <1>1, <2>1 DEF PageOK
  <2> HIDE DEF h
  <2>4. /\ g \in RequestOf(Len(sessions))
        /\ g.kind \in {"decide", "retry"} /\ ~g.answered
    BY <2>2, <2>3 DEF RequestOf
  <2>5. Good(g) /\ g.kind # "me"
    BY <2>4 DEF Good, Honest
  <2>6. PageOK'
    BY <1>1, <2>1, SamePage DEF serverVars
  <2>7. \A x \in flights' : x \in flights \/ (Good(x) /\ x.kind # "me")
    BY <2>1, <2>5
  <2>8. QED
    BY <2>1, <2>6, <2>7, Sent
<1>7. ASSUME NEW r \in Run, OpenRun(r) PROVE Inv'
  <2>1. /\ user # NoUser
        /\ runs[r] > 0
        /\ selected' = r
        /\ UNCHANGED <<token, user, runs, jobs, stray>>
        /\ UNCHANGED serverVars
        /\ sessions' = sessions
        /\ Turn(flights)
    BY <1>7 DEF OpenRun, Click, AtConsole, serverVars
  <2>2. PageOK'
    BY <1>1, <2>1 DEF PageOK, IdentityMatches, JobsOwn, ForeignExplained
  <2>3. \A g \in flights' : Good(g) /\ (g \in flights \/ g.kind # "me")
    BY <1>1, <2>1, TurnRequests DEF Inv
  <2>4. \A x \in flights' : x \in flights \/ (Good(x) /\ x.kind # "me")
    BY <2>3
  <2>5. QED
    BY <2>1, <2>2, <2>4, Sent
<1>8. QED
  BY <1>2, <1>3, <1>4, <1>5, <1>6, <1>7

(* ------------------------------ The server ------------------------------ *)

(* The server answers a request; it may have opened a session for it.      *)
LEMMA Served ==
  ASSUME Inv, NEW f \in flights,
         UNCHANGED <<pageVars, loading, stray>>,
         version' \in [Run -> Nat],
         sessions' \in Seq(User),
         Len(sessions') >= Len(sessions),
         \A i \in 1..Len(sessions) : sessions'[i] = sessions[i],
         NEW g, Good(g)', g.kind = f.kind, f.kind = "login" \/ g.session = f.session,
         flights' = (flights \ {f}) \union {g}
  PROVE  Inv'
<1>1. Len(sessions) \in Nat /\ Len(sessions') \in Nat
  BY DEF Inv, ServerOK
<1>2. ASSUME NEW h \in flights PROVE Good(h)'
  <2>1. h \in RequestOf(Len(sessions))'
    <3>1. 0..Len(sessions) \subseteq 0..Len(sessions')
      BY <1>1
    <3>2. h \in RequestOf(Len(sessions))
      BY DEF Inv, Good
    <3>3. QED
      BY <3>1, <3>2 DEF RequestOf
  <2>2. h.answered => sessions'[h.session] = sessions[h.session]
    BY FlightFacts
  <2>3. Honest(h)'
    BY <2>2, FlightFacts DEF Honest
  <2>4. QED
    BY <2>1, <2>3 DEF Good
<1>3. PageOK'
  <2>1. token' \in 0..Len(sessions')
    BY <1>1 DEF Inv, PageOK, pageVars
  <2>2. IdentityMatches'
    BY <1>1 DEF Inv, PageOK, IdentityMatches, pageVars
  <2>3. QED
    BY <2>1, <2>2 DEF Inv, PageOK, JobsOwn, ForeignExplained, pageVars
<1>4. Opening'
  <2>1. SUFFICES ASSUME NEW h \in flights', h.kind = "me"
                 PROVE  /\ flights' = {h}
                        /\ token \in {0, h.session}
                        /\ loading
                        /\ user = NoUser
                        /\ runs = Nothing
                        /\ jobs = [r \in Run |-> NoRun]
                        /\ selected = NoRun
    BY DEF Opening, pageVars
  <2>2. CASE h = g
    BY <2>1, <2>2 DEF Inv, Opening
  <2>3. CASE h \in flights \ {f}
    BY <2>1, <2>3 DEF Inv, Opening
  <2>4. QED
    BY <2>1, <2>2, <2>3
<1>5. QED
  BY <1>2, <1>3, <1>4 DEF Inv, ServerOK

(* An answer, as a record. *)
LEMMA AnswerFields ==
  ASSUME Inv, NEW f \in flights, NEW content \in [Run -> Nat]
  PROVE  LET g == [f EXCEPT !.answered = TRUE, !.content = content, !.seen = 0]
         IN /\ g \in RequestOf(Len(sessions))
            /\ g.kind = f.kind /\ g.session = f.session /\ g.who = f.who /\ g.run = f.run
            /\ g.answered
            /\ g.content = content
<1>1. f \in RequestOf(Len(sessions))
  BY DEF Inv, Good
<1>2. QED
  BY <1>1 DEF RequestOf

LEMMA ServeLoginStep ==
  ASSUME Inv, NEW f \in flights, ServeLogin(f), UNCHANGED <<pageVars, loading, stray>>
  PROVE  Inv'
<1>1. /\ f \in RequestOf(Len(sessions))
      /\ f.kind = "login"
      /\ f.who \in User
      /\ sessions \in Seq(User)
      /\ version' = version /\ version \in [Run -> Nat]
  BY FlightFacts DEF ServeLogin, Inv, Good, Honest, ServerOK
<1>2. /\ sessions' = Append(sessions, f.who)
      /\ sessions' \in Seq(User)
      /\ Len(sessions') = Len(sessions) + 1
      /\ \A i \in 1..Len(sessions) : sessions'[i] = sessions[i]
      /\ sessions'[Len(sessions')] = f.who
      /\ Len(sessions) \in Nat
  BY <1>1 DEF ServeLogin
<1>3. PICK n \in Nat : n = Len(sessions')
  BY <1>2
<1> DEFINE g == [f EXCEPT !.answered = TRUE, !.session = n]
<1>4. f \in RequestOf(n) /\ n \in 0..n
  <2>1. 0..Len(sessions) \subseteq 0..n /\ n \in 0..n
    BY <1>2, <1>3
  <2>2. QED
    BY <1>1, <2>1 DEF RequestOf
<1>5. /\ g \in RequestOf(n)
      /\ g.kind = "login" /\ g.who = f.who /\ g.answered /\ g.session = n
  BY <1>1, <1>4 DEF RequestOf
<1>6. flights' = (flights \ {f}) \union {g}
  BY <1>3 DEF ServeLogin
<1> HIDE DEF g
<1>7. Good(g)'
  BY <1>1, <1>2, <1>3, <1>5 DEF Good, Honest
<1>8. QED
  BY <1>1, <1>2, <1>5, <1>6, <1>7, Served

LEMMA ServeReadStep ==
  ASSUME Inv, NEW f \in flights, ServeRead(f), UNCHANGED <<pageVars, loading, stray>>
  PROVE  Inv'
<1>1. /\ sessions' = sessions /\ version' = version
      /\ sessions \in Seq(User) /\ version \in [Run -> Nat]
      /\ f.session # 0
      /\ f.session \in 1..Len(sessions)
      /\ f.kind \in {"me", "load", "refresh", "jobs"}
      /\ f.kind = "jobs" => f.run \in Run /\ TenantOf[f.run] = sessions[f.session]
  BY FlightFacts DEF ServeRead, serverVars, Inv, ServerOK, Honest, OwnRun
<1>2. PICK content \in [Run -> Nat] :
        /\ Answer(f, content)
        /\ f.kind \in {"load", "refresh"} =>
             \A r \in Run : content[r] > 0 => TenantOf[r] = sessions[f.session]
  <2>1. Nothing \in [Run -> Nat]
    BY DEF Nothing
  <2>2. /\ Visible(sessions[f.session]) \in [Run -> Nat]
        /\ \A r \in Run : Visible(sessions[f.session])[r] > 0 => TenantOf[r] = sessions[f.session]
    BY <1>1 DEF Visible
  <2>3. QED
    BY <2>1, <2>2 DEF ServeRead
<1> DEFINE g == [f EXCEPT !.answered = TRUE, !.content = content, !.seen = 0]
<1>3. /\ g \in RequestOf(Len(sessions))
      /\ g.kind = f.kind /\ g.session = f.session /\ g.run = f.run
      /\ g.answered
      /\ g.content = content
  BY AnswerFields
<1> HIDE DEF g
<1>4. Good(g)'
  BY <1>1, <1>2, <1>3 DEF Good, Honest
<1>5. flights' = (flights \ {f}) \union {g}
  BY <1>2 DEF Answer, g
<1>6. QED
  BY <1>1, <1>3, <1>4, <1>5, Served

LEMMA ServeStartStep ==
  ASSUME Inv, NEW f \in flights, ServeStart(f), UNCHANGED <<pageVars, loading, stray>>
  PROVE  Inv'
<1>1. PICK r \in Run :
        /\ TenantOf[r] = sessions[f.session]
        /\ version' = [version EXCEPT ![r] = 1]
        /\ Answer(f, Only(r, 1))
  BY DEF ServeStart
<1>2. /\ sessions' = sessions
      /\ sessions \in Seq(User) /\ version \in [Run -> Nat]
      /\ f.session # 0 /\ f.kind = "start"
  BY DEF ServeStart, Inv, ServerOK
<1>3. /\ Only(r, 1) \in [Run -> Nat]
      /\ Only(r, 1)[r] > 0
      /\ \A q \in Run : Only(r, 1)[q] > 0 => q = r
  BY DEF Only, Nothing
<1> DEFINE g == [f EXCEPT !.answered = TRUE, !.content = Only(r, 1), !.seen = 0]
<1>4. /\ g \in RequestOf(Len(sessions))
      /\ g.kind = f.kind /\ g.session = f.session
      /\ g.answered
      /\ g.content = Only(r, 1)
  BY <1>3, AnswerFields
<1> HIDE DEF g
<1>5. Good(g)'
  BY <1>1, <1>2, <1>3, <1>4 DEF Good, Honest
<1>6. flights' = (flights \ {f}) \union {g}
  BY <1>1 DEF Answer, g
<1>7. version' \in [Run -> Nat]
  BY <1>1, <1>2
<1>8. Len(sessions) \in Nat
  BY <1>2
<1>9. QED
  BY <1>2, <1>4, <1>5, <1>6, <1>7, <1>8, Served

LEMMA ServeActStep ==
  ASSUME Inv, NEW f \in flights, ServeAct(f), UNCHANGED <<pageVars, loading, stray>>
  PROVE  Inv'
<1>1. /\ sessions' = sessions
      /\ sessions \in Seq(User) /\ version \in [Run -> Nat]
      /\ f.session # 0 /\ f.kind \in {"decide", "retry"}
      /\ version' = [version EXCEPT ![f.run] = @ + 1]
      /\ Answer(f, Only(f.run, version[f.run] + 1))
      /\ Len(sessions) \in Nat
  BY DEF ServeAct, Inv, ServerOK
<1>2. PICK content \in [Run -> Nat] : Answer(f, content) /\ version' \in [Run -> Nat]
  <2> DEFINE c == Only(f.run, version[f.run] + 1)
  <2>1. CASE f.run \in Run
    <3>1. version[f.run] + 1 \in Nat
      BY <1>1, <2>1
    <3>2. c \in [Run -> Nat] /\ version' \in [Run -> Nat]
      BY <1>1, <2>1, <3>1 DEF Only, Nothing
    <3>3. QED
      BY <1>1, <3>2
  <2>2. CASE f.run \notin Run
    <3>1. c \in [Run -> Nat] /\ version' \in [Run -> Nat]
      BY <1>1, <2>2 DEF Only, Nothing
    <3>2. QED
      BY <1>1, <3>1
  <2>3. QED
    BY <2>1, <2>2
<1> DEFINE g == [f EXCEPT !.answered = TRUE, !.content = content, !.seen = 0]
<1>3. /\ g \in RequestOf(Len(sessions))
      /\ g.kind = f.kind /\ g.session = f.session
      /\ g.answered
      /\ g.content = content
  BY <1>2, AnswerFields
<1> HIDE DEF g
<1>4. Good(g)'
  BY <1>1, <1>3 DEF Good, Honest
<1>5. flights' = (flights \ {f}) \union {g}
  BY <1>2 DEF Answer, g
<1>6. QED
  BY <1>1, <1>2, <1>3, <1>4, <1>5, Served

(* A worker moves a run on: the page does not know yet.                    *)
LEMMA WorkStep ==
  ASSUME Inv, NEW r \in Run, Work(r)
  PROVE  Inv'
<1>1. version' \in [Run -> Nat]
  BY DEF Work, Inv, ServerOK
<1>2. UNCHANGED <<sessions, token, user, runs, jobs, selected, loading, flights, stray>>
  BY DEF Work, pageVars
<1>3. QED
  BY <1>1, <1>2
  DEF Inv, ServerOK, PageOK, Good, Honest, Opening, IdentityMatches, JobsOwn, ForeignExplained

(* -------------------------------- Theorems ------------------------------ *)

LEMMA InitInv == Init => Inv
<1>1. SUFFICES ASSUME Init PROVE Inv
  OBVIOUS
<1>2. /\ version \in [Run -> Nat]
      /\ user = NoUser /\ runs = Nothing /\ jobs = [r \in Run |-> NoRun] /\ selected = NoRun
      /\ stray = FALSE
  BY <1>1 DEF Init
<1>3. /\ runs \in [Run -> Nat]
      /\ jobs \in [Run -> Run \union {NoRun}]
      /\ IdentityMatches /\ JobsOwn /\ ForeignExplained
  BY <1>2 DEF Nothing, IdentityMatches, JobsOwn, ForeignExplained
<1>4. CASE sessions = <<>> /\ token = 0 /\ flights = {}
  <2>1. sessions \in Seq(User) /\ Len(sessions) = 0
    BY <1>4
  <2>2. token \in 0..Len(sessions)
    BY <1>4, <2>1
  <2>3. QED
    BY <1>2, <1>3, <1>4, <2>1, <2>2 DEF Inv, ServerOK, PageOK, Opening
<1>5. ASSUME NEW u \in User, sessions = <<u>>, token = 1, loading = TRUE,
             flights = {Request("me", 1, NoRun, "loading")}
      PROVE  Inv
  <2> DEFINE f == Request("me", 1, NoRun, "loading")
  <2>1. sessions \in Seq(User) /\ Len(sessions) = 1 /\ token \in 0..Len(sessions)
    BY <1>5
  <2>2. Good(f) /\ f.session = 1 /\ f.kind = "me"
    BY <2>1 DEF Good, Honest, Request, RequestOf, Kind, Nothing
  <2> HIDE DEF f
  <2>3. flights = {f}
    BY <1>5 DEF f
  <2>4. Opening
    BY <1>2, <1>5, <2>2, <2>3 DEF Opening
  <2>5. QED
    BY <1>2, <1>3, <2>1, <2>2, <2>3, <2>4 DEF Inv, ServerOK, PageOK
<1>6. QED
  BY <1>1, <1>4, <1>5 DEF Init

LEMMA NextInv == Inv /\ [Next]_vars => Inv'
<1>1. SUFFICES ASSUME Inv, [Next]_vars PROVE Inv'
  OBVIOUS
<1>2. ASSUME NEW f \in flights, Receive(f) \/ Lose(f) PROVE Inv'
  <2>1. f.answered /\ Handle(f, "ok") => Inv'
    BY <1>1, HandleStep
  <2>2. \A outcome \in {"unauthorized", "failed"} : Handle(f, outcome) => Inv'
    BY <1>1, HandleStep
  <2>3. QED
    BY <1>2, <2>1, <2>2 DEF Receive, Lose, Refusals
<1>3. ASSUME NEW f \in flights, Serve(f) PROVE Inv'
  BY <1>1, <1>3, ServeLoginStep, ServeReadStep, ServeStartStep, ServeActStep DEF Serve
<1>4. ASSUME NEW r \in Run, Work(r) PROVE Inv'
  BY <1>1, <1>4, WorkStep
<1>5. CASE \/ \E u \in User : Login(u)
           \/ LogoutClick \/ StartRun \/ RefreshOperations
           \/ \E kind \in {"decide", "retry"} : Decide(kind)
           \/ \E r \in Run : OpenRun(r)
  BY <1>1, <1>5, UserSteps
<1>6. CASE UNCHANGED vars
  BY <1>1, <1>6 DEF vars, serverVars, pageVars, Inv, ServerOK, PageOK, Good, Honest, Opening,
     IdentityMatches, JobsOwn, ForeignExplained
<1>7. QED
  BY <1>1, <1>2, <1>3, <1>4, <1>5, <1>6 DEF Next

LEMMA Invariant == Spec => []Inv
  BY InitInv, NextInv, PTL DEF Spec

(* The token the page sends is that of the user it shows, in whatever      *)
(* order log-ins, log-outs, refusals and late answers come.                *)
THEOREM PageIsOnePersons == Spec => []IdentityMatches
<1>1. Inv => IdentityMatches
  BY DEF Inv, PageOK
<1>2. QED
  BY <1>1, Invariant, PTL

(* The jobs kept for a run are its own, whichever run is selected when     *)
(* their answer arrives.                                                   *)
THEOREM PageKeepsJobsApart == Spec => []JobsOwn
<1>1. Inv => JobsOwn
  BY DEF Inv, PageOK
<1>2. QED
  BY <1>1, Invariant, PTL

(* Nothing of another tenant is on the page but by a late answer.          *)
THEOREM PageExplainsForeign == Spec => []ForeignExplained
<1>1. Inv => ForeignExplained
  BY DEF Inv, PageOK
<1>2. QED
  BY <1>1, Invariant, PTL

(* ------------------------- What holds the buttons ----------------------- *)

(* The buttons are disabled as long as the one request that will enable    *)
(* them is in flight.                                                      *)
Waits ==
  /\ busy \in BOOLEAN /\ loading \in BOOLEAN
  /\ busy <=> \E f \in flights : f.ends = "busy"
  /\ \A f, g \in flights : f.ends = "busy" /\ g.ends = "busy" => f = g
  /\ loading => \E f \in flights : f.ends = "loading"
  /\ \A f \in flights : /\ f.kind = "me" => f.ends = "loading"
                        /\ f.kind \in {"login", "start", "decide", "retry"} => f.ends = "busy"

(* A session is opened by a log-in that was counted when it was sent, and  *)
(* a version is made by work or by a click.                                *)
Counted ==
  /\ worked \in 0..MaxWork /\ logins \in 0..MaxLogins /\ clicks \in 0..MaxClicks
  /\ failures \in Nat
  /\ Len(sessions) <= logins
  /\ \A r \in Run : version[r] <= 1 + worked + clicks
  /\ \A f \in flights : f.kind = "login" /\ ~f.answered => Len(sessions) < logins
  /\ \A f \in flights : f.kind \in {"decide", "retry"} /\ ~f.answered =>
       \A r \in Run : version[r] <= worked + clicks

Shows ==
  /\ runs \in Content
  /\ \A f \in flights : f.seen \in Version /\ f.content \in Content

TypeInv == Waits /\ Counted /\ Shows

(* A request that follows another one, and holds what that one held.       *)
Follows(g, f) ==
  /\ g.kind \in {"load", "refresh", "jobs"}
  /\ g.ends = f.ends
  /\ g.seen = 0 /\ g.content = Nothing

(* What a turn adds. *)
LEMMA TurnAdds ==
  ASSUME NEW S, Turn(S)
  PROVE  /\ S \subseteq flights'
         /\ \A g \in flights' : g \in S \/ (/\ g.kind = "jobs" /\ g.ends = "nothing"
                                           /\ g.seen = 0 /\ g.content = Nothing)
BY DEF Turn, Request

(* However an answer is handled, its request is over or another follows.   *)
LEMMA HandleSends ==
  ASSUME Inv, Waits, NEW f \in flights, NEW outcome, Handle(f, outcome)
  PROVE  \/ Turn(flights \ {f}) /\ Ended(f)
         \/ \E g : Turn((flights \ {f}) \union {g}) /\ Follows(g, f) /\ GoesOn
<1>1. f.kind = "me" => f.ends = "loading"
  BY DEF Waits
<1>2. f.kind = "login" => f.ends = "busy"
  BY DEF Waits
<1>3. \A kind \in {"load", "refresh", "jobs"} : \A session, r :
        Follows(Request(kind, session, r, f.ends), f)
  BY DEF Follows, Request
<1>4. CASE f.kind = "me" /\ MeAnswered(f, outcome)
  BY <1>1, <1>3, <1>4 DEF MeAnswered
<1>5. CASE f.kind = "login" /\ LoginAnswered(f, outcome)
  BY <1>2, <1>3, <1>5 DEF LoginAnswered
<1>6. CASE LoadAnswered(f, outcome)
  BY <1>6 DEF LoadAnswered
<1>7. CASE RefreshAnswered(f, outcome)
  BY <1>3, <1>7 DEF RefreshAnswered
<1>8. CASE JobsAnswered(f, outcome)
  BY <1>8 DEF JobsAnswered
<1>9. CASE StartAnswered(f, outcome)
  BY <1>3, <1>9 DEF StartAnswered, FollowUp
<1>10. CASE ActAnswered(f, outcome)
  BY <1>3, <1>10 DEF ActAnswered, FollowUp
<1>11. QED
  BY <1>4, <1>5, <1>6, <1>7, <1>8, <1>9, <1>10 DEF Handle

(* What is shown are versions. *)
LEMMA HandleShows ==
  ASSUME Inv, Shows, NEW f \in flights, NEW outcome, Handle(f, outcome)
  PROVE  runs' \in Content
<1>1. Nothing \in Content
  BY ConsoleAssumption DEF Nothing, Content, Version
<1>2. runs \in Content /\ f.content \in Content
  BY DEF Shows
<1>3. HandleFailure(outcome) => runs' \in Content
  BY <1>1, <1>2 DEF HandleFailure, Logout, ClearProtectedState, pageVars
<1>4. ASSUME NEW r, NEW v, r \in Run => v \in Version
      PROVE  [runs EXCEPT ![r] = v] \in Content
  BY <1>2, <1>4 DEF Content
<1>5. CASE MeAnswered(f, outcome) \/ JobsAnswered(f, outcome)
  BY <1>2, <1>3, <1>5 DEF MeAnswered, JobsAnswered
<1>6. CASE LoginAnswered(f, outcome)
  BY <1>1, <1>2, <1>6 DEF LoginAnswered, ClearBeforeLogin, ClearProtectedState
<1>7. CASE LoadAnswered(f, outcome) \/ RefreshAnswered(f, outcome)
  BY <1>2, <1>3, <1>7 DEF LoadAnswered, RefreshAnswered
<1>8. CASE StartAnswered(f, outcome)
  <2>1. \A r \in Run : f.content[r] \in Version
    BY <1>2 DEF Content
  <2> DEFINE r == CHOOSE r \in Run : f.content[r] > 0
  <2>2. CASE outcome = "ok"
    <3>1. runs' = [runs EXCEPT ![r] = f.content[r]]
      BY <1>8, <2>2 DEF StartAnswered
    <3>2. QED
      BY <1>4, <2>1, <3>1
  <2>3. QED
    BY <1>3, <1>8, <2>2 DEF StartAnswered
<1>9. CASE ActAnswered(f, outcome)
  <2>1. f.run \in Run => f.content[f.run] \in Version /\ 0 \in Version
    BY <1>1, <1>2 DEF Content, Nothing
  <2>2. CASE outcome = "ok"
    <3> DEFINE v == IF runs[f.run] > 0 THEN f.content[f.run] ELSE 0
    <3>1. runs' = [runs EXCEPT ![f.run] = v]
      BY <1>9, <2>2 DEF ActAnswered
    <3>2. f.run \in Run => v \in Version
      BY <2>1
    <3>3. QED
      BY <1>4, <3>1, <3>2
  <2>3. QED
    BY <1>3, <1>9, <2>2 DEF ActAnswered
<1>10. QED
  BY <1>5, <1>6, <1>7, <1>8, <1>9 DEF Handle

LEMMA HandleTypes ==
  ASSUME Inv, TypeInv, NEW f \in flights, NEW outcome, Handle(f, outcome), failures' \in Nat
  PROVE  TypeInv'
<1>1. Waits /\ Counted /\ Shows
  BY DEF TypeInv
<1>2. UNCHANGED <<version, sessions, worked, logins, clicks>>
  BY DEF Handle, serverVars
<1>3. Nothing \in Content /\ 0 \in Version
  BY ConsoleAssumption DEF Nothing, Content, Version
<1> DEFINE Fresh(g) == /\ g.kind \in {"load", "refresh", "jobs"}
                       /\ g.seen = 0 /\ g.content = Nothing
<1>4. \A g \in flights' : g \in flights \ {f} \/ Fresh(g)
  <2>1. CASE Turn(flights \ {f})
    BY <2>1, TurnAdds
  <2>2. ASSUME NEW h, Turn((flights \ {f}) \union {h}), Follows(h, f)
        PROVE  \A g \in flights' : g \in flights \ {f} \/ Fresh(g)
    BY <2>2, TurnAdds DEF Follows
  <2>3. QED
    BY <1>1, <2>1, <2>2, HandleSends
<1>5. Shows'
  <2>1. runs' \in Content
    BY <1>1, HandleShows
  <2>2. QED
    BY <1>1, <1>3, <1>4, <2>1 DEF Shows, Content, Version
<1>6. Counted'
  BY <1>1, <1>2, <1>4 DEF Counted
<1>7. Waits'
  <2>1. CASE Turn(flights \ {f}) /\ Ended(f)
    <3>1. /\ flights \ {f} \subseteq flights'
          /\ \A g \in flights' : g \in flights \ {f} \/ (g.kind = "jobs" /\ g.ends = "nothing")
      BY <2>1, TurnAdds
    <3>2. QED
      BY <1>1, <2>1, <3>1 DEF Waits, Ended
  <2>2. ASSUME NEW h, Turn((flights \ {f}) \union {h}), Follows(h, f), GoesOn PROVE Waits'
    <3>1. /\ (flights \ {f}) \union {h} \subseteq flights'
          /\ \A g \in flights' :
               g \in (flights \ {f}) \union {h} \/ (g.kind = "jobs" /\ g.ends = "nothing")
      BY <2>2, TurnAdds
    <3>2. h.ends = f.ends /\ h.kind \in {"load", "refresh", "jobs"}
      BY <2>2 DEF Follows
    <3>3. QED
      BY <1>1, <2>2, <3>1, <3>2 DEF Waits, GoesOn
  <2>3. QED
    BY <1>1, <2>1, <2>2, HandleSends
<1>8. QED
  BY <1>5, <1>6, <1>7 DEF TypeInv

(* ------------------------------ Users ----------------------------------- *)

(* A button is pressed that was enabled.                                   *)
LEMMA PressTypes ==
  ASSUME Inv, TypeInv, NEW g, flights' = flights \union {g}, ~busy, busy' = TRUE,
         UNCHANGED <<version, sessions, runs, loading, worked, failures>>,
         g.kind \in {"login", "start", "decide", "retry"}, g.ends = "busy",
         g.seen \in Version, g.content = Nothing,
         logins' \in logins..MaxLogins, clicks' \in clicks..MaxClicks,
         g.kind = "login" => logins < logins',
         g.kind \in {"decide", "retry"} => clicks < clicks'
  PROVE  TypeInv'
<1>1. Waits /\ Counted /\ Shows
  BY DEF TypeInv
<1>2. Nothing \in Content
  BY ConsoleAssumption DEF Nothing, Content, Version
<1>3. Waits'
  BY <1>1 DEF Waits
<1>4. Shows'
  BY <1>1, <1>2 DEF Shows, Content, Version
<1>5. Counted'
  <2>1. /\ Len(sessions) \in Nat /\ \A r \in Run : version[r] \in Nat
        /\ worked \in Nat /\ logins \in Nat /\ clicks \in Nat /\ logins' \in Nat /\ clicks' \in Nat
        /\ logins' \in 0..MaxLogins /\ clicks' \in 0..MaxClicks
        /\ logins <= logins' /\ clicks <= clicks'
    BY <1>1, ConsoleAssumption DEF Inv, ServerOK, Counted
  <2>2. \A h \in flights' : h.kind = "login" /\ ~h.answered => Len(sessions') < logins'
    BY <1>1, <2>1 DEF Counted
  <2>3. \A h \in flights' : h.kind \in {"decide", "retry"} /\ ~h.answered =>
          \A r \in Run : version'[r] <= worked' + clicks'
    BY <1>1, <2>1 DEF Counted
  <2>4. QED
    BY <1>1, <2>1, <2>2, <2>3 DEF Counted
<1>6. QED
  BY <1>3, <1>4, <1>5 DEF TypeInv

LEMMA UserTypes ==
  ASSUME Inv, TypeInv,
         \/ \E u \in User : Login(u)
         \/ LogoutClick \/ StartRun \/ RefreshOperations
         \/ \E kind \in {"decide", "retry"} : Decide(kind)
         \/ \E r \in Run : OpenRun(r)
  PROVE  TypeInv'
<1>1. Waits /\ Counted /\ Shows
  BY DEF TypeInv
<1>2. Nothing \in Content /\ 0 \in Version
  BY ConsoleAssumption DEF Nothing, Content, Version
<1>3. /\ worked \in Nat /\ logins \in 0..MaxLogins /\ clicks \in 0..MaxClicks
      /\ MaxLogins \in Nat /\ MaxClicks \in Nat
      /\ \A r \in Run : version[r] \in Nat
  BY <1>1, ConsoleAssumption DEF Counted, Inv, ServerOK
<1>4. ASSUME NEW u \in User, Login(u) PROVE TypeInv'
  <2> DEFINE h == Request("login", 0, NoRun, "busy")
             g == [h EXCEPT !.who = u]
  <2>1. /\ g.kind = "login" /\ g.ends = "busy" /\ g.seen = 0 /\ g.content = Nothing
    BY DEF Request
  <2>2. /\ flights' = flights \union {g} /\ ~busy /\ busy' = TRUE
        /\ UNCHANGED <<version, sessions, runs, loading, worked, clicks, failures>>
        /\ logins < MaxLogins /\ logins' = logins + 1
    BY <1>4 DEF Login, serverVars, pageVars
  <2> HIDE DEF g
  <2>3. QED
    BY <1>2, <1>3, <2>1, <2>2, PressTypes
<1>5. CASE LogoutClick
  <2>1. /\ UNCHANGED <<version, sessions, flights, loading, busy, worked, logins, clicks, failures>>
        /\ runs' = Nothing
    BY <1>5 DEF LogoutClick, Logout, ClearProtectedState, serverVars, historyVars
  <2>2. QED
    BY <1>1, <1>2, <2>1 DEF TypeInv, Waits, Counted, Shows
<1>6. CASE StartRun
  <2> DEFINE g == Request("start", token, selected, "busy")
  <2>1. /\ g.kind = "start" /\ g.ends = "busy" /\ g.seen = 0 /\ g.content = Nothing
    BY DEF Request
  <2>2. /\ flights' = flights \union {g} /\ ~busy /\ busy' = TRUE
        /\ UNCHANGED <<version, sessions, runs, loading, worked, logins, failures>>
        /\ clicks < MaxClicks /\ clicks' = clicks + 1
    BY <1>6 DEF StartRun, Click, serverVars, pageVars
  <2> HIDE DEF g
  <2>3. QED
    BY <1>2, <1>3, <2>1, <2>2, PressTypes
<1>7. CASE RefreshOperations
  <2> DEFINE g == Request("refresh", token, selected, "nothing")
  <2>1. g.kind = "refresh" /\ g.ends = "nothing" /\ g.seen = 0 /\ g.content = Nothing
    BY DEF Request
  <2>2. /\ flights' = flights \union {g}
        /\ UNCHANGED <<version, sessions, runs, busy, loading, worked, logins, clicks, failures>>
    BY <1>7 DEF RefreshOperations, serverVars, pageVars, historyVars
  <2> HIDE DEF g
  <2>3. Waits'
    BY <1>1, <2>1, <2>2 DEF Waits
  <2>4. Counted'
    BY <1>1, <2>1, <2>2 DEF Counted
  <2>5. Shows'
    BY <1>1, <1>2, <2>1, <2>2 DEF Shows
  <2>6. QED
    BY <2>3, <2>4, <2>5 DEF TypeInv
<1>8. ASSUME NEW kind \in {"decide", "retry"}, Decide(kind) PROVE TypeInv'
  <2> DEFINE h == Request(kind, token, selected, "busy")
             g == [h EXCEPT !.seen = runs[selected]]
  <2>1. /\ g.kind = kind /\ g.ends = "busy" /\ g.seen = runs[selected] /\ g.content = Nothing
    BY DEF Request
  <2>2. /\ flights' = flights \union {g} /\ ~busy /\ busy' = TRUE
        /\ UNCHANGED <<version, sessions, runs, loading, worked, logins, failures>>
        /\ clicks < MaxClicks /\ clicks' = clicks + 1
        /\ selected # NoRun
    BY <1>8 DEF Decide, Click, serverVars, pageVars
  <2>3. runs[selected] \in Version
    BY <1>1, <2>2 DEF Inv, PageOK, Shows, Content
  <2> HIDE DEF g
  <2>4. QED
    BY <1>3, <2>1, <2>2, <2>3, PressTypes
<1>9. ASSUME NEW r \in Run, OpenRun(r) PROVE TypeInv'
  <2>1. /\ Turn(flights)
        /\ UNCHANGED <<version, sessions, runs, busy, loading, worked, logins, failures>>
        /\ clicks < MaxClicks /\ clicks' = clicks + 1
    BY <1>9 DEF OpenRun, Click, serverVars
  <2>2. /\ flights \subseteq flights'
        /\ \A g \in flights' : g \in flights \/ (/\ g.kind = "jobs" /\ g.ends = "nothing"
                                                 /\ g.seen = 0 /\ g.content = Nothing)
    BY <2>1, TurnAdds
  <2>3. Waits'
    BY <1>1, <2>1, <2>2 DEF Waits
  <2>4. Counted'
    BY <1>1, <1>3, <2>1, <2>2 DEF Counted
  <2>5. Shows'
    BY <1>1, <1>2, <2>1, <2>2 DEF Shows
  <2>6. QED
    BY <2>3, <2>4, <2>5 DEF TypeInv
<1>10. QED
  BY <1>4, <1>5, <1>6, <1>7, <1>8, <1>9

(* ------------------------------ The server ------------------------------ *)

(* An answer holds what its request held.                                  *)
LEMMA AnswerTypes ==
  ASSUME TypeInv, NEW f \in flights, NEW g, flights' = (flights \ {f}) \union {g},
         g.kind = f.kind, g.ends = f.ends, g.seen \in Version, g.content \in Content,
         UNCHANGED <<runs, loading, busy>>
  PROVE  Waits' /\ Shows'
<1>1. Waits'
  BY DEF TypeInv, Waits
<1>2. Shows'
  BY DEF TypeInv, Shows, Content, Version
<1>3. QED
  BY <1>1, <1>2

LEMMA AnswerSent ==
  ASSUME Inv, NEW f \in flights, NEW content, Answer(f, content)
  PROVE  \E g : /\ flights' = (flights \ {f}) \union {g}
                /\ g.kind = f.kind /\ g.ends = f.ends /\ g.answered
                /\ g.seen = 0 /\ g.content = content
<1> DEFINE g == [f EXCEPT !.answered = TRUE, !.content = content, !.seen = 0]
<1>1. f \in RequestOf(Len(sessions))
  BY DEF Inv, Good
<1>2. g.kind = f.kind /\ g.ends = f.ends /\ g.answered /\ g.seen = 0 /\ g.content = content
  BY <1>1 DEF RequestOf
<1>3. flights' = (flights \ {f}) \union {g}
  BY DEF Answer
<1> HIDE DEF g
<1>4. QED
  BY <1>2, <1>3

LEMMA ServeTypes ==
  ASSUME Inv, TypeInv, NEW f \in flights, Serve(f)
  PROVE  TypeInv'
<1>1. Waits /\ Counted /\ Shows
  BY DEF TypeInv
<1>2. /\ ~f.answered
      /\ UNCHANGED <<runs, loading, busy, worked, logins, clicks, failures>>
  BY DEF Serve, pageVars, historyVars
<1>3. /\ Nothing \in Content /\ 0 \in Version
      /\ {MaxWork, MaxClicks, MaxLogins} \subseteq Nat
  BY ConsoleAssumption DEF Nothing, Content, Version
<1>4. /\ version \in [Run -> Nat] /\ sessions \in Seq(User) /\ Len(sessions) \in Nat
      /\ worked \in 0..MaxWork /\ logins \in 0..MaxLogins /\ clicks \in 0..MaxClicks
      /\ \A r \in Run : version[r] <= 1 + worked + clicks
  BY <1>1 DEF Inv, ServerOK, Counted
<1>5. \A r \in Run : version[r] \in Version
  BY <1>3, <1>4 DEF Version
<1>6. CASE ServeLogin(f)
  <2> DEFINE g == [f EXCEPT !.answered = TRUE, !.session = Len(sessions')]
  <2>1. f \in RequestOf(Len(sessions)) /\ f.who \in User /\ f.kind = "login"
    BY <1>6 DEF Inv, Good, Honest, ServeLogin
  <2>2. /\ g.kind = f.kind /\ g.ends = f.ends /\ g.answered
        /\ g.seen = f.seen /\ g.content = f.content
    BY <2>1 DEF RequestOf
  <2>3. /\ flights' = (flights \ {f}) \union {g}
        /\ sessions' = Append(sessions, f.who) /\ version' = version
    BY <1>6 DEF ServeLogin
  <2> HIDE DEF g
  <2>4. Waits' /\ Shows'
    BY <1>1, <1>2, <2>2, <2>3, AnswerTypes DEF Shows
  <2>5. Len(sessions') = Len(sessions) + 1 /\ Len(sessions) < logins
    BY <1>1, <1>2, <1>4, <2>1, <2>3 DEF Counted
  <2>6. \A h \in flights' : ~(h.kind = "login" /\ ~h.answered)
    <3>1. f.ends = "busy" /\ \A h \in flights : h.kind = "login" => h.ends = "busy"
      BY <1>1, <2>1 DEF Waits
    <3>2. \A h \in flights : h.kind = "login" => h = f
      BY <1>1, <3>1 DEF Waits
    <3>3. QED
      BY <2>2, <2>3, <3>2
  <2>7. \A h \in flights' : h.kind \in {"decide", "retry"} => h \in flights
    BY <2>1, <2>2, <2>3
  <2>8. Counted'
    BY <1>1, <1>2, <1>4, <2>3, <2>5, <2>6, <2>7 DEF Counted
  <2>9. QED
    BY <2>4, <2>8 DEF TypeInv
<1>7. CASE ServeRead(f)
  <2>1. f.session \in 1..Len(sessions) /\ version' = version /\ sessions' = sessions
    BY <1>7, FlightFacts DEF ServeRead, serverVars, Inv, ServerOK
  <2>2. PICK content \in Content : Answer(f, content)
    <3>1. Visible(sessions[f.session]) \in Content
      BY <1>3, <1>5 DEF Visible, Content
    <3>2. QED
      BY <1>3, <1>7, <3>1 DEF ServeRead
  <2>3. PICK g : /\ flights' = (flights \ {f}) \union {g}
                 /\ g.kind = f.kind /\ g.ends = f.ends /\ g.answered
                 /\ g.seen = 0 /\ g.content = content
    BY <2>2, AnswerSent
  <2>4. Waits' /\ Shows'
    BY <1>2, <1>3, <2>2, <2>3, AnswerTypes
  <2>5. Counted'
    BY <1>1, <1>2, <2>1, <2>3 DEF Counted
  <2>6. QED
    BY <2>4, <2>5 DEF TypeInv
<1>8. CASE ServeStart(f) \/ ServeAct(f)
  <2>1. /\ f.kind \in {"start", "decide", "retry"} /\ sessions' = sessions
        /\ f.ends = "busy"
    BY <1>1, <1>8 DEF ServeStart, ServeAct, Waits
  <2>2. \A h \in flights \ {f} : h.kind \notin {"decide", "retry"}
    BY <1>1, <2>1 DEF Waits
  <2>3. PICK r, n : /\ version' = [version EXCEPT ![r] = n]
                    /\ Answer(f, Only(r, n))
                    /\ r \in Run => n \in Nat /\ n <= 1 + worked + clicks
    <3>1. CASE ServeStart(f)
      <4>1. PICK r \in Run : version' = [version EXCEPT ![r] = 1] /\ Answer(f, Only(r, 1))
        BY <3>1 DEF ServeStart
      <4>2. 1 \in Nat /\ 1 <= 1 + worked + clicks
        BY <1>3, <1>4
      <4>3. QED
        BY <4>1, <4>2
    <3>2. CASE ServeAct(f)
      <4>1. /\ version' = [version EXCEPT ![f.run] = version[f.run] + 1]
            /\ Answer(f, Only(f.run, version[f.run] + 1))
            /\ f.kind \in {"decide", "retry"}
        BY <3>2 DEF ServeAct
      <4>2. \A r \in Run : version[r] <= worked + clicks
        BY <1>1, <1>2, <4>1 DEF Counted
      <4>3. f.run \in Run => /\ version[f.run] + 1 \in Nat
                             /\ version[f.run] + 1 <= 1 + worked + clicks
        BY <1>4, <4>2
      <4>4. QED
        BY <4>1, <4>3
    <3>3. QED
      BY <1>8, <3>1, <3>2
  <2>4. Only(r, n) \in Content
    <3>1. r \in Run => n \in Version
      BY <1>3, <1>4, <2>3 DEF Version
    <3>2. QED
      BY <1>3, <3>1 DEF Only, Nothing, Content
  <2>5. PICK g : /\ flights' = (flights \ {f}) \union {g}
                 /\ g.kind = f.kind /\ g.ends = f.ends /\ g.answered
                 /\ g.seen = 0 /\ g.content = Only(r, n)
    BY <2>3, AnswerSent
  <2>6. Waits' /\ Shows'
    BY <1>2, <1>3, <2>4, <2>5, AnswerTypes
  <2>7. \A q \in Run : version'[q] <= 1 + worked + clicks
    BY <1>4, <2>3
  <2>8. Counted'
    BY <1>1, <1>2, <2>1, <2>2, <2>5, <2>7 DEF Counted
  <2>9. QED
    BY <2>6, <2>8 DEF TypeInv
<1>9. QED
  BY <1>6, <1>7, <1>8 DEF Serve

LEMMA WorkTypes ==
  ASSUME Inv, TypeInv, NEW r \in Run, Work(r)
  PROVE  TypeInv'
<1>1. Waits /\ Counted /\ Shows
  BY DEF TypeInv
<1>2. /\ worked < MaxWork /\ worked' = worked + 1
      /\ version' = [version EXCEPT ![r] = version[r] + 1]
      /\ UNCHANGED <<sessions, runs, loading, busy, flights, logins, clicks, failures>>
  BY DEF Work, pageVars
<1>3. /\ version \in [Run -> Nat] /\ worked \in 0..MaxWork /\ clicks \in 0..MaxClicks
      /\ MaxWork \in Nat /\ MaxClicks \in Nat
  BY <1>1, ConsoleAssumption DEF Inv, ServerOK, Counted
<1>4. Waits' /\ Shows'
  BY <1>1, <1>2 DEF Waits, Shows
<1>5. \A n \in Nat : (\A q \in Run : version[q] <= n) => \A q \in Run : version'[q] <= n + 1
  BY <1>2, <1>3
<1>6. Counted'
  <2>1. \A q \in Run : version'[q] <= 1 + worked' + clicks'
    BY <1>1, <1>2, <1>3 DEF Counted
  <2>2. ASSUME NEW f \in flights', f.kind \in {"decide", "retry"}, ~f.answered
        PROVE  \A q \in Run : version'[q] <= worked' + clicks'
    <3>1. \A q \in Run : version[q] <= worked + clicks
      BY <1>1, <1>2, <2>2 DEF Counted
    <3>2. QED
      BY <1>2, <1>3, <3>1
  <2>3. worked' \in 0..MaxWork
    BY <1>2, <1>3
  <2>4. QED
    BY <1>1, <1>2, <2>1, <2>2, <2>3 DEF Counted
<1>7. QED
  BY <1>4, <1>6 DEF TypeInv

LEMMA InitTypes == Init => TypeInv
<1> SUFFICES ASSUME Init PROVE TypeInv
  OBVIOUS
<1>1. /\ Nothing \in Content /\ 0 \in Version
      /\ {MaxWork, MaxClicks, MaxLogins} \subseteq Nat /\ 1 \in 0..MaxLogins
  BY ConsoleAssumption DEF Nothing, Content, Version
<1>2. /\ \A r \in Run : version[r] <= 1
      /\ runs = Nothing /\ busy = FALSE
      /\ worked = 0 /\ clicks = 0 /\ failures = 0
  BY DEF Init
<1>3. CASE sessions = <<>> /\ logins = 0 /\ loading = FALSE /\ flights = {}
  <2>1. Waits /\ Shows
    BY <1>1, <1>2, <1>3 DEF Waits, Shows
  <2>2. Len(sessions) = 0
    BY <1>3
  <2>3. Counted
    BY <1>1, <1>2, <1>3, <2>2 DEF Counted
  <2>4. QED
    BY <2>1, <2>3 DEF TypeInv
<1>4. ASSUME NEW u \in User, sessions = <<u>>, logins = 1, loading = TRUE,
             flights = {Request("me", 1, NoRun, "loading")}
      PROVE  TypeInv
  <2> DEFINE f == Request("me", 1, NoRun, "loading")
  <2>1. f.kind = "me" /\ f.ends = "loading" /\ f.seen = 0 /\ f.content = Nothing
    BY DEF Request
  <2>2. flights = {f}
    BY <1>4
  <2> HIDE DEF f
  <2>3. Waits
    BY <1>2, <1>4, <2>1, <2>2 DEF Waits
  <2>4. Counted
    BY <1>1, <1>2, <1>4, <2>1, <2>2 DEF Counted
  <2>5. Shows
    BY <1>1, <1>2, <2>1, <2>2 DEF Shows
  <2>6. QED
    BY <2>3, <2>4, <2>5 DEF TypeInv
<1>5. \/ sessions = <<>> /\ logins = 0 /\ loading = FALSE /\ flights = {}
      \/ /\ \E u \in User : sessions = <<u>>
         /\ logins = 1 /\ loading = TRUE
         /\ flights = {Request("me", 1, NoRun, "loading")}
  BY DEF Init
<1>6. CASE \E u \in User : sessions = <<u>>
  <2>1. PICK u \in User : sessions = <<u>>
    BY <1>6
  <2>2. sessions # <<>>
    BY <2>1
  <2>3. QED
    BY <1>4, <1>5, <2>1, <2>2
<1>7. QED
  BY <1>3, <1>5, <1>6

LEMMA NextTypes == Inv /\ TypeInv /\ [Next]_vars => TypeInv'
<1>1. SUFFICES ASSUME Inv, TypeInv, [Next]_vars PROVE TypeInv'
  OBVIOUS
<1>2. ASSUME NEW f \in flights, Receive(f) \/ Lose(f) PROVE TypeInv'
  <2>1. failures' \in Nat
    BY <1>1, <1>2 DEF Receive, Lose, TypeInv, Counted
  <2>2. \E outcome : Handle(f, outcome)
    BY <1>2 DEF Receive, Lose
  <2>3. QED
    BY <1>1, <2>1, <2>2, HandleTypes
<1>3. ASSUME NEW f \in flights, Serve(f) PROVE TypeInv'
  BY <1>1, <1>3, ServeTypes
<1>4. ASSUME NEW r \in Run, Work(r) PROVE TypeInv'
  BY <1>1, <1>4, WorkTypes
<1>5. CASE \/ \E u \in User : Login(u)
           \/ LogoutClick \/ StartRun \/ RefreshOperations
           \/ \E kind \in {"decide", "retry"} : Decide(kind)
           \/ \E r \in Run : OpenRun(r)
  BY <1>1, <1>5, UserTypes
<1>6. CASE UNCHANGED vars
  BY <1>1, <1>6 DEF vars, serverVars, pageVars, historyVars, TypeInv, Waits, Counted, Shows
<1>7. QED
  BY <1>1, <1>2, <1>3, <1>4, <1>5, <1>6 DEF Next

LEMMA TypeInvariant == Spec => []TypeInv
<1>1. Inv /\ TypeInv /\ [Next]_vars => TypeInv'
  BY NextTypes
<1>2. QED
  BY <1>1, InitTypes, Invariant, PTL DEF Spec

(* Every variable keeps its type, and the page never waits for nothing:    *)
(* while its buttons are disabled or it is loading, the request whose      *)
(* handler ends that is in flight, whatever else fails, is refused or is   *)
(* handled late.                                                           *)
THEOREM PageTypes == Spec => []TypeOK
<1>1. ASSUME Inv, TypeInv PROVE TypeOK
  <2>1. Waits /\ Counted /\ Shows /\ ServerOK /\ PageOK
    BY <1>1 DEF TypeInv, Inv
  <2>2. /\ Len(sessions) \in Nat /\ Len(sessions) <= MaxLogins
        /\ DOMAIN sessions = 1..Len(sessions)
        /\ {MaxWork, MaxClicks, MaxLogins} \subseteq Nat
    BY <2>1, ConsoleAssumption DEF ServerOK, Counted
  <2>3. version \in [Run -> Version]
    <3>1. \A r \in Run : version[r] \in Version
      BY <2>1, <2>2 DEF ServerOK, Counted, Version
    <3>2. QED
      BY <2>1, <3>1 DEF ServerOK
  <2>4. token \in {0} \union DOMAIN sessions
    BY <2>1, <2>2 DEF PageOK
  <2>5. flights \subseteq Flight
    <3>1. SUFFICES ASSUME NEW f \in flights PROVE f \in Flight
      OBVIOUS
    <3>2. f \in RequestOf(Len(sessions)) /\ f.seen \in Version /\ f.content \in Content
      BY <1>1, <2>1 DEF Inv, Good, Shows
    <3>3. 0..Len(sessions) \subseteq Session
      BY <2>2 DEF Session
    <3>4. QED
      BY <3>2, <3>3 DEF RequestOf, Flight
  <2>6. worked \in Nat /\ logins \in Nat /\ clicks \in Nat /\ failures \in Nat
    BY <2>1 DEF Counted
  <2>7. QED
    BY <2>1, <2>2, <2>3, <2>4, <2>5, <2>6 DEF TypeOK, ServerOK, PageOK, Waits, Shows
<1>2. QED
  BY <1>1, Invariant, TypeInvariant, PTL
=============================================================================
