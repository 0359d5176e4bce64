---------------------------- MODULE ModelAccess -----------------------------
(***************************************************************************)
(* Who asks the one local model, and when.  The callers are the threads of *)
(* the worker and API processes that reach the node "diagnose"; a slot in  *)
(* the database lets one of them in at a time (CoordinatedModelAdapter),   *)
(* inside it a circuit breaker per process (ResilientModelRouter) and a    *)
(* client that asks at most twice (OpenAICompatibleModelAdapter).  The     *)
(* gateway generates one answer at a time, for whichever of its requests,  *)
(* and goes on when the client is gone.                                    *)
(*                                                                         *)
(* A tick is the time of one generation.                                   *)
(***************************************************************************)
EXTENDS Naturals, FiniteSets

CONSTANTS
  Caller,
  Process,
  ProcessOf,   \* the process each caller is a thread of
  Nobody,      \* not a caller
  Patience,    \* MODEL_TIMEOUT_SECONDS: how many generations a client waits
  MaxCalls,    \* bound: calls of all callers together
  MaxCrashes,  \* bound: crashes of processes
  MaxLosses    \* bound: database sessions lost while the slot is held

ASSUME CallerAssumption ==
  IsFiniteSet(Caller) /\ Nobody \notin Caller /\ ProcessOf \in [Caller -> Process]
ASSUME BoundsAssumption ==
  Patience \in Nat \ {0} /\ MaxCalls \in Nat /\ MaxCrashes \in Nat /\ MaxLosses \in Nat

VARIABLES
  pc,        \* where each caller is
  ahead,     \* who waits for the advisory lock before each caller
  slot,      \* who holds the advisory lock
  asked,     \* how many generations each call has asked for
  left,      \* how many ticks each client still waits
  open,      \* the processes whose circuit breaker is open
  orphans,   \* requests at the gateway whose client is gone
  calls,     \* how many calls were made
  timeouts,  \* history: how many requests timed out
  crashes, losses   \* history: how many processes crashed, sessions were lost

callVars == <<pc, asked, left>>
historyVars == <<timeouts, crashes, losses>>
vars == <<callVars, ahead, slot, open, orphans, calls, historyVars>>

Place == {"idle", "waiting", "entered", "asking", "answered", "leaving"}

At(c, place) == pc[c] = place
Inside == {c \in Caller : pc[c] \in {"entered", "asking", "answered", "leaving"}}
Asking == {c \in Caller : At(c, "asking")}
Waiting == {c \in Caller : At(c, "waiting")}

(* Those who wait stand in one line, and only they do.                     *)
InLine ==
  /\ \A c \in Caller : c \notin ahead[c] /\ \A d \in ahead[c] : ahead[d] \subseteq ahead[c]
  /\ \A c, d \in Waiting : c = d \/ c \in ahead[d] \/ d \in ahead[c]
  /\ \A c \in Caller \ Waiting : ahead[c] = {}

TypeOK ==
  /\ pc \in [Caller -> Place]
  /\ ahead \in [Caller -> SUBSET Waiting] /\ InLine
  /\ slot \in Caller \union {Nobody}
  /\ asked \in [Caller -> 0..2]
  /\ left \in [Caller -> 0..Patience]
  /\ open \subseteq Process
  /\ orphans \in Nat
  /\ calls \in Nat
  /\ timeouts \in Nat /\ crashes \in Nat /\ losses \in Nat

Init ==
  /\ pc = [c \in Caller |-> "idle"]
  /\ ahead = [c \in Caller |-> {}]
  /\ slot = Nobody
  /\ asked = [c \in Caller |-> 0]
  /\ left = [c \in Caller |-> 0]
  /\ open = {}
  /\ orphans = 0
  /\ calls = 0
  /\ timeouts = 0 /\ crashes = 0 /\ losses = 0

Goto(c, place) == pc' = [pc EXCEPT ![c] = place]

-----------------------------------------------------------------------------
(* CoordinatedModelAdapter.propose and model_inference_slot.               *)
Call(c) ==
  /\ At(c, "idle")
  /\ calls < MaxCalls
  /\ calls' = calls + 1
  /\ Goto(c, "waiting")
  /\ ahead' = [ahead EXCEPT ![c] = Waiting]
  /\ UNCHANGED <<slot, asked, left, open, orphans, historyVars>>

(* Mutant: the slot is not taken. *)
EnterAnyway(c) ==
  /\ At(c, "waiting")
  /\ slot' = c
  /\ ahead' = [d \in Caller |-> ahead[d] \ {c}]
  /\ Goto(c, "entered")
  /\ UNCHANGED <<asked, left, open, orphans, calls, historyVars>>

(* Mutant: the lock is given back before the model is asked. *)
EnterAndUnlock(c) ==
  /\ At(c, "waiting")
  /\ slot = Nobody
  /\ ahead[c] = {}
  /\ ahead' = [d \in Caller |-> ahead[d] \ {c}]
  /\ Goto(c, "entered")
  /\ UNCHANGED <<slot, asked, left, open, orphans, calls, historyVars>>

Enter(c) ==
  /\ At(c, "waiting")
  /\ slot = Nobody
  /\ ahead[c] = {}
  /\ slot' = c
  /\ ahead' = [d \in Caller |-> ahead[d] \ {c}]
  /\ Goto(c, "entered")
  /\ UNCHANGED <<asked, left, open, orphans, calls, historyVars>>

(* Mutant: the lock is given back when the call went well only. *)
LeaveAnswered(c) ==
  /\ At(c, "leaving")
  /\ Goto(c, "idle")
  /\ slot' = IF slot = c /\ ProcessOf[c] \notin open THEN Nobody ELSE slot
  /\ asked' = [asked EXCEPT ![c] = 0]
  /\ left' = [left EXCEPT ![c] = 0]
  /\ UNCHANGED <<ahead, open, orphans, calls, historyVars>>

(* The caller whose session was lost finds nothing to unlock: that raises, *)
(* and the answer is lost with it.                                         *)
Leave(c) ==
  /\ At(c, "leaving")
  /\ Goto(c, "idle")
  /\ slot' = IF slot = c THEN Nobody ELSE slot
  /\ asked' = [asked EXCEPT ![c] = 0]
  /\ left' = [left EXCEPT ![c] = 0]
  /\ UNCHANGED <<ahead, open, orphans, calls, historyVars>>

-----------------------------------------------------------------------------
(* OpenAICompatibleModelAdapter._request. *)
(* Mutant: the repair has only what the first generation left of the time. *)
SendInTime(c) ==
  /\ Goto(c, "asking")
  /\ asked' = [asked EXCEPT ![c] = @ + 1]
  /\ left' = [left EXCEPT ![c] = IF asked[c] = 0 THEN Patience ELSE @ - 1]

Send(c) ==
  /\ Goto(c, "asking")
  /\ asked' = [asked EXCEPT ![c] = @ + 1]
  /\ left' = [left EXCEPT ![c] = Patience]

(* ResilientModelRouter: any failure opens the breaker of the process. *)
Fail(c) ==
  /\ Goto(c, "leaving")
  /\ open' = open \union {ProcessOf[c]}

(* The breaker is open: no request, a fallback. *)
FallBack(c) ==
  /\ At(c, "entered")
  /\ ProcessOf[c] \in open
  /\ Goto(c, "leaving")
  /\ UNCHANGED <<ahead, slot, asked, left, open, orphans, calls, historyVars>>

Ask(c) ==
  /\ At(c, "entered")
  /\ ProcessOf[c] \notin open
  /\ Send(c)
  /\ UNCHANGED <<ahead, slot, open, orphans, calls, historyVars>>

(* The gateway cannot be reached, or answers with an error. *)
Refused(c) ==
  /\ At(c, "asking")
  /\ Fail(c)
  /\ UNCHANGED <<ahead, slot, asked, left, orphans, calls, historyVars>>

(* The answer can be made a plan of. *)
Succeed(c) ==
  /\ At(c, "answered")
  /\ Goto(c, "leaving")
  /\ UNCHANGED <<ahead, slot, asked, left, open, orphans, calls, historyVars>>

(* The first answer is no draft: the model is asked once to repair it. *)
Repair(c) ==
  /\ At(c, "answered")
  /\ asked[c] = 1
  /\ Send(c)
  /\ UNCHANGED <<ahead, slot, open, orphans, calls, historyVars>>

(* The second answer is no draft either, or a draft is of the wrong phase, *)
(* or its materialisation is refused.                                      *)
Unusable(c) ==
  /\ At(c, "answered")
  /\ Fail(c)
  /\ UNCHANGED <<ahead, slot, asked, left, orphans, calls, historyVars>>

TimeOut(c) ==
  /\ At(c, "asking")
  /\ left[c] = 0
  /\ Fail(c)
  /\ orphans' = orphans + 1
  /\ timeouts' = timeouts + 1
  /\ UNCHANGED <<ahead, slot, asked, left, calls, crashes, losses>>

(* The breaker's seconds are over. *)
Cool(p) ==
  /\ p \in open
  /\ open' = open \ {p}
  /\ UNCHANGED <<callVars, ahead, slot, orphans, calls, historyVars>>

-----------------------------------------------------------------------------
(* The gateway ends the generation of one of its requests, if it has any;  *)
(* everybody else has waited for another tick.                             *)
Wait(answered) ==
  left' = [c \in Caller |-> IF c \in Asking \ answered THEN left[c] - 1 ELSE left[c]]

TickAnswers(c) ==
  /\ c \in Asking
  /\ Goto(c, "answered")
  /\ Wait({c})
  /\ UNCHANGED orphans

TickAnswersNobody ==
  /\ orphans > 0
  /\ orphans' = orphans - 1
  /\ Wait({})
  /\ UNCHANGED pc

(* A client whose time is up does not wait on. *)
Tick ==
  /\ \A c \in Asking : left[c] > 0
  /\ TickAnswersNobody \/ \E c \in Caller : TickAnswers(c)
  /\ UNCHANGED <<ahead, slot, asked, open, calls, historyVars>>

-----------------------------------------------------------------------------
(* The database ends the session that holds the slot; its caller does not  *)
(* notice before it unlocks.                                               *)
LoseSlot ==
  /\ slot # Nobody
  /\ losses < MaxLosses
  /\ losses' = losses + 1
  /\ slot' = Nobody
  /\ UNCHANGED <<callVars, ahead, open, orphans, calls, timeouts, crashes>>

(* Mutant: a session that is gone goes on waiting for the lock. *)
WithoutNobody(line, gone) == line

(* The waits of sessions that are gone end. *)
Without(line, gone) == [c \in Caller |-> IF c \in gone THEN {} ELSE line[c] \ gone]

(* The session of a waiting caller ends: the call raises. *)
LoseWait(c) ==
  /\ At(c, "waiting")
  /\ losses < MaxLosses
  /\ losses' = losses + 1
  /\ ahead' = Without(ahead, {c})
  /\ Goto(c, "idle")
  /\ UNCHANGED <<slot, asked, left, open, orphans, calls, timeouts, crashes>>

Threads(p) == {c \in Caller : ProcessOf[c] = p}

(* A process dies with its threads and sessions; its requests stay at the  *)
(* gateway.                                                                *)
Fresh(f, threads, value) == [c \in Caller |-> IF c \in threads THEN value ELSE f[c]]

Crash(p) ==
  /\ crashes < MaxCrashes
  /\ crashes' = crashes + 1
  /\ pc' = Fresh(pc, Threads(p), "idle")
  /\ asked' = Fresh(asked, Threads(p), 0)
  /\ left' = Fresh(left, Threads(p), 0)
  /\ ahead' = Without(ahead, Threads(p))
  /\ slot' = IF slot \in Threads(p) THEN Nobody ELSE slot
  /\ open' = open \ {p}
  /\ orphans' = orphans + Cardinality(Asking \intersect Threads(p))
  /\ UNCHANGED <<calls, timeouts, losses>>

-----------------------------------------------------------------------------
Next ==
  \/ \E c \in Caller :
       \/ Call(c) \/ Enter(c) \/ FallBack(c) \/ Ask(c) \/ Refused(c) \/ Succeed(c)
       \/ Repair(c) \/ Unusable(c) \/ TimeOut(c) \/ Leave(c) \/ LoseWait(c)
  \/ \E p \in Process : Cool(p) \/ Crash(p)
  \/ Tick
  \/ LoseSlot

Spec == Init /\ [][Next]_vars

(* A caller goes on, and a client gives up in time; the gateway generates. *)
(* Nothing is assumed of breakers, failures, crashes or sessions.          *)
Proceed(c) ==
  \/ Enter(c) \/ FallBack(c) \/ Ask(c) \/ TimeOut(c) \/ Leave(c)
  \/ Succeed(c) \/ Repair(c) \/ Unusable(c)

Fairness ==
  /\ \A c \in Caller : WF_vars(Proceed(c))
  /\ WF_vars(Tick)

FairSpec == Spec /\ Fairness

-----------------------------------------------------------------------------
(* Only the holder of the lock is past it, up to one caller for every      *)
(* session that was lost: the code keeps calls apart by the session alone, *)
(* and cannot know that it is gone before the unlocking.                   *)
OneInside ==
  Cardinality(Inside \ {slot}) <= losses

(* What the gateway has to do at a time (one request, without the faults)  *)
(* is bounded by what went wrong: crashes, lost sessions and time-outs each*)
(* leave at most one request more behind.                                  *)
GatewayLoad ==
  Cardinality(Asking) + orphans <= 1 + losses + crashes + timeouts

(* A request times out only if a session was lost or so many processes     *)
(* crashed that their requests use the time up: queueing for the slot,     *)
(* repairing answers and other people's failures never make one time out.  *)
TimeoutsExplained ==
  timeouts > 0 => losses > 0 \/ crashes >= Patience

(* Every call comes to an end, whoever crashes, hangs or is refused: the   *)
(* lock is always given back.                                              *)
CallsEnd ==
  \A c \in Caller : At(c, "waiting") ~> At(c, "idle")
=============================================================================
