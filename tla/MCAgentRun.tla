----------------------------- MODULE MCAgentRun -----------------------------
(* One low-risk plan that needs no approval and one high-risk plan that     *)
(* needs two; the requester also holds the approver roles.                  *)
EXTENDS AgentRun, TLC

CONSTANTS low, high, a1, a2, req

MCQuorum == low :> 0 @@ high :> 2
MCBackoff == [a \in 1..MaxAttempts |-> 0]

(* The crash run starts after a first disturbance, which hit a worker that  *)
(* was about to diagnose -- its store failed, or it died and its lease ran  *)
(* out: up to there a run asks nobody and writes nothing.                   *)
ReadRun == [NoRun EXCEPT !.version = 6, !.status = "RUNNING",
                         !.node = "diagnose", !.attempt = 1]

MCInit ==
  /\ \E w \in Worker, j \in Job :
       LET row == ClaimedRow(EnqueuedRow, w)
           Only(r) == [[i \in Job |-> AbsentRow] EXCEPT ![j] = r] IN
       \/ /\ job = Only(RequeuedRow(row, Backoff[1]))
          /\ faults = 0 /\ errors = 1
       \/ /\ job = Only([row EXCEPT !.lease = 0])
          /\ faults = 1 /\ errors = 0
  /\ pc = [w \in Worker |-> "idle"]
  /\ claim = [w \in Worker |-> NoClaim]
  /\ lost = [w \in Worker |-> FALSE]
  /\ run = ReadRun
  /\ copy = [w \in Worker |-> NoRun]
  /\ unsent = 0
  /\ effect = "none"
  /\ cancels = 0
  /\ crashes = 0

MCSpec == MCInit /\ [][Next]_vars

(* The liveness run starts at the beginning, or after such a disturbance.   *)
MCFairSpec == (Init \/ MCInit) /\ [][Next]_vars /\ Fairness

Symmetry == Permutations(Worker) \union Permutations(Job) \union Permutations({a1, a2})
=============================================================================
