----------------------------- MODULE WorkerLoop -----------------------------
(***************************************************************************)
(* DurableWorker.run_once on every worker, over the job table: claim a job,*)
(* heartbeat while engine.process runs, then finish, requeue or fail the   *)
(* job behind its fencing token.  What engine.process does meanwhile is    *)
(* the business of the modules that extend this one; they also say what a  *)
(* step of this module leaves alone in their own state.                    *)
(***************************************************************************)
EXTENDS JobTable

CONSTANTS
  Job,         \* job ids
  MaxFaults,   \* bound: crashes and late heartbeats
  MaxErrors    \* bound: calls of the store that fail

ASSUME JobAssumption == None \notin Job
ASSUME FaultAssumption == MaxFaults \in Nat /\ MaxErrors \in Nat

VARIABLES
  job,      \* agent_jobs
  pc,       \* where run_once is; "idle" between two calls
  claim,    \* the job, token and attempts that run_once holds
  lost,     \* the lease_lost event
  faults,   \* crashes and late heartbeats so far
  errors    \* failed calls of the store so far

loopVars == <<job, pc, claim, lost, faults, errors>>

NoClaim == [job |-> None, token |-> 0, attempts |-> 0]

Claim == [job: Job \union {None}, token: Nat, attempts: Nat]

LoopTypeOK(steps) ==
  /\ job \in [Job -> Row]
  /\ pc \in [Worker -> steps \union {"idle", "finishing", "raised"}]
  /\ claim \in [Worker -> Claim]
  /\ \A w \in Worker : pc[w] # "idle" => claim[w].job \in Job /\ claim[w].attempts > 0
  /\ lost \in [Worker -> BOOLEAN]
  /\ faults \in 0..MaxFaults
  /\ errors \in 0..MaxErrors

LoopInit ==
  /\ job = [j \in Job |-> AbsentRow]
  /\ pc = [w \in Worker |-> "idle"]
  /\ claim = [w \in Worker |-> NoClaim]
  /\ lost = [w \in Worker |-> FALSE]
  /\ faults = 0
  /\ errors = 0

-----------------------------------------------------------------------------
Holds(w) == Owns(job[claim[w].job], w, claim[w].token)
HoldsLease(w) == Leased(job[claim[w].job], w, claim[w].token)

InProcess(w) == pc[w] \notin {"idle", "finishing", "raised"}

Goto(w, step) == pc' = [pc EXCEPT ![w] = step]

(* run_once is over: its locals are gone. *)
Leave(w) ==
  /\ Goto(w, "idle")
  /\ claim' = [claim EXCEPT ![w] = NoClaim]
  /\ lost' = [lost EXCEPT ![w] = FALSE]

Fault == faults < MaxFaults /\ faults' = faults + 1

EnqueueJob(j) ==
  /\ job[j].status = "ABSENT"
  /\ job' = [job EXCEPT ![j] = EnqueuedRow]
  /\ UNCHANGED <<pc, claim, lost, faults, errors>>

(* claim_job: lapsed claims come before queued jobs.  Within each class the*)
(* code takes the oldest, the model any.                                   *)
Claimable(j) ==
  \/ Lapsed(job[j])
  \/ Available(job[j]) /\ \A k \in Job : ~Lapsed(job[k])

ClaimJob(w, j) ==
  /\ pc[w] = "idle"
  /\ Claimable(j)
  /\ job' = [job EXCEPT ![j] = ClaimedRow(@, w)]
  /\ claim' = [claim EXCEPT ![w] = [job |-> j, token |-> job[j].token + 1,
                                    attempts |-> job[j].attempts + 1]]
  /\ Goto(w, "claimed")
  /\ UNCHANGED <<lost, faults, errors>>

(* The heartbeat thread, from the claim until run_once is over. *)
Heartbeat(w) ==
  /\ pc[w] # "idle"
  /\ ~lost[w]
  /\ \/ /\ HoldsLease(w)
        /\ job' = [job EXCEPT ![claim[w].job] = RenewedRow(@)]
        /\ UNCHANGED lost
     \/ /\ ~HoldsLease(w)
        /\ lost' = [lost EXCEPT ![w] = TRUE]
        /\ UNCHANGED job
  /\ UNCHANGED <<pc, claim, faults, errors>>

(* engine.process raised LeaseLostError: touch neither job nor run. *)
Abandon(w) == Leave(w) /\ UNCHANGED <<job, faults, errors>>

(* engine.process returned: lease_lost decides whether to finish the job.  *)
Return(w) ==
  \/ lost[w] /\ Abandon(w)
  \/ ~lost[w] /\ Goto(w, "finishing") /\ UNCHANGED <<job, claim, lost, faults, errors>>

(* engine.process raised anything else. *)
Raise(w) == Goto(w, "raised") /\ UNCHANGED <<job, claim, lost, faults, errors>>

(* The store failed under engine.process or under finish_job. *)
StoreError(w) ==
  /\ InProcess(w) \/ pc[w] = "finishing"
  /\ errors < MaxErrors
  /\ errors' = errors + 1
  /\ Goto(w, "raised")
  /\ UNCHANGED <<job, claim, lost, faults>>

(* Mutant: finish and requeue whatever the row says now. *)
EndClaimUnfenced(w, row) ==
  /\ job' = [job EXCEPT ![claim[w].job] = row]
  /\ Leave(w)
  /\ UNCHANGED <<faults, errors>>

(* An UPDATE behind the Owns fence; a row that does not match it is left   *)
(* alone and raises LeaseLostError.                                        *)
EndClaim(w, row) ==
  /\ job' = IF Holds(w) THEN [job EXCEPT ![claim[w].job] = row] ELSE job
  /\ Leave(w)
  /\ UNCHANGED <<faults, errors>>

FinishJob(w) ==
  /\ pc[w] = "finishing"
  /\ EndClaim(w, FinishedRow(job[claim[w].job], "SUCCEEDED"))

(* Mutant: the last attempt is requeued as well. *)
RequeueJobOnceMore(w) ==
  /\ pc[w] = "raised"
  /\ claim[w].attempts <= MaxAttempts
  /\ EndClaim(w, RequeuedRow(job[claim[w].job], Backoff[claim[w].attempts]))

RequeueJob(w) ==
  /\ pc[w] = "raised"
  /\ claim[w].attempts < MaxAttempts
  /\ EndClaim(w, RequeuedRow(job[claim[w].job], Backoff[claim[w].attempts]))

FailJob(w) ==
  /\ pc[w] = "raised"
  /\ claim[w].attempts >= MaxAttempts
  /\ EndClaim(w, FinishedRow(job[claim[w].job], "FAILED"))

(* The worker process dies and comes back under the same identity. *)
Crash(w) ==
  /\ pc[w] # "idle"
  /\ Fault
  /\ Leave(w)
  /\ UNCHANGED <<job, errors>>

(* Time passes.  A tick that ends the lease of a worker still at work is a *)
(* late heartbeat and counts as a fault.                                   *)
Expiring(w) == pc[w] # "idle" /\ HoldsLease(w) /\ job[claim[w].job].lease = 1

Tick ==
  /\ \E j \in Job : job[j].lease > 0 \/ job[j].delay > 0
  /\ job' = [j \in Job |-> AgedRow(job[j])]
  /\ IF \E w \in Worker : Expiring(w) THEN Fault ELSE UNCHANGED faults
  /\ UNCHANGED <<pc, claim, lost, errors>>

(* The last statement of run_once. *)
EndRunOnce(w) == FinishJob(w) \/ RequeueJob(w) \/ FailJob(w)

-----------------------------------------------------------------------------
(* Exceptions end a job after MaxAttempts claims; only crashes and missed  *)
(* heartbeats, which run_once does not count, can push it past that.       *)
RecoveryBounded == \A j \in Job : job[j].attempts <= MaxAttempts + faults

(* A queued job is eventually ended, by whichever worker survives.         *)
JobsEnd == \A j \in Job : job[j].status = "QUEUED" ~> job[j].status \in Ended
=============================================================================
