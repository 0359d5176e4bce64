------------------------------ MODULE AgentRun ------------------------------
(***************************************************************************)
(* One run, from the request that starts it to its last state: AgentEngine *)
(* on the workers, the API operations start, decide, cancel and            *)
(* retry_failed, the jobs that carry the run between them, and the one     *)
(* write the approved plan makes at the tool boundary.                     *)
(*                                                                         *)
(* An API operation reads the run, checks it and saves it under the version*)
(* it read.  LeasedStore shows that such a save is an atomic change of the *)
(* latest record, so it is one step here; the job it enqueues afterwards is*)
(* another one.  A worker's copy of the run stays separate from the stored *)
(* record, because the engine calls tools on the strength of its copy.     *)
(***************************************************************************)
EXTENDS WorkerLoop, FiniteSets

CONSTANTS
  Plan,            \* plans the policy compiler may accept
  Quorum,          \* approvals each plan's risk level requires; 0: none
  Approver,        \* people who hold the roles a plan requires
  Requester,       \* the one who created the run
  MaxRunAttempts,  \* RunRecord.max_attempts (3)
  MaxCancels,      \* bound: cancel requests accepted
  MaxApiCrashes    \* bound: API processes dying between save and enqueue

ASSUME QuorumAssumption == Quorum \in [Plan -> Nat]
ASSUME PlanAssumption == None \notin Plan
ASSUME BoundAssumption == {MaxRunAttempts, MaxCancels, MaxApiCrashes} \subseteq Nat

VARIABLES
  run,       \* the stored record
  copy,      \* the record in each worker's memory
  unsent,    \* API operations that saved the run and have not enqueued yet
  effect,    \* what the plan's write has done at the tool boundary
  cancels,   \* cancel requests accepted so far
  crashes    \* API crashes so far

vars == <<job, pc, claim, lost, faults, errors, run, copy, unsent, effect, cancels, crashes>>

Node == {"intake", "retrieve", "investigate", "observe", "diagnose", "policy",
         "gate", "approval", "execute", "verify", "finalize",
         "completed", "handed_off", "cancelled"}
Final == {"COMPLETED", "CANCELLED", "HANDED_OFF"}
Status == {"ABSENT", "QUEUED", "RUNNING", "AWAITING_APPROVAL", "FAILED"} \union Final
Decision == {"none", "pending", "not_required", "approved", "denied"}
Outcome == {"none", "succeeded", "failed", "unknown"}

Record == [version: Nat, status: Status, node: Node, attempt: Nat, cancel: BOOLEAN,
           plan: Plan \union {None}, decision: Decision, votes: SUBSET Approver,
           write: Outcome]

NoRun == [version |-> 0, status |-> "ABSENT", node |-> "intake", attempt |-> 0,
          cancel |-> FALSE, plan |-> None, decision |-> "none", votes |-> {},
          write |-> "none"]

(* Where engine.process is: about to read the run, about to decide what to *)
(* do with it, at the top of its loop, with a tool result not stored yet,  *)
(* with a stored one, the same two for a compensation, before its last     *)
(* checkpoint, about to return.                                            *)
EngineSteps == {"claimed", "loaded", "node", "called", "recorded",
                "compensated", "confirming", "last", "leaving"}

TypeOK ==
  /\ LoopTypeOK(EngineSteps)
  /\ run \in Record
  /\ copy \in [Worker -> Record]
  /\ unsent \in Nat
  /\ effect \in {"none", "applied", "undone"}
  /\ cancels \in 0..MaxCancels
  /\ crashes \in 0..MaxApiCrashes

Init ==
  /\ LoopInit
  /\ run = NoRun
  /\ copy = [w \in Worker |-> NoRun]
  /\ unsent = 0
  /\ effect = "none"
  /\ cancels = 0
  /\ crashes = 0

-----------------------------------------------------------------------------
(* The API.  Each operation saves the record it read: version + 1. *)
Saved(record) == [record EXCEPT !.version = @ + 1]

Start ==
  /\ run.status = "ABSENT"
  /\ run' = Saved([run EXCEPT !.status = "QUEUED"])
  /\ unsent' = unsent + 1
  /\ UNCHANGED <<loopVars, copy, effect, cancels, crashes>>

CanDecideOwn(a) ==   \* mutant: requesters may decide on their own change
  /\ run.status = "AWAITING_APPROVAL"
  /\ a \notin run.votes

CanDecide(a) ==
  /\ run.status = "AWAITING_APPROVAL"
  /\ a # Requester
  /\ a \notin run.votes

(* Mutant: the quorum is reached and nobody is told. *)
ApproveWithoutJob(a) ==
  LET votes == run.votes \union {a} IN
  /\ CanDecide(a)
  /\ IF Cardinality(votes) < Quorum[run.plan]
       THEN run' = Saved([run EXCEPT !.votes = votes, !.decision = "pending"])
       ELSE run' = Saved([run EXCEPT !.votes = votes, !.decision = "approved",
                                     !.status = "QUEUED", !.node = "execute"])
  /\ UNCHANGED <<loopVars, copy, unsent, effect, cancels, crashes>>

Approve(a) ==
  LET votes == run.votes \union {a} IN
  /\ CanDecide(a)
  /\ \/ /\ Cardinality(votes) < Quorum[run.plan]
        /\ run' = Saved([run EXCEPT !.votes = votes, !.decision = "pending"])
        /\ UNCHANGED unsent
     \/ /\ Cardinality(votes) >= Quorum[run.plan]
        /\ run' = Saved([run EXCEPT !.votes = votes, !.decision = "approved",
                                    !.status = "QUEUED", !.node = "execute"])
        /\ unsent' = unsent + 1
  /\ UNCHANGED <<loopVars, copy, effect, cancels, crashes>>

Deny(a) ==
  /\ CanDecide(a)
  /\ run' = Saved([run EXCEPT !.votes = @ \union {a}, !.decision = "denied",
                              !.status = "HANDED_OFF", !.node = "handed_off"])
  /\ UNCHANGED <<loopVars, copy, unsent, effect, cancels, crashes>>

Cancel ==
  /\ run.status \notin Final \union {"ABSENT"}
  /\ cancels < MaxCancels
  /\ cancels' = cancels + 1
  /\ \/ /\ run.status \in {"QUEUED", "AWAITING_APPROVAL", "FAILED"}
        /\ run' = Saved([run EXCEPT !.cancel = TRUE, !.status = "CANCELLED",
                                    !.node = "cancelled"])
     \/ /\ run.status = "RUNNING"
        /\ run' = Saved([run EXCEPT !.cancel = TRUE])
  /\ UNCHANGED <<loopVars, copy, unsent, effect, crashes>>

(* The job pool bounds how often the model lets a lead retry. *)
Retry ==
  /\ run.status = "FAILED"
  /\ run.attempt < MaxRunAttempts
  /\ Cardinality({j \in Job : job[j].status = "ABSENT"}) > unsent
  /\ run' = Saved([run EXCEPT !.status = "QUEUED"])
  /\ unsent' = unsent + 1
  /\ UNCHANGED <<loopVars, copy, effect, cancels, crashes>>

(* The second half of start, decide and retry_failed... *)
Enqueue(j) ==
  /\ unsent > 0
  /\ EnqueueJob(j)
  /\ unsent' = unsent - 1
  /\ UNCHANGED <<run, copy, effect, cancels, crashes>>

(* ...which a dying API process never reaches. *)
ApiCrash ==
  /\ unsent > 0
  /\ crashes < MaxApiCrashes
  /\ unsent' = unsent - 1
  /\ crashes' = crashes + 1
  /\ UNCHANGED <<loopVars, run, copy, effect, cancels>>

-----------------------------------------------------------------------------
(* The engine. *)
engineFrame == <<unsent, effect, cancels, crashes>>

ClaimStep(w) ==
  /\ \E j \in Job : ClaimJob(w, j)
  /\ UNCHANGED <<engineFrame, run, copy>>

LoadRun(w) ==
  /\ pc[w] = "claimed"
  /\ Goto(w, "loaded")
  /\ copy' = [copy EXCEPT ![w] = run]
  /\ UNCHANGED <<engineFrame, job, claim, lost, faults, errors, run>>

Forget(w) == copy' = [copy EXCEPT ![w] = NoRun]

CurrentAnyway(w) == TRUE   \* mutant: checkpoints overwrite what they find

Current(w) == copy[w].version = run.version

(* _checkpoint: store `record` and go on to `step`, or leave engine.process*)
(* with LeaseLostError or ConcurrencyError.  _run_node catches either, but *)
(* its own checkpoint then raises it again: neither the lease nor the      *)
(* version comes back.                                                     *)
CheckpointTo(w, record, step) ==
  /\ \/ /\ HoldsLease(w)
        /\ Current(w)
        /\ run' = Saved(record)
        /\ copy' = [copy EXCEPT ![w] = Saved(record)]
        /\ Goto(w, step)
        /\ UNCHANGED <<job, claim, lost, faults, errors>>
     \/ /\ ~HoldsLease(w)
        /\ Abandon(w)
        /\ Forget(w)
        /\ UNCHANGED run
     \/ /\ HoldsLease(w)
        /\ ~Current(w)
        /\ Raise(w)
        /\ Forget(w)
        /\ UNCHANGED run
  /\ UNCHANGED engineFrame

(* process: nothing to do for a run in a final state... *)
ProcessFinal(w) ==
  /\ pc[w] = "loaded"
  /\ copy[w].status \in Final
  /\ Return(w)
  /\ Forget(w)
  /\ UNCHANGED <<engineFrame, run>>

(* ...a cancelled one ends here... *)
ProcessCancelled(w) ==
  /\ pc[w] = "loaded"
  /\ copy[w].status \notin Final
  /\ copy[w].cancel
  /\ CheckpointTo(w, [copy[w] EXCEPT !.status = "CANCELLED", !.node = "cancelled"], "leaving")

(* Mutants: a recovered job reopens a run that is over, or takes no notice *)
(* of a cancellation.                                                      *)
ProcessReopens(w) ==
  /\ pc[w] = "loaded"
  /\ ~copy[w].cancel
  /\ CheckpointTo(w, [copy[w] EXCEPT !.status = "RUNNING", !.attempt = @ + 1], "node")

ProcessIgnoresCancel(w) ==
  /\ pc[w] = "loaded"
  /\ copy[w].status \notin Final
  /\ CheckpointTo(w, [copy[w] EXCEPT !.status = "RUNNING", !.attempt = @ + 1], "node")

(* ...and any other one, whatever its status, runs from its current node.  *)
ProcessBegin(w) ==
  /\ pc[w] = "loaded"
  /\ copy[w].status \notin Final
  /\ ~copy[w].cancel
  /\ CheckpointTo(w, [copy[w] EXCEPT !.status = "RUNNING", !.attempt = @ + 1], "node")

-----------------------------------------------------------------------------
(* Handlers.  A handler changes the copy; _run_node saves it, and process   *)
(* loops while it is RUNNING.                                              *)
At(w, node) == pc[w] = "node" /\ copy[w].node = node

EndNode(w, record) ==
  CheckpointTo(w, record, IF record.status = "RUNNING" THEN "node" ELSE "last")

Advance(w, node) == EndNode(w, [copy[w] EXCEPT !.node = node])
HandOff(w) == EndNode(w, [copy[w] EXCEPT !.status = "HANDED_OFF", !.node = "handed_off"])
Fail(w) == EndNode(w, [copy[w] EXCEPT !.status = "FAILED"])

Intake(w) == At(w, "intake") /\ Advance(w, "retrieve")
Retrieve(w) == At(w, "retrieve") /\ Advance(w, "investigate")
Investigate(w) == At(w, "investigate") /\ (Advance(w, "observe") \/ HandOff(w))
Observe(w) == At(w, "observe") /\ (Advance(w, "diagnose") \/ HandOff(w))

Diagnose(w) ==
  /\ At(w, "diagnose")
  /\ \/ HandOff(w)
     \/ \E p \in Plan : EndNode(w, [copy[w] EXCEPT !.plan = p, !.node = "policy"])

Policy(w) == At(w, "policy") /\ (Advance(w, "gate") \/ HandOff(w))

Gate(w) ==
  /\ At(w, "gate")
  /\ \/ /\ Quorum[copy[w].plan] > 0
        /\ EndNode(w, [copy[w] EXCEPT !.decision = "pending", !.votes = {},
                                      !.status = "AWAITING_APPROVAL", !.node = "approval"])
     \/ /\ Quorum[copy[w].plan] = 0
        /\ EndNode(w, [copy[w] EXCEPT !.decision = "not_required", !.node = "execute"])

(* The principal on whose behalf the plan is executed and compensated; the *)
(* handler raises without one: NodeFails.                                  *)
HasActor(w) ==
  \/ copy[w].decision = "not_required"
  \/ /\ copy[w].decision = "approved"
     /\ Cardinality(copy[w].votes) >= Quorum[copy[w].plan]

(* execute: a step whose success is on record is not called again; a call  *)
(* is answered, refused before it is sent, or its answer is lost.  A       *)
(* repeated call has the same idempotency key: it takes effect once.       *)
ExecuteRecorded(w) ==
  /\ At(w, "execute")
  /\ HasActor(w)
  /\ copy[w].write = "succeeded"
  /\ Advance(w, "verify")

PreconditionChanged(w) ==
  /\ At(w, "execute")
  /\ HasActor(w)
  /\ copy[w].write # "succeeded"
  /\ HandOff(w)

(* Mutant: every answer of the tool is taken for success. *)
CallToolOptimistic(w, outcome) ==
  /\ At(w, "execute")
  /\ copy[w].write # "succeeded"
  /\ HasActor(w)
  /\ copy' = [copy EXCEPT ![w].write = "succeeded"]
  /\ \/ outcome # "failed" /\ effect' = IF effect = "none" THEN "applied" ELSE effect
     \/ outcome # "succeeded" /\ UNCHANGED effect
  /\ Goto(w, "called")
  /\ UNCHANGED <<job, claim, lost, faults, errors, run, unsent, cancels, crashes>>

CallTool(w, outcome) ==
  /\ At(w, "execute")
  /\ copy[w].write # "succeeded"
  /\ HasActor(w)
  /\ copy' = [copy EXCEPT ![w].write = outcome]
  /\ \/ outcome # "failed" /\ effect' = IF effect = "none" THEN "applied" ELSE effect
     \/ outcome # "succeeded" /\ UNCHANGED effect
  /\ Goto(w, "called")
  /\ UNCHANGED <<job, claim, lost, faults, errors, run, unsent, cancels, crashes>>

RecordResult(w) ==
  /\ pc[w] = "called"
  /\ CheckpointTo(w, copy[w], "recorded")

ExecuteEnds(w) ==
  /\ pc[w] = "recorded"
  /\ \/ copy[w].write = "succeeded" /\ Advance(w, "verify")
     \/ copy[w].write = "unknown" /\ HandOff(w)
     \/ copy[w].write = "failed" /\ Fail(w)

(* verify: the success criteria hold, or the run fails at this node, after *)
(* the plan's compensation if it has one.  The compensation is called and  *)
(* its result stored while the handler is still at work: the run is FAILED *)
(* for everybody else before the handler ends.                             *)
VerifyPasses(w) ==
  /\ At(w, "verify")
  /\ copy[w].write = "succeeded"
  /\ Advance(w, "finalize")

VerifyFails(w) == At(w, "verify") /\ Fail(w)

Compensate(w) ==
  /\ At(w, "verify")
  /\ copy[w].write = "succeeded"
  /\ HasActor(w)
  /\ copy' = [copy EXCEPT ![w].status = "FAILED"]
  /\ \/ effect' = "undone"
     \/ UNCHANGED effect
  /\ Goto(w, "compensated")
  /\ UNCHANGED <<job, claim, lost, faults, errors, run, unsent, cancels, crashes>>

RecordCompensation(w) ==
  /\ pc[w] = "compensated"
  /\ CheckpointTo(w, copy[w], "confirming")

CompensationEnds(w) == pc[w] = "confirming" /\ EndNode(w, copy[w])

(* Mutant: the run ends in the status a job ends in. *)
FinalizeAsJob(w) ==
  /\ At(w, "finalize")
  /\ EndNode(w, [copy[w] EXCEPT !.status = "SUCCEEDED", !.node = "completed"])

Finalize(w) ==
  /\ At(w, "finalize")
  /\ EndNode(w, [copy[w] EXCEPT !.status = "COMPLETED", !.node = "completed"])

(* Any handler may raise, a store error after its tool call included.  A   *)
(* node without a handler is UNKNOWN_NODE.                                 *)
Handlers == Node \ {"approval", "completed", "handed_off", "cancelled"}

NodeFails(w) ==
  /\ \/ pc[w] = "node" /\ copy[w].node \in Handlers
     \/ pc[w] \in {"called", "compensated"}
  /\ Fail(w)

UnknownNode(w) ==
  /\ pc[w] = "node"
  /\ copy[w].node \notin Handlers
  /\ CheckpointTo(w, [copy[w] EXCEPT !.status = "FAILED"], "leaving")

LastCheckpoint(w) == pc[w] = "last" /\ CheckpointTo(w, copy[w], "leaving")

ProcessReturns(w) ==
  /\ pc[w] = "leaving"
  /\ Return(w)
  /\ Forget(w)
  /\ UNCHANGED <<engineFrame, run>>

-----------------------------------------------------------------------------
HeartbeatStep(w) == Heartbeat(w) /\ UNCHANGED <<engineFrame, run, copy>>
ErrorStep(w) == StoreError(w) /\ Forget(w) /\ UNCHANGED <<engineFrame, run>>
EndStep(w) == EndRunOnce(w) /\ Forget(w) /\ UNCHANGED <<engineFrame, run>>
CrashStep(w) == Crash(w) /\ Forget(w) /\ UNCHANGED <<engineFrame, run>>
TickStep == Tick /\ UNCHANGED <<engineFrame, run, copy>>

ApiStep ==
  \/ Start
  \/ \E a \in Approver : Approve(a) \/ Deny(a)
  \/ Cancel
  \/ Retry

EnqueueStep == \E j \in Job : Enqueue(j)

ProcessStep(w) ==
  \/ LoadRun(w)
  \/ ProcessFinal(w)
  \/ ProcessCancelled(w)
  \/ ProcessBegin(w)
  \/ Intake(w)
  \/ Retrieve(w)
  \/ Investigate(w)
  \/ Observe(w)
  \/ Diagnose(w)
  \/ Policy(w)
  \/ Gate(w)
  \/ ExecuteRecorded(w)
  \/ PreconditionChanged(w)
  \/ \E outcome \in Outcome \ {"none"} : CallTool(w, outcome)
  \/ RecordResult(w)
  \/ ExecuteEnds(w)
  \/ VerifyPasses(w)
  \/ VerifyFails(w)
  \/ Compensate(w)
  \/ RecordCompensation(w)
  \/ CompensationEnds(w)
  \/ Finalize(w)
  \/ NodeFails(w)
  \/ UnknownNode(w)
  \/ LastCheckpoint(w)
  \/ ProcessReturns(w)

WorkerStep(w) ==
  \/ ClaimStep(w)
  \/ HeartbeatStep(w)
  \/ ProcessStep(w)
  \/ ErrorStep(w)
  \/ EndStep(w)
  \/ CrashStep(w)

Next ==
  \/ ApiStep
  \/ EnqueueStep
  \/ ApiCrash
  \/ \E w \in Worker : WorkerStep(w)
  \/ TickStep

Spec == Init /\ [][Next]_vars

(* People decide when they like; a saved API operation goes on to enqueue, *)
(* the clock runs, and a worker process keeps working.                     *)
Fairness ==
  /\ WF_vars(EnqueueStep)
  /\ WF_vars(TickStep)
  /\ \A w \in Worker :
       /\ WF_vars(ClaimStep(w))
       /\ WF_vars(ProcessStep(w))
       /\ WF_vars(EndStep(w))

FairSpec == Spec /\ Fairness

-----------------------------------------------------------------------------
(* No write before the quorum: an effect at the tool boundary means that   *)
(* the stored run carries the approval of its plan by enough people other  *)
(* than its requester, or that its plan needed none -- whatever crashed,   *)
(* was recovered, or worked on a stale copy in between.                    *)
WriteApproved ==
  effect # "none" =>
    \/ run.decision = "not_required" /\ Quorum[run.plan] = 0
    \/ /\ run.decision = "approved"
       /\ Cardinality(run.votes) >= Quorum[run.plan]
       /\ Requester \notin run.votes

(* A run that is completed, cancelled or handed off stays as it is: a late *)
(* vote, retry, recovery or stale checkpoint changes nothing of it.  Only  *)
(* the version moves on, by the last checkpoint of the worker that ended it.*)
FinalStays ==
  [][run.status \in Final => [run' EXCEPT !.version = run.version] = run]_vars

(* An accepted cancellation wins over every worker that has not seen it:   *)
(* the run can only stay RUNNING or become CANCELLED.                      *)
CancelWins ==
  [][run.cancel => run'.cancel /\ run'.status \in {"RUNNING", "CANCELLED"}]_vars

(* No concurrent vote, checkpoint or recovery drops a vote once stored.    *)
VotesKept == [][run.votes \subseteq run'.votes]_vars

(* A run reported as completed did make its write.                         *)
CompletedWrote ==
  run.status = "COMPLETED" => effect # "none" /\ run.write = "succeeded"

(* Nobody else decides: a run awaiting approval leaves that state by an    *)
(* approval, a denial or a cancellation.                                   *)
AwaitsDecision ==
  [][run.status = "AWAITING_APPROVAL" /\ run'.status # "AWAITING_APPROVAL"
       => run'.status \in {"QUEUED", "HANDED_OFF", "CANCELLED"}]_vars

LiveJob == \E j \in Job : job[j].status \in {"QUEUED", "CLAIMED"}

(* A queued run has a job that will take it up. *)
QueuedHasJob == run.status = "QUEUED" => LiveJob \/ unsent > 0

(* A run whose cancellation was accepted still has somebody to carry it out.*)
CancelCarriedOut == run.cancel /\ run.status = "RUNNING" => LiveJob \/ unsent > 0

(* A queued run eventually reaches a state in which it waits for a person  *)
(* or is over.                                                             *)
Settled == run.status \in Final \union {"AWAITING_APPROVAL", "FAILED"}
RunSettles == run.status = "QUEUED" ~> Settled
=============================================================================
