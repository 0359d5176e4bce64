----------------------------- MODULE LeasedStore -----------------------------
(***************************************************************************)
(* The durable store and everybody who writes to it: the workers, which    *)
(* save a run under the lease of the job they claimed, and the API         *)
(* requests, which read a run, save it under an optimistic version check   *)
(* and may then enqueue a job.                                             *)
(*                                                                         *)
(* A run is its version and the set of saves its payload contains: save n  *)
(* is the n-th one that was accepted.  What a save changes is AgentRun's.  *)
(***************************************************************************)
EXTENDS WorkerLoop

CONSTANTS
  Run, Client,
  RunOf,        \* the run each job id is enqueued for
  MaxVersion    \* bound: saves per run

ASSUME RunOfAssumption == RunOf \in [Job -> Run]
ASSUME RunAssumption == None \notin Run
ASSUME WritersAssumption == Worker \intersect Client = {}
ASSUME VersionAssumption == MaxVersion \in Nat

VARIABLES
  run,      \* agent_runs
  request,  \* the API request each client has in progress
  copy,     \* the run record in each writer's memory
  saves,    \* history: the number of accepted saves of each run
  written   \* history: the token of the last leased save under each job

vars == <<job, pc, claim, lost, faults, errors, run, request, copy, saves, written>>

Writer == Worker \union Client
Record == [version: Nat, edits: SUBSET Nat]
Missing == [version |-> 0, edits |-> {}]
Request == [stage: {"none", "loaded", "saved"}, run: Run \union {None}]
NoRequest == [stage |-> "none", run |-> None]

TypeOK ==
  /\ LoopTypeOK({"claimed", "processing"})
  /\ run \in [Run -> Record]
  /\ request \in [Client -> Request]
  /\ \A c \in Client : request[c].stage # "none" => request[c].run \in Run
  /\ copy \in [Writer -> Record]
  /\ saves \in [Run -> Nat]
  /\ written \in [Job -> Nat]

Init ==
  /\ LoopInit
  /\ run = [r \in Run |-> Missing]
  /\ request = [c \in Client |-> NoRequest]
  /\ copy = [x \in Writer |-> Missing]
  /\ saves = [r \in Run |-> 0]
  /\ written = [j \in Job |-> 0]

-----------------------------------------------------------------------------
(* save_run: compare the version, then replace the record and advance the  *)
(* version of the copy in memory.  A run not stored yet has version 0.     *)
CanSaveAnyway(x, r) == TRUE   \* mutant: the last writer wins

CanSave(x, r) == copy[x].version = run[r].version

Edited(x, r) == [version |-> copy[x].version + 1,
                 edits |-> copy[x].edits \union {saves[r] + 1}]

Save(x, r) ==
  /\ run[r].version < MaxVersion
  /\ CanSave(x, r)
  /\ run' = [run EXCEPT ![r] = Edited(x, r)]
  /\ copy' = [copy EXCEPT ![x] = Edited(x, r)]
  /\ saves' = [saves EXCEPT ![r] = @ + 1]

Forget(x) == copy' = [copy EXCEPT ![x] = Missing]

(* A new run's id is known to the request that creates it alone. *)
BeginRequest(c, r) ==
  /\ request[c].stage = "none"
  /\ run[r].version = 0 => \A d \in Client : request[d].run # r
  /\ request' = [request EXCEPT ![c] = [stage |-> "loaded", run |-> r]]
  /\ copy' = [copy EXCEPT ![c] = run[r]]
  /\ UNCHANGED <<loopVars, run, saves, written>>

SaveRun(c) ==
  /\ request[c].stage = "loaded"
  /\ Save(c, request[c].run)
  /\ request' = [request EXCEPT ![c].stage = "saved"]
  /\ UNCHANGED <<loopVars, written>>

CloseRequest(c) ==
  /\ request' = [request EXCEPT ![c] = NoRequest]
  /\ Forget(c)
  /\ UNCHANGED <<run, saves, written>>

RequestJob(c, j) ==
  /\ request[c].stage = "saved"
  /\ RunOf[j] = request[c].run
  /\ EnqueueJob(j)
  /\ CloseRequest(c)

(* The request ends here: refused, in conflict, nothing to enqueue, or the *)
(* process serving it died.                                                *)
EndRequest(c) ==
  /\ request[c].stage # "none"
  /\ CloseRequest(c)
  /\ UNCHANGED loopVars

-----------------------------------------------------------------------------
ClaimStep(w) ==
  /\ \E j \in Job : ClaimJob(w, j)
  /\ UNCHANGED <<run, request, copy, saves, written>>

HeartbeatStep(w) == Heartbeat(w) /\ UNCHANGED <<run, request, copy, saves, written>>

(* engine.process reads the run it is going to work on. *)
LoadRun(w) ==
  /\ pc[w] = "claimed"
  /\ Goto(w, "processing")
  /\ copy' = [copy EXCEPT ![w] = run[RunOf[claim[w].job]]]
  /\ UNCHANGED <<job, claim, lost, faults, errors, run, request, saves, written>>

(* save_run_with_lease: the fence first, then the version. *)
Checkpoint(w) ==
  /\ pc[w] = "processing"
  /\ HoldsLease(w)
  /\ Save(w, RunOf[claim[w].job])
  /\ written' = [written EXCEPT ![claim[w].job] = claim[w].token]
  /\ UNCHANGED <<loopVars, request>>

CheckpointLeaseLost(w) ==
  /\ pc[w] = "processing"
  /\ ~HoldsLease(w)
  /\ Abandon(w)
  /\ Forget(w)
  /\ UNCHANGED <<run, request, saves, written>>

CheckpointConflict(w) ==
  /\ pc[w] = "processing"
  /\ HoldsLease(w)
  /\ ~CanSave(w, RunOf[claim[w].job])
  /\ Raise(w)
  /\ UNCHANGED <<run, request, copy, saves, written>>

ErrorStep(w) == StoreError(w) /\ UNCHANGED <<run, request, copy, saves, written>>

ReturnStep(w) ==
  /\ pc[w] = "processing"
  /\ Return(w)
  /\ Forget(w)
  /\ UNCHANGED <<run, request, saves, written>>

EndStep(w) ==
  /\ EndRunOnce(w)
  /\ Forget(w)
  /\ UNCHANGED <<run, request, saves, written>>

CrashStep(w) ==
  /\ Crash(w)
  /\ Forget(w)
  /\ UNCHANGED <<run, request, saves, written>>

TickStep == Tick /\ UNCHANGED <<run, request, copy, saves, written>>

-----------------------------------------------------------------------------
ClientStep(c) ==
  \/ \E r \in Run : BeginRequest(c, r)
  \/ SaveRun(c)
  \/ \E j \in Job : RequestJob(c, j)
  \/ EndRequest(c)

WorkerStep(w) ==
  \/ ClaimStep(w)
  \/ HeartbeatStep(w)
  \/ LoadRun(w)
  \/ Checkpoint(w)
  \/ CheckpointLeaseLost(w)
  \/ CheckpointConflict(w)
  \/ ErrorStep(w)
  \/ ReturnStep(w)
  \/ EndStep(w)
  \/ CrashStep(w)

Next ==
  \/ \E c \in Client : ClientStep(c)
  \/ \E w \in Worker : WorkerStep(w)
  \/ TickStep

Spec == Init /\ [][Next]_vars

(* The wall clock runs; a worker process is restarted when it dies, keeps  *)
(* claiming, and engine.process, whose calls all have timeouts, returns.   *)
(* Nothing obliges a client.                                               *)
Fairness ==
  /\ WF_vars(TickStep)
  /\ \A w \in Worker :
       /\ WF_vars(ClaimStep(w))
       /\ WF_vars(LoadRun(w))
       /\ WF_vars(ReturnStep(w))
       /\ WF_vars(EndStep(w))

FairSpec == Spec /\ Fairness

-----------------------------------------------------------------------------
(* A stored record contains the change of every save accepted before it,   *)
(* whoever made it and however old the copy it was made from.              *)
NoLostUpdate == \A r \in Run : run[r].edits = 1..saves[r]

(* Once a save was accepted under a token, none is accepted under an older *)
(* token of that job: a worker that lost its job cannot write after the    *)
(* worker that recovered it.                                               *)
FencingOrder == [][\A j \in Job : written'[j] >= written[j]]_vars

(* Seen from outside, saves are atomic and grants are ordered.             *)
Atomic == INSTANCE AtomicRun WITH
  version <- [r \in Run |-> run[r].version],
  content <- [r \in Run |-> run[r].edits],
  epoch <- [j \in Job |-> job[j].token],
  author <- written,
  closed <- {j \in Job : job[j].status \in Ended}

ImplementsAtomicRun == Atomic!Spec
=============================================================================
