---------------------------- MODULE PlanExecution ----------------------------
(***************************************************************************)
(* The nodes execute, verify and finalize of AgentEngine on an approved    *)
(* plan: act step by step, read the symptom again, and compensate what a   *)
(* tool can undo when the reading is bad.  The tool boundary loses answers,*)
(* workers die between any two steps, and a second worker may take the run *)
(* up at any time; how jobs and leases bring that about is AgentRun's.     *)
(***************************************************************************)
EXTENDS ToolBoundary, SequencesExt

CONSTANTS
  Worker,
  Plan,         \* the approved plans: their steps as listed, and depends_on
  MaxAttempts,  \* max_attempts of a run: the limit of a manual retry
  MaxBegins     \* bound: how often the run is taken up

ASSUME PlanAssumption ==
  Plan \subseteq [list: Seq(Step), depends: [Step -> SUBSET Step]]
ASSUME ListAssumption == \A p \in Plan : p.list # <<>>   \* else EMPTY_PLAN
ASSUME BeginsAssumption == MaxBegins \in Nat /\ MaxAttempts \in Nat

VARIABLES
  plan,     \* the run's plan, never changed after its approval
  run,      \* the stored run
  copy,     \* the run in each worker's memory
  current,  \* the workers whose copy has the stored version
  pc,       \* where the handler of each worker is
  at,       \* how many steps the handler's loop has dealt with
  ok,       \* whether all went well with them
  heard     \* the outcome of the worker's last call

workerVars == <<pc, at, ok, heard>>
vars == <<cures, labVars, plan, run, copy, current, workerVars>>

Verdict == {"good", "bad", "lost", "refused"}
Place == {"idle", "execute", "acted", "verify", "read", "compensate", "undone",
          "confirm", "confirmed", "finalize"}
Error == {"none", "failed", "rolled_back", "rollback_failed", "manual"}

(* results keeps the successful ones: no other is ever looked at again. *)
Run == [status: {"QUEUED", "RUNNING", "FAILED", "HANDED_OFF", "COMPLETED"},
        node: {"execute", "verify", "finalize"},
        attempt: 0..MaxBegins, error: Error, results: [Key -> Answer]]

TypeOK ==
  /\ LabTypeOK
  /\ plan \in Plan
  /\ run \in Run
  /\ copy \in [Worker -> Run]
  /\ current \subseteq Worker
  /\ pc \in [Worker -> Place]
  /\ at \in [Worker -> Nat]
  /\ ok \in [Worker -> BOOLEAN]
  /\ heard \in [Worker -> Verdict]

ApprovedRun == [status |-> "QUEUED", node |-> "execute", attempt |-> 0,
                error |-> "none", results |-> Unanswered]

Init ==
  /\ LabInit
  /\ plan \in Plan
  /\ run = ApprovedRun
  /\ copy = [w \in Worker |-> ApprovedRun]
  /\ current = {}
  /\ pc = [w \in Worker |-> "idle"]
  /\ at = [w \in Worker |-> 0]
  /\ ok = [w \in Worker |-> TRUE]
  /\ heard = [w \in Worker |-> "good"]

-----------------------------------------------------------------------------
(* _topological: batches of steps that wait for nothing any more, each in  *)
(* the order of the ids.                                                   *)
Ready(p, P) == {s \in P : p.depends[s] \intersect P = {}}

Topological(p) ==
  LET from[P \in SUBSET Step] ==
        IF Ready(p, P) = {} THEN <<>>
        ELSE SetToSortSeq(Ready(p, P), <) \o from[P \ Ready(p, P)]
  IN from[ToSet(p.list)]

Steps == ToSet(plan.list)

Acted(record, s) == record.results[Act(s)] # "none"

(* The turns of the execute loop whose steps it has not seen succeed. *)
Todo(w) == {i \in DOMAIN Topological(plan) : ~Acted(copy[w], Topological(plan)[i])}

(* The steps a tool can undo, last one first. *)
ToUndo == Reverse(SelectSeq(Topological(plan), LAMBDA s : s \in Scaling))

Irreversible == Steps \ Scaling

-----------------------------------------------------------------------------
Goto(w, step) == pc' = [pc EXCEPT ![w] = step]

(* A loop of the handler begins. *)
Loop(w, step) ==
  /\ Goto(w, step)
  /\ at' = [at EXCEPT ![w] = 0]
  /\ ok' = [ok EXCEPT ![w] = TRUE]

(* The worker is done with the run, or dead.  Its memory is gone. *)
Leave(w) ==
  /\ pc' = [pc EXCEPT ![w] = "idle"]
  /\ at' = [at EXCEPT ![w] = 0]
  /\ ok' = [ok EXCEPT ![w] = TRUE]
  /\ heard' = [heard EXCEPT ![w] = "good"]
  /\ copy' = [copy EXCEPT ![w] = ApprovedRun]

(* _checkpoint, when nobody has stored the run since.  Otherwise, or when  *)
(* the lease is lost, the worker leaves: Crash.                            *)
Save(w, record) ==
  /\ w \in current
  /\ run' = record
  /\ copy' = [copy EXCEPT ![w] = record]
  /\ current' = {w}

SaveAndLeave(w, record) ==
  /\ w \in current
  /\ run' = record
  /\ current' = {}
  /\ Leave(w)

(* Only a success counts for later: an unknown or failed result does not   *)
(* answer the call when it is repeated.                                    *)
RememberAll(w, k, v) == copy' = [copy EXCEPT ![w].results[k] = v]   \* mutant

(* Mutant: a call whose answer is lost will have succeeded. *)
RememberLost(w, k, v) ==
  copy' = [copy EXCEPT ![w].results[k] =
             IF v = "lost" THEN "good" ELSE IF v \in Answer THEN v ELSE @]

Remember(w, k, v) ==
  copy' = [copy EXCEPT ![w].results[k] = IF v \in Answer THEN v ELSE @]

(* ToolExecutor.execute: a result on record is taken as it is; otherwise   *)
(* the call is answered, or its answer is lost, or it is never sent.       *)
Outcome(w, k, v) ==
  \/ /\ copy[w].results[k] # "none"
     /\ v = copy[w].results[k]
     /\ UNCHANGED labVars
  \/ /\ copy[w].results[k] = "none"
     /\ \/ v = AnswerTo(k) /\ Serve(k) /\ UNCHANGED late
        \/ v = "lost" /\ GiveUp(k)
        \/ v = "refused" /\ UNCHANGED labVars

Call(w, k, next) ==
  /\ \E v \in Verdict :
       /\ Outcome(w, k, v)
       /\ Remember(w, k, v)
       /\ heard' = [heard EXCEPT ![w] = v]
  /\ Goto(w, next)
  /\ UNCHANGED <<cures, plan, run, current, at, ok>>

(* Mutant: what is not known to have failed has succeeded. *)
SucceededUnlessKnown(v) == v \in {"good", "lost"}

Succeeded(v) == v = "good"

runFrame == <<cures, labVars, plan>>

-----------------------------------------------------------------------------
(* process takes a queued run up; or a run whose worker died or lost its   *)
(* lease; or a failed one, when a worker died just before finishing its    *)
(* job.                                                                    *)
Begin(w) ==
  /\ pc[w] = "idle"
  /\ run.status \in {"QUEUED", "RUNNING", "FAILED"}
  /\ run.attempt < MaxBegins
  /\ run' = [run EXCEPT !.status = "RUNNING", !.attempt = @ + 1]
  /\ copy' = [copy EXCEPT ![w] = run']
  /\ current' = {w}
  /\ Loop(w, run.node)
  /\ UNCHANGED <<runFrame, heard>>

(* retry_failed: back to the node that failed, with its results. *)
Retry ==
  /\ run.status = "FAILED"
  /\ run.attempt < MaxAttempts
  /\ run' = [run EXCEPT !.status = "QUEUED", !.error = "none"]
  /\ current' = {}
  /\ UNCHANGED <<runFrame, copy, workerVars>>

(* The process dies, or finds its lease or its version gone. *)
Crash(w) ==
  /\ pc[w] # "idle"
  /\ Leave(w)
  /\ current' = current \ {w}
  /\ UNCHANGED <<runFrame, run>>

(* _run_node: an exception in the handler fails the run where it is. *)
NodeFails(w) ==
  /\ pc[w] # "idle"
  /\ SaveAndLeave(w, [copy[w] EXCEPT !.status = "FAILED", !.error = "failed"])
  /\ UNCHANGED runFrame

-----------------------------------------------------------------------------
(* execute *)
CallAct(w, s) ==
  /\ pc[w] = "execute"
  /\ \E i \in Todo(w) : s = Topological(plan)[i] /\ \A j \in Todo(w) : i <= j
  /\ \A t \in plan.depends[s] : Acted(copy[w], t)
  /\ Call(w, Act(s), "acted")

(* Mutant: results are stored when the node ends, not after each step. *)
RecordActLater(w) ==
  /\ pc[w] = "acted"
  /\ Succeeded(heard[w])
  /\ Goto(w, "execute")
  /\ UNCHANGED <<runFrame, run, copy, current, at, ok, heard>>

RecordAct(w) ==
  /\ pc[w] = "acted"
  /\ Succeeded(heard[w])
  /\ Save(w, copy[w])
  /\ Goto(w, "execute")
  /\ UNCHANGED <<runFrame, at, ok, heard>>

(* The step's result is stored before the node's: a crash in between leads *)
(* where a crash before both leads.                                        *)
ActUnknown(w) ==
  /\ pc[w] = "acted"
  /\ heard[w] = "lost"
  /\ SaveAndLeave(w, [copy[w] EXCEPT !.status = "HANDED_OFF"])
  /\ UNCHANGED runFrame

ActFailed(w) ==
  /\ pc[w] = "acted"
  /\ heard[w] = "refused"
  /\ SaveAndLeave(w, [copy[w] EXCEPT !.status = "FAILED", !.error = "failed"])
  /\ UNCHANGED runFrame

(* A precondition no longer fits the observations on record. *)
PreconditionChanged(w) ==
  /\ pc[w] = "execute"
  /\ Todo(w) # {}
  /\ SaveAndLeave(w, [copy[w] EXCEPT !.status = "HANDED_OFF"])
  /\ UNCHANGED runFrame

ExecuteEnds(w) ==
  /\ pc[w] = "execute"
  /\ Todo(w) = {}
  /\ Save(w, [copy[w] EXCEPT !.node = "verify"])
  /\ Loop(w, "verify")
  /\ UNCHANGED <<runFrame, heard>>

-----------------------------------------------------------------------------
(* verify: one reading for every step, in the order of the plan.  The run  *)
(* gets here with the success of every step on record.                     *)
CallCheck(w, s) ==
  /\ pc[w] = "verify"
  /\ at[w] < Len(plan.list)
  /\ s = plan.list[at[w] + 1]
  /\ Call(w, Check(s), "read")

(* The loop's next turn, after a checkpoint. *)
NextTurn(w, step, good) ==
  /\ Save(w, copy[w])
  /\ Goto(w, step)
  /\ at' = [at EXCEPT ![w] = @ + 1]
  /\ ok' = [ok EXCEPT ![w] = @ /\ good]
  /\ UNCHANGED <<runFrame, heard>>

RecordReading(w) ==
  /\ pc[w] = "read"
  /\ NextTurn(w, "verify", Succeeded(heard[w]))

VerifyPasses(w) ==
  /\ pc[w] = "verify"
  /\ at[w] = Len(plan.list)
  /\ ok[w]
  /\ Save(w, [copy[w] EXCEPT !.node = "finalize"])
  /\ Loop(w, "finalize")
  /\ UNCHANGED <<runFrame, heard>>

(* The run is FAILED in memory; the next checkpoint makes it so for all. *)
VerifyFails(w) ==
  /\ pc[w] = "verify"
  /\ at[w] = Len(plan.list)
  /\ ~ok[w]
  /\ copy' = [copy EXCEPT ![w].status = "FAILED"]
  /\ Loop(w, "compensate")
  /\ UNCHANGED <<runFrame, run, current, heard>>

CallUndo(w, s) ==
  /\ pc[w] = "compensate"
  /\ at[w] < Len(ToUndo)
  /\ s = ToUndo[at[w] + 1]
  /\ Acted(copy[w], s)
  /\ Call(w, Undo(s), "undone")

RecordUndo(w) ==
  /\ pc[w] = "undone"
  /\ Succeeded(heard[w])
  /\ Save(w, copy[w])
  /\ Goto(w, "confirm")
  /\ UNCHANGED <<runFrame, at, ok, heard>>

(* What could not be undone does not keep the other steps from it. *)
UndoFailed(w) ==
  /\ pc[w] = "undone"
  /\ ~Succeeded(heard[w])
  /\ NextTurn(w, "compensate", FALSE)

CallConfirm(w, s) ==
  /\ pc[w] = "confirm"
  /\ s = ToUndo[at[w] + 1]
  /\ Call(w, Confirm(s), "confirmed")

RecordConfirmation(w) ==
  /\ pc[w] = "confirmed"
  /\ NextTurn(w, "compensate", Succeeded(heard[w]))

(* Mutant: the steps no tool can undo are left out of the account. *)
VerdictOnTools(w) ==
  IF at[w] = 0 THEN "manual" ELSE IF ok[w] THEN "rolled_back" ELSE "rollback_failed"

(* The error code of a failed verification, from what has been undone. *)
FailureCode(w) ==
  IF at[w] > 0 /\ ok[w] /\ Irreversible = {} THEN "rolled_back"
  ELSE IF at[w] > 0 /\ ~ok[w] THEN "rollback_failed"
  ELSE "manual"

CompensationEnds(w) ==
  /\ pc[w] = "compensate"
  /\ at[w] = Len(ToUndo)
  /\ SaveAndLeave(w, [copy[w] EXCEPT !.error = FailureCode(w)])
  /\ UNCHANGED runFrame

Finalize(w) ==
  /\ pc[w] = "finalize"
  /\ SaveAndLeave(w, [copy[w] EXCEPT !.status = "COMPLETED"])
  /\ UNCHANGED runFrame

-----------------------------------------------------------------------------
WorkerStep(w) ==
  \/ Begin(w)
  \/ Crash(w)
  \/ NodeFails(w)
  \/ \E s \in Steps : CallAct(w, s)
  \/ RecordAct(w)
  \/ ActUnknown(w)
  \/ ActFailed(w)
  \/ PreconditionChanged(w)
  \/ ExecuteEnds(w)
  \/ \E s \in Step : CallCheck(w, s)
  \/ RecordReading(w)
  \/ VerifyPasses(w)
  \/ VerifyFails(w)
  \/ \E s \in Step : CallUndo(w, s)
  \/ RecordUndo(w)
  \/ UndoFailed(w)
  \/ \E s \in Step : CallConfirm(w, s)
  \/ RecordConfirmation(w)
  \/ CompensationEnds(w)
  \/ Finalize(w)

LateArrival ==
  /\ \E k \in Key : Arrive(k)
  /\ UNCHANGED <<cures, plan, run, copy, current, workerVars>>

Next ==
  \/ \E w \in Worker : WorkerStep(w)
  \/ Retry
  \/ LateArrival

Spec == Init /\ [][Next]_vars

-----------------------------------------------------------------------------
(* However often a call is repeated, by the same worker, by another one or *)
(* by the network, it changes the system it acts on once.                  *)
EffectOnce == \A k \in Key : effects[k] <= 1

(* A step has its effect only when the success of every step it depends on *)
(* is in the stored run: a crash cannot make the run forget a dependency   *)
(* others already build on.                                                *)
DependenciesRecorded ==
  \A s \in Step : effects[Act(s)] > 0 => \A t \in plan.depends[s] : Acted(run, t)

(* A run never completes on a plan that does not lift the fault, whatever  *)
(* its tools answered.                                                     *)
NoPseudoSuccess == run.status = "COMPLETED" => Steps \intersect cures # {}

(* "Rolled back" means that nothing the plan did is in force any more.     *)
RolledBackIsRestored ==
  run.status = "FAILED" /\ run.error = "rolled_back" => inForce = {}

(* From outside, steps happen once and in order, and so does undoing them. *)
Effects == INSTANCE PlanEffects WITH
  depends <- plan.depends,
  done <- {s \in Step : effects[Act(s)] > 0},
  undone <- {s \in Step : effects[Undo(s)] > 0}

ImplementsPlanEffects == Effects!Spec

(* The documentation has verify read the symptom again: a run completes    *)
(* when the symptom is gone.                                               *)
CompletedRepaired == [][run.status # "COMPLETED" /\ run'.status = "COMPLETED" => Cured]_vars
=============================================================================
