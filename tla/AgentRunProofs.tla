--------------------------- MODULE AgentRunProofs ---------------------------
(***************************************************************************)
(* Proofs about AgentRun, for every number of workers, jobs, plans and     *)
(* approvers, every quorum and every value of the bounds.                  *)
(***************************************************************************)
EXTENDS AgentRun, WorkerLoopProofs

(* --------------------------- The invariant ------------------------------ *)

Early == {"intake", "retrieve", "investigate", "observe", "diagnose", "policy", "gate"}
Past == {"execute", "verify", "finalize", "completed", "handed_off", "cancelled"}

Decided(record) == record.decision \in {"not_required", "approved"}

(* What is true of a record wherever it is, stored or in a worker's memory. *)
Shape(record) ==
  /\ record.decision = "not_required" => Quorum[record.plan] = 0
  /\ record.decision = "approved" => Cardinality(record.votes) >= Quorum[record.plan]
  /\ Decided(record) => record.node \in Past
  /\ record.status = "AWAITING_APPROVAL" => /\ record.decision = "pending"
                                            /\ record.node = "approval"
  /\ record.node \in {"finalize", "completed"} => record.write = "succeeded"
  /\ record.status = "COMPLETED" => record.node = "completed"
  /\ record.votes # {} => record.node \notin Early
  /\ Requester \notin record.votes
  /\ record.cancel => record.status \in {"RUNNING", "CANCELLED"}

(* A decision, once made, is the run's for good. *)
SameDecision(a, b) == b.decision = a.decision /\ b.plan = a.plan /\ b.votes = a.votes

(* The places at which a worker acts on its copy, and what it knows there. *)
AtWork == {"node", "called", "recorded", "compensated", "confirming"}

Placed(record, step) ==
  /\ step \in {"node", "called", "recorded"} => record.status = "RUNNING"
  /\ step \in {"compensated", "confirming"} => /\ record.status = "FAILED"
                                               /\ record.node = "verify"
  /\ step \in {"called", "recorded"} => record.node = "execute"
  /\ step \in AtWork \union {"last"} => ~record.cancel

(* A copy of the stored version differs from the stored record only by a   *)
(* tool result that has not been stored yet.                               *)
Follows(record, step, stored) ==
  /\ step = "called" => [record EXCEPT !.write = stored.write] = stored
  /\ step = "compensated" => [record EXCEPT !.status = "RUNNING"] = stored
  /\ step \in {"loaded", "node", "recorded", "confirming", "last"} => record = stored

Sound(record, step, stored, done) ==
  /\ Shape(record)
  /\ record.version <= stored.version
  /\ record.write = "succeeded" => done # "none"
  /\ Decided(record) => SameDecision(record, stored)
  /\ Placed(record, step)
  /\ record.version = stored.version => Follows(record, step, stored)

Consistent ==
  /\ Shape(run)
  /\ run.write = "succeeded" => effect # "none"
  /\ effect # "none" => Decided(run)
  /\ \A w \in Worker : Sound(copy[w], pc[w], run, effect)

Inv == TypeOK /\ Consistent

(* What a step may do with the stored record: the action properties of     *)
(* AgentRun as one formula.                                                *)
Lawful(old, new) ==
  /\ old.status \in Final => [new EXCEPT !.version = old.version] = old
  /\ old.cancel => new.cancel /\ new.status \in {"RUNNING", "CANCELLED"}
  /\ old.votes \subseteq new.votes

(* ------------------------------ Records --------------------------------- *)

(* The fields of a record have their types.                                *)
LEMMA RecordFields ==
  ASSUME NEW r \in Record
  PROVE  /\ r.version \in Nat
         /\ r.attempt \in Nat
         /\ r.status \in Status
         /\ r.node \in Node
         /\ r.cancel \in BOOLEAN
         /\ r.plan \in Plan \union {None}
         /\ r.decision \in Decision
         /\ r.votes \in SUBSET Approver
         /\ r.write \in Outcome
         /\ r = [version |-> r.version, status |-> r.status, node |-> r.node,
                 attempt |-> r.attempt, cancel |-> r.cancel, plan |-> r.plan,
                 decision |-> r.decision, votes |-> r.votes, write |-> r.write]
  BY DEF Record

(* A saved record differs from the record in its version alone.            *)
LEMMA SavedFields ==
  ASSUME NEW r \in Record
  PROVE  /\ Saved(r) \in Record
         /\ Saved(r).version = r.version + 1
         /\ Saved(r).status = r.status
         /\ Saved(r).node = r.node
         /\ Saved(r).attempt = r.attempt
         /\ Saved(r).cancel = r.cancel
         /\ Saved(r).plan = r.plan
         /\ Saved(r).decision = r.decision
         /\ Saved(r).votes = r.votes
         /\ Saved(r).write = r.write
  BY DEF Record, Saved

(* The empty record is a record and sound in any worker that is not at work. *)
LEMMA NoRunSound ==
  ASSUME NEW step, step \notin EngineSteps \/ step = "claimed",
         NEW stored \in Record, NEW done
  PROVE  NoRun \in Record /\ Shape(NoRun) /\ Sound(NoRun, step, stored, done)
<1>1. NoRun \in Record
  BY DEF NoRun, Record, Status, Node, Decision, Outcome
<1>2. Shape(NoRun)
  BY DEF Shape, NoRun, Decided, Past
<1>3. QED
  BY <1>1, <1>2 DEF Sound, NoRun, Decided, Placed, Follows, AtWork, EngineSteps, Record

(* When the stored record moves on to its next version and keeps a decision*)
(* it carried, a worker's copy stays sound: it is stale now.               *)
LEMMA StaleSound ==
  ASSUME NEW r \in Record, NEW step, NEW old \in Record, NEW new \in Record, NEW done,
         Sound(r, step, old, done), new.version = old.version + 1,
         Decided(old) => SameDecision(old, new)
  PROVE  Sound(r, step, new, done)
<1>1. /\ r.version \in Nat
      /\ old.version \in Nat
  BY RecordFields
<1>2. r.version <= new.version /\ r.version # new.version
  BY <1>1 DEF Sound
<1>3. Decided(r) => SameDecision(r, new)
  BY DEF Sound, SameDecision, Decided
<1>4. QED
  BY <1>2, <1>3 DEF Sound

(* ----------------------- Steps of the stored record --------------------- *)

LEMMA InvFacts ==
  ASSUME Inv
  PROVE  /\ run \in Record
         /\ Shape(run)
         /\ \A w \in Worker : copy[w] \in Record /\ Sound(copy[w], pc[w], run, effect)
  BY DEF Inv, TypeOK, Consistent

(* A save that keeps what the record had to keep: by an API operation or a *)
(* checkpoint, in each case of a record of the stored version.             *)
Keeps(record) ==
  /\ record \in Record
  /\ Shape(record)
  /\ record.version = run.version
  /\ record.write = "succeeded" => effect # "none"
  /\ Decided(run) => SameDecision(run, record)

LEMMA SavedKeeps ==
  ASSUME Inv, NEW record, Keeps(record)
  PROVE  /\ Saved(record) \in Record
         /\ Shape(Saved(record))
         /\ Saved(record).write = "succeeded" => effect # "none"
         /\ effect # "none" => Decided(Saved(record))
         /\ Decided(run) => SameDecision(run, Saved(record))
         /\ Saved(record).version = run.version + 1
         /\ \A w \in Worker : Sound(copy[w], pc[w], Saved(record), effect)
<1>1. record \in Record /\ run \in Record
  BY InvFacts DEF Keeps
<1>2. Shape(Saved(record))
  BY <1>1, SavedFields DEF Keeps, Shape, Decided
<1>3. Decided(run) => SameDecision(run, Saved(record))
  BY <1>1, SavedFields DEF Keeps, SameDecision
<1>4. effect # "none" => Decided(Saved(record))
  BY <1>3 DEF Inv, Consistent, Decided, SameDecision
<1>5. Saved(record).version = run.version + 1
  BY <1>1, SavedFields DEF Keeps
<1>6. \A w \in Worker : Sound(copy[w], pc[w], Saved(record), effect)
  BY <1>1, <1>3, <1>5, SavedFields, InvFacts, StaleSound
<1>7. QED
  BY <1>1, <1>2, <1>3, <1>4, <1>5, <1>6, SavedFields DEF Keeps

LEMMA LawfulSaved ==
  ASSUME NEW old \in Record, NEW new \in Record, Lawful(old, new)
  PROVE  Lawful(old, Saved(new))
<1>1. [Saved(new) EXCEPT !.version = old.version] = [new EXCEPT !.version = old.version]
  BY DEF Saved, Record
<1>2. QED
  BY <1>1, SavedFields DEF Lawful

(* A step that leaves the stored record alone is lawful. *)
LEMMA LawfulSame ==
  ASSUME NEW r \in Record, Shape(r)
  PROVE  Lawful(r, r)
  BY DEF Lawful, Record, Shape

(* An API operation saves the stored record and leaves the workers alone.  *)
LEMMA ApiSave ==
  ASSUME Inv, NEW record, Keeps(record), Lawful(run, record),
         run' = Saved(record), UNCHANGED <<loopVars, copy, effect>>,
         unsent' \in Nat, cancels' \in 0..MaxCancels, crashes' \in 0..MaxApiCrashes
  PROVE  Inv' /\ Lawful(run, run')
<1>1. /\ run' \in Record
      /\ Lawful(run, run')
  BY SavedKeeps, LawfulSaved, InvFacts DEF Keeps
<1>2. LoopTypeOK(EngineSteps)'
  BY DEF Inv, TypeOK, LoopTypeOK, loopVars
<1>3. TypeOK'
  BY <1>1, <1>2 DEF Inv, TypeOK
<1>4. pc' = pc /\ copy' = copy /\ effect' = effect
  BY DEF loopVars
<1>5. Consistent'
  BY <1>4, SavedKeeps DEF Consistent
<1>6. QED
  BY <1>1, <1>3, <1>5 DEF Inv

(* --------------------------- Steps of a worker -------------------------- *)

(* A worker that does not save.                                            *)
LEMMA WorkerMoves ==
  ASSUME Inv, NEW w \in Worker, NEW step, NEW r \in Record,
         pc' = [pc EXCEPT ![w] = step],
         copy' = [copy EXCEPT ![w] = r],
         Sound(r, step, run, effect'),
         effect' \in {"none", "applied", "undone"},
         effect # "none" => effect' # "none",
         effect' # "none" => Decided(run),
         LoopTypeOK(EngineSteps)',
         UNCHANGED <<run, unsent, cancels, crashes>>
  PROVE  Inv' /\ Lawful(run, run')
<1>1. TypeOK'
  BY DEF Inv, TypeOK
<1>2. ASSUME NEW v \in Worker PROVE Sound(copy'[v], pc'[v], run, effect')
  <2>1. CASE v = w
    BY <2>1 DEF Inv, TypeOK, LoopTypeOK
  <2>2. CASE v # w
    <3>1. copy'[v] = copy[v] /\ pc'[v] = pc[v]
      BY <2>2 DEF Inv, TypeOK, LoopTypeOK
    <3>2. Sound(copy[v], pc[v], run, effect')
      BY InvFacts DEF Sound
    <3>3. QED
      BY <3>1, <3>2
  <2>3. QED
    BY <2>1, <2>2
<1>3. run.write = "succeeded" => effect' # "none"
  BY DEF Inv, Consistent
<1>4. Consistent'
  BY <1>2, <1>3, InvFacts DEF Consistent
<1>5. QED
  BY <1>1, <1>4, InvFacts, LawfulSame DEF Inv

(* A worker that leaves run_once or goes on outside engine.process.        *)
LEMMA WorkerForgets ==
  ASSUME Inv, NEW w \in Worker, NEW step \in {"idle", "finishing", "raised"},
         Goto(w, step), Forget(w), LoopTypeOK(EngineSteps)',
         UNCHANGED <<engineFrame, run>>
  PROVE  Inv' /\ Lawful(run, run')
<1>1. NoRun \in Record /\ Sound(NoRun, step, run, effect)
  BY InvFacts, NoRunSound DEF EngineSteps
<1>2. effect' = effect /\ UNCHANGED <<unsent, cancels, crashes>>
  BY DEF engineFrame
<1>3. QED
  BY <1>1, <1>2, WorkerMoves DEF Goto, Forget, Inv, TypeOK, Consistent

(* A checkpoint that is legal wherever it is accepted.                     *)
Legal(w, record, step) ==
  /\ record \in Record
  /\ step \in {"node", "recorded", "confirming", "last", "leaving"}
  /\ Shape(record)
  /\ Placed(record, step)
  /\ record.version = copy[w].version
  /\ record.write = "succeeded" => effect # "none"
  /\ Current(w) => /\ Decided(run) => SameDecision(run, record)
                   /\ Lawful(run, record)

LEMMA CheckpointStep ==
  ASSUME Inv, NEW w \in Worker, NEW record, NEW step, pc[w] # "idle",
         Legal(w, record, step), CheckpointTo(w, record, step)
  PROVE  Inv' /\ Lawful(run, run')
<1>1. CASE /\ Current(w)
           /\ run' = Saved(record)
           /\ copy' = [copy EXCEPT ![w] = Saved(record)]
           /\ Goto(w, step)
           /\ UNCHANGED <<job, claim, lost, faults, errors>>
           /\ UNCHANGED engineFrame
  <2>1. Keeps(record) /\ Lawful(run, record) /\ record \in Record
    BY <1>1 DEF Legal, Keeps, Current
  <2>2. step \in EngineSteps
    BY DEF Legal, EngineSteps
  <2>3. LoopTypeOK(EngineSteps)'
    BY <1>1, <2>2, GotoTypes DEF Inv, TypeOK, LoopTypeOK
  <2>4. TypeOK'
    BY <1>1, <2>1, <2>3, SavedFields DEF Inv, TypeOK, engineFrame
  <2>5. Placed(Saved(record), step)
    BY <2>1, SavedFields DEF Legal, Placed
  <2>6. Sound(Saved(record), step, Saved(record), effect)
    <3>1. Follows(Saved(record), step, Saved(record))
      BY DEF Legal, Follows
    <3>2. Saved(record).version <= Saved(record).version
      BY <2>1, SavedFields, RecordFields
    <3>3. QED
      BY <2>1, <2>5, <3>1, <3>2, SavedKeeps DEF Sound, SameDecision
  <2>7. ASSUME NEW v \in Worker PROVE Sound(copy'[v], pc'[v], Saved(record), effect)
    <3>1. CASE v = w
      BY <1>1, <2>6, <3>1 DEF Inv, TypeOK, LoopTypeOK, Goto
    <3>2. CASE v # w
      BY <1>1, <2>1, <3>2, SavedKeeps DEF Inv, TypeOK, LoopTypeOK, Goto
    <3>3. QED
      BY <3>1, <3>2
  <2>8. Consistent'
    BY <1>1, <2>1, <2>7, SavedKeeps DEF Consistent, engineFrame
  <2>9. QED
    BY <1>1, <2>1, <2>4, <2>8, LawfulSaved, InvFacts DEF Inv
<1>2. CASE Abandon(w) /\ Forget(w) /\ UNCHANGED run /\ UNCHANGED engineFrame
  <2>1. LoopTypeOK(EngineSteps)'
    BY <1>2, WorkerLoopTypes DEF Inv, TypeOK
  <2>2. QED
    BY <1>2, <2>1, WorkerForgets DEF Abandon, Leave
<1>3. CASE Raise(w) /\ Forget(w) /\ UNCHANGED run /\ UNCHANGED engineFrame
  <2>1. LoopTypeOK(EngineSteps)'
    BY <1>3, WorkerLoopTypes DEF Inv, TypeOK
  <2>2. QED
    BY <1>3, <2>1, WorkerForgets DEF Raise
<1>4. QED
  BY <1>1, <1>2, <1>3 DEF CheckpointTo

(* ------------------------------- Handlers ------------------------------- *)

(* What a worker at work with the stored version knows of the stored run.  *)
LEMMA AtWorkFacts ==
  ASSUME Inv, NEW w \in Worker, pc[w] \in AtWork
  PROVE  /\ ~copy[w].cancel
         /\ Current(w) => /\ run.status \notin Final
                          /\ ~run.cancel
                          /\ SameDecision(copy[w], run)
<1> DEFINE c == copy[w]
<1>1. /\ c \in Record /\ run \in Record
      /\ Sound(c, pc[w], run, effect)
  BY InvFacts
<1>2. ~c.cancel
  BY <1>1 DEF Sound, Placed
<1>3. ASSUME Current(w) PROVE Follows(c, pc[w], run)
  BY <1>1, <1>3 DEF Sound, Current
<1>4. CASE pc[w] \in {"node", "recorded", "confirming"}
  <2>1. c.status \in {"RUNNING", "FAILED"}
    BY <1>1, <1>4 DEF Sound, Placed
  <2>2. Current(w) => c = run
    BY <1>3, <1>4 DEF Follows
  <2>3. QED
    BY <1>2, <2>1, <2>2 DEF Final, SameDecision
<1>5. CASE pc[w] = "called"
  <2>1. c.status = "RUNNING"
    BY <1>1, <1>5 DEF Sound, Placed
  <2>2. Current(w) => [c EXCEPT !.write = run.write] = run
    BY <1>3, <1>5 DEF Follows
  <2>3. /\ [c EXCEPT !.write = run.write].status = c.status
        /\ [c EXCEPT !.write = run.write].cancel = c.cancel
        /\ [c EXCEPT !.write = run.write].decision = c.decision
        /\ [c EXCEPT !.write = run.write].plan = c.plan
        /\ [c EXCEPT !.write = run.write].votes = c.votes
    BY <1>1 DEF Record
  <2>4. QED
    BY <1>2, <2>1, <2>2, <2>3 DEF Final, SameDecision
<1>6. CASE pc[w] = "compensated"
  <2>1. Current(w) => [c EXCEPT !.status = "RUNNING"] = run
    BY <1>3, <1>6 DEF Follows
  <2>2. /\ [c EXCEPT !.status = "RUNNING"].status = "RUNNING"
        /\ [c EXCEPT !.status = "RUNNING"].cancel = c.cancel
        /\ [c EXCEPT !.status = "RUNNING"].decision = c.decision
        /\ [c EXCEPT !.status = "RUNNING"].plan = c.plan
        /\ [c EXCEPT !.status = "RUNNING"].votes = c.votes
    BY <1>1 DEF Record
  <2>3. QED
    BY <1>2, <2>1, <2>2 DEF Final, SameDecision
<1>7. QED
  BY <1>4, <1>5, <1>6 DEF AtWork

(* A handler's checkpoint is legal if the record it leaves is a good one   *)
(* and it keeps a decision the copy carries.                               *)
LEMMA HandlerStep ==
  ASSUME Inv, NEW w \in Worker, pc[w] \in AtWork,
         NEW record \in Record, Shape(record),
         record.version = copy[w].version,
         record.write = copy[w].write,
         copy[w].votes \subseteq record.votes,
         Decided(copy[w]) => SameDecision(copy[w], record),
         NEW step \in {"node", "recorded", "confirming", "last", "leaving"},
         Placed(record, step),
         CheckpointTo(w, record, step)
  PROVE  Inv' /\ Lawful(run, run')
<1>1. record.write = "succeeded" => effect # "none"
  BY InvFacts DEF Sound
<1>2. ASSUME Current(w)
      PROVE  /\ Decided(run) => SameDecision(run, record)
             /\ Lawful(run, record)
  <2>1. /\ run.status \notin Final
        /\ ~run.cancel
        /\ SameDecision(copy[w], run)
    BY <1>2, AtWorkFacts
  <2>2. QED
    BY <2>1 DEF SameDecision, Decided, Lawful
<1>3. Legal(w, record, step)
  BY <1>1, <1>2 DEF Legal
<1>4. pc[w] # "idle"
  BY DEF AtWork
<1>5. QED
  BY <1>3, <1>4, CheckpointStep

(* The end of a handler: what is left to show of it is its record.         *)
LEMMA EndNodeStep ==
  ASSUME Inv, NEW w \in Worker, pc[w] \in AtWork,
         NEW record \in Record, Shape(record), ~record.cancel,
         record.version = copy[w].version,
         record.write = copy[w].write,
         copy[w].votes \subseteq record.votes,
         Decided(copy[w]) => SameDecision(copy[w], record),
         EndNode(w, record)
  PROVE  Inv' /\ Lawful(run, run')
<1>1. CASE record.status = "RUNNING"
  <2>1. CheckpointTo(w, record, "node")
    BY <1>1 DEF EndNode
  <2>2. Placed(record, "node")
    BY <1>1 DEF Placed
  <2>3. QED
    BY <2>1, <2>2, HandlerStep
<1>2. CASE record.status # "RUNNING"
  <2>1. CheckpointTo(w, record, "last")
    BY <1>2 DEF EndNode
  <2>2. Placed(record, "last")
    BY DEF Placed, AtWork
  <2>3. QED
    BY <2>1, <2>2, HandlerStep
<1>3. QED
  BY <1>1, <1>2

(* What a handler starts from.                                             *)
LEMMA NodeFacts ==
  ASSUME Inv, NEW w \in Worker, pc[w] \in {"node", "called", "recorded"}
  PROVE  /\ pc[w] \in AtWork
         /\ copy[w] \in Record
         /\ Shape(copy[w])
         /\ copy[w].status = "RUNNING"
         /\ ~copy[w].cancel
         /\ pc[w] \in {"called", "recorded"} => copy[w].node = "execute"
  BY InvFacts, AtWorkFacts DEF Sound, Placed, AtWork

(* A handler that goes on to another node.                                 *)
LEMMA AdvanceStep ==
  ASSUME Inv, NEW w \in Worker, pc[w] \in {"node", "recorded"},
         NEW node \in Node, Advance(w, node),
         node \notin {"completed"},
         Decided(copy[w]) => node \in Past,
         node = "finalize" => copy[w].write = "succeeded",
         copy[w].votes # {} => node \notin Early
  PROVE  Inv' /\ Lawful(run, run')
<1> DEFINE c == copy[w]
           r == [c EXCEPT !.node = node]
<1>1. /\ c \in Record
      /\ Shape(c)
      /\ c.status = "RUNNING"
      /\ ~c.cancel
      /\ pc[w] \in AtWork
  BY NodeFacts
<1>2. /\ r \in Record
      /\ r.node = node
      /\ r.status = c.status
      /\ r.version = c.version
      /\ r.cancel = c.cancel
      /\ r.plan = c.plan
      /\ r.decision = c.decision
      /\ r.votes = c.votes
      /\ r.write = c.write
  BY <1>1 DEF Record
<1>3. Shape(r)
  BY <1>1, <1>2 DEF Shape, Decided
<1>4. EndNode(w, r)
  BY DEF Advance
<1>5. QED
  BY <1>1, <1>2, <1>3, <1>4, EndNodeStep DEF SameDecision

(* A handler that hands the run off, and one that fails.                   *)
LEMMA HandOffStep ==
  ASSUME Inv, NEW w \in Worker, pc[w] \in {"node", "recorded"}, HandOff(w)
  PROVE  Inv' /\ Lawful(run, run')
<1> DEFINE c == copy[w]
           r == [c EXCEPT !.status = "HANDED_OFF", !.node = "handed_off"]
<1>1. /\ c \in Record
      /\ Shape(c)
      /\ ~c.cancel
      /\ pc[w] \in AtWork
  BY NodeFacts
<1>2. /\ r \in Record
      /\ r.node = "handed_off"
      /\ r.status = "HANDED_OFF"
      /\ r.version = c.version
      /\ r.cancel = c.cancel
      /\ r.plan = c.plan
      /\ r.decision = c.decision
      /\ r.votes = c.votes
      /\ r.write = c.write
  BY <1>1 DEF Record, Status, Node, Final
<1>3. Shape(r)
  BY <1>1, <1>2 DEF Shape, Decided, Past, Early
<1>4. EndNode(w, r)
  BY DEF HandOff
<1>5. QED
  BY <1>1, <1>2, <1>3, <1>4, EndNodeStep DEF SameDecision

LEMMA FailStep ==
  ASSUME Inv, NEW w \in Worker, pc[w] \in {"node", "called", "recorded", "compensated"}, Fail(w)
  PROVE  Inv' /\ Lawful(run, run')
<1> DEFINE c == copy[w]
           r == [c EXCEPT !.status = "FAILED"]
<1>1. /\ c \in Record
      /\ Shape(c)
      /\ ~c.cancel
      /\ pc[w] \in AtWork
  BY InvFacts, AtWorkFacts DEF Sound, AtWork
<1>2. /\ r \in Record
      /\ r.node = c.node
      /\ r.status = "FAILED"
      /\ r.version = c.version
      /\ r.cancel = c.cancel
      /\ r.plan = c.plan
      /\ r.decision = c.decision
      /\ r.votes = c.votes
      /\ r.write = c.write
  BY <1>1 DEF Record, Status
<1>3. Shape(r)
  BY <1>1, <1>2 DEF Shape, Decided
<1>4. EndNode(w, r)
  BY DEF Fail
<1>5. QED
  BY <1>1, <1>2, <1>3, <1>4, EndNodeStep DEF SameDecision

(* The handlers that only read, up to the policy check.                    *)
LEMMA ReadingSteps ==
  ASSUME Inv, NEW w \in Worker,
         \/ Intake(w) \/ Retrieve(w) \/ Investigate(w) \/ Observe(w) \/ Policy(w)
  PROVE  Inv' /\ Lawful(run, run')
<1>1. /\ pc[w] = "node"
      /\ copy[w].node \in Early
      /\ copy[w] \in Record
      /\ Shape(copy[w])
  BY NodeFacts DEF Intake, Retrieve, Investigate, Observe, Policy, At, Early
<1>2. ~Decided(copy[w]) /\ copy[w].votes = {}
  BY <1>1 DEF Shape, Early, Past
<1>3. \/ \E node \in {"retrieve", "investigate", "observe", "diagnose", "gate"} : Advance(w, node)
      \/ HandOff(w)
  BY DEF Intake, Retrieve, Investigate, Observe, Policy
<1>4. CASE HandOff(w)
  BY <1>1, <1>4, HandOffStep
<1>5. CASE \E node \in {"retrieve", "investigate", "observe", "diagnose", "gate"} : Advance(w, node)
  BY <1>1, <1>2, <1>5, AdvanceStep DEF Node
<1>6. QED
  BY <1>3, <1>4, <1>5

LEMMA DiagnoseStep ==
  ASSUME Inv, NEW w \in Worker, Diagnose(w)
  PROVE  Inv' /\ Lawful(run, run')
<1> DEFINE c == copy[w]
<1>1. /\ pc[w] = "node"
      /\ c.node = "diagnose"
      /\ c \in Record
      /\ Shape(c)
      /\ ~c.cancel
      /\ c.status = "RUNNING"
      /\ pc[w] \in AtWork
  BY NodeFacts DEF Diagnose, At
<1>2. CASE HandOff(w)
  BY <1>1, <1>2, HandOffStep
<1>3. ASSUME NEW p \in Plan, EndNode(w, [c EXCEPT !.plan = p, !.node = "policy"])
      PROVE  Inv' /\ Lawful(run, run')
  <2> DEFINE r == [c EXCEPT !.plan = p, !.node = "policy"]
  <2>1. /\ r \in Record
        /\ r.node = "policy"
        /\ r.status = c.status
        /\ r.version = c.version
        /\ r.cancel = c.cancel
        /\ r.decision = c.decision
        /\ r.votes = c.votes
        /\ r.write = c.write
    BY <1>1 DEF Record, Node
  <2>2. ~Decided(c) /\ c.votes = {}
    BY <1>1 DEF Shape, Early, Past
  <2>3. Shape(r)
    BY <1>1, <2>1, <2>2 DEF Shape, Decided
  <2>4. QED
    BY <1>1, <1>3, <2>1, <2>2, <2>3, EndNodeStep
<1>4. QED
  BY <1>2, <1>3 DEF Diagnose

(* The gate asks for no approval only where the plan needs none.           *)
LEMMA GateStep ==
  ASSUME Inv, NEW w \in Worker, Gate(w)
  PROVE  Inv' /\ Lawful(run, run')
<1> DEFINE c == copy[w]
<1>1. /\ pc[w] = "node"
      /\ c.node = "gate"
      /\ c \in Record
      /\ Shape(c)
      /\ ~c.cancel
      /\ c.status = "RUNNING"
      /\ pc[w] \in AtWork
  BY NodeFacts DEF Gate, At
<1>2. ~Decided(c) /\ c.votes = {}
  BY <1>1 DEF Shape, Early, Past
<1>3. CASE EndNode(w, [c EXCEPT !.decision = "pending", !.votes = {},
                                !.status = "AWAITING_APPROVAL", !.node = "approval"])
  <2> DEFINE r == [c EXCEPT !.decision = "pending", !.votes = {},
                            !.status = "AWAITING_APPROVAL", !.node = "approval"]
  <2>1. /\ r \in Record
        /\ r.node = "approval"
        /\ r.status = "AWAITING_APPROVAL"
        /\ r.decision = "pending"
        /\ r.votes = {}
        /\ r.version = c.version
        /\ r.cancel = c.cancel
        /\ r.write = c.write
    BY <1>1 DEF Record, Node, Status, Decision
  <2>2. Shape(r)
    BY <1>1, <2>1 DEF Shape, Decided
  <2>3. QED
    BY <1>1, <1>2, <1>3, <2>1, <2>2, EndNodeStep
<1>4. CASE /\ Quorum[c.plan] = 0
           /\ EndNode(w, [c EXCEPT !.decision = "not_required", !.node = "execute"])
  <2> DEFINE r == [c EXCEPT !.decision = "not_required", !.node = "execute"]
  <2>1. /\ r \in Record
        /\ r.node = "execute"
        /\ r.status = c.status
        /\ r.decision = "not_required"
        /\ r.votes = c.votes
        /\ r.plan = c.plan
        /\ r.version = c.version
        /\ r.cancel = c.cancel
        /\ r.write = c.write
    BY <1>1 DEF Record, Node, Decision
  <2>2. Shape(r)
    BY <1>1, <1>2, <1>4, <2>1 DEF Shape, Decided, Past
  <2>3. QED
    BY <1>1, <1>2, <1>4, <2>1, <2>2, EndNodeStep
<1>5. QED
  BY <1>3, <1>4 DEF Gate

(* execute and verify, up to their ends.                                   *)
LEMMA ExecuteSteps ==
  ASSUME Inv, NEW w \in Worker,
         ExecuteRecorded(w) \/ PreconditionChanged(w) \/ ExecuteEnds(w)
  PROVE  Inv' /\ Lawful(run, run')
<1>1. /\ pc[w] \in {"node", "recorded"}
      /\ copy[w].node = "execute"
  BY NodeFacts DEF ExecuteRecorded, PreconditionChanged, ExecuteEnds, At
<1>2. \/ HandOff(w) \/ Fail(w)
      \/ Advance(w, "verify")
  BY DEF ExecuteRecorded, PreconditionChanged, ExecuteEnds
<1>3. CASE HandOff(w)
  BY <1>1, <1>3, HandOffStep
<1>4. CASE Fail(w)
  BY <1>1, <1>4, FailStep
<1>5. CASE Advance(w, "verify")
  BY <1>1, <1>5, AdvanceStep DEF Node, Past, Early
<1>6. QED
  BY <1>2, <1>3, <1>4, <1>5

LEMMA VerifySteps ==
  ASSUME Inv, NEW w \in Worker, VerifyPasses(w) \/ VerifyFails(w)
  PROVE  Inv' /\ Lawful(run, run')
<1>1. CASE VerifyPasses(w)
  BY <1>1, AdvanceStep DEF VerifyPasses, At, Node, Past, Early
<1>2. CASE VerifyFails(w)
  BY <1>2, FailStep DEF VerifyFails, At
<1>3. QED
  BY <1>1, <1>2

LEMMA FinalizeStep ==
  ASSUME Inv, NEW w \in Worker, Finalize(w)
  PROVE  Inv' /\ Lawful(run, run')
<1> DEFINE c == copy[w]
           r == [c EXCEPT !.status = "COMPLETED", !.node = "completed"]
<1>1. /\ c \in Record
      /\ Shape(c)
      /\ c.node = "finalize"
      /\ ~c.cancel
      /\ pc[w] \in AtWork
  BY NodeFacts DEF Finalize, At
<1>2. /\ r \in Record
      /\ r.node = "completed"
      /\ r.status = "COMPLETED"
      /\ r.version = c.version
      /\ r.cancel = c.cancel
      /\ r.plan = c.plan
      /\ r.decision = c.decision
      /\ r.votes = c.votes
      /\ r.write = c.write
  BY <1>1 DEF Record, Status, Node, Final
<1>3. Shape(r)
  BY <1>1, <1>2 DEF Shape, Decided, Past, Early
<1>4. EndNode(w, r)
  BY DEF Finalize
<1>5. QED
  BY <1>1, <1>2, <1>3, <1>4, EndNodeStep DEF SameDecision

(* --------------------------- Calls of the tools ------------------------- *)

(* An actor to execute for is a decision, and the copy's decision is the   *)
(* stored one even if the copy is stale.                                   *)
LEMMA ActorDecided ==
  ASSUME Inv, NEW w \in Worker, HasActor(w)
  PROVE  Decided(copy[w]) /\ Decided(run)
<1>1. Decided(copy[w])
  BY DEF HasActor, Decided
<1>2. SameDecision(copy[w], run)
  BY <1>1, InvFacts DEF Sound
<1>3. QED
  BY <1>1, <1>2 DEF SameDecision, Decided

LEMMA CallToolStep ==
  ASSUME Inv, NEW w \in Worker, NEW outcome \in Outcome \ {"none"}, CallTool(w, outcome)
  PROVE  Inv' /\ Lawful(run, run')
<1> DEFINE c == copy[w]
           r == [c EXCEPT !.write = outcome]
<1>1. /\ pc[w] = "node"
      /\ c.node = "execute"
      /\ c \in Record
      /\ Shape(c)
      /\ c.status = "RUNNING"
      /\ ~c.cancel
      /\ Decided(run)
  BY NodeFacts, ActorDecided DEF CallTool, At
<1>2. Sound(c, "node", run, effect)
  BY <1>1, InvFacts
<1>3. /\ r \in Record
      /\ r.write = outcome
      /\ r.node = c.node
      /\ r.status = c.status
      /\ r.version = c.version
      /\ r.cancel = c.cancel
      /\ r.plan = c.plan
      /\ r.decision = c.decision
      /\ r.votes = c.votes
  BY <1>1 DEF Record
<1>4. /\ effect' \in {"none", "applied", "undone"}
      /\ effect # "none" => effect' # "none"
      /\ outcome = "succeeded" => effect' # "none"
  BY DEF CallTool, Inv, TypeOK
<1>5. Shape(r)
  BY <1>1, <1>3 DEF Shape, Decided
<1>6. Placed(r, "called")
  BY <1>1, <1>3 DEF Placed
<1>7. r.version = run.version => Follows(r, "called", run)
  <2>1. ASSUME c = run PROVE [r EXCEPT !.write = run.write] = run
    BY <1>1, <2>1 DEF Record
  <2>2. QED
    BY <1>2, <1>3, <2>1 DEF Sound, Follows
<1>8. Sound(r, "called", run, effect')
  BY <1>2, <1>3, <1>4, <1>5, <1>6, <1>7 DEF Sound, Decided, SameDecision
<1>9. /\ copy' = [copy EXCEPT ![w] = r]
      /\ Goto(w, "called")
      /\ UNCHANGED <<job, claim, lost, faults, errors>>
      /\ UNCHANGED <<run, unsent, cancels, crashes>>
  BY DEF CallTool, Inv, TypeOK
<1>10. LoopTypeOK(EngineSteps)'
  BY <1>1, <1>9, GotoTypes DEF Inv, TypeOK, LoopTypeOK, EngineSteps
<1>11. QED
  BY <1>1, <1>3, <1>4, <1>8, <1>9, <1>10, WorkerMoves DEF Goto

LEMMA CompensateStep ==
  ASSUME Inv, NEW w \in Worker, Compensate(w)
  PROVE  Inv' /\ Lawful(run, run')
<1> DEFINE c == copy[w]
           r == [c EXCEPT !.status = "FAILED"]
<1>1. /\ pc[w] = "node"
      /\ c.node = "verify"
      /\ c.write = "succeeded"
      /\ c \in Record
      /\ Shape(c)
      /\ c.status = "RUNNING"
      /\ ~c.cancel
      /\ Decided(run)
  BY NodeFacts, ActorDecided DEF Compensate, At
<1>2. Sound(c, "node", run, effect)
  BY <1>1, InvFacts
<1>3. /\ r \in Record
      /\ r.status = "FAILED"
      /\ r.write = c.write
      /\ r.node = c.node
      /\ r.version = c.version
      /\ r.cancel = c.cancel
      /\ r.plan = c.plan
      /\ r.decision = c.decision
      /\ r.votes = c.votes
  BY <1>1 DEF Record, Status
<1>4. /\ effect' \in {"none", "applied", "undone"}
      /\ effect' # "none"
  BY <1>1, <1>2 DEF Compensate, Inv, TypeOK, Sound
<1>5. Shape(r)
  BY <1>1, <1>3 DEF Shape, Decided
<1>6. Placed(r, "compensated")
  BY <1>1, <1>3 DEF Placed
<1>7. r.version = run.version => Follows(r, "compensated", run)
  <2>1. ASSUME c = run PROVE [r EXCEPT !.status = "RUNNING"] = run
    BY <1>1, <2>1 DEF Record
  <2>2. QED
    BY <1>2, <1>3, <2>1 DEF Sound, Follows
<1>8. Sound(r, "compensated", run, effect')
  BY <1>2, <1>3, <1>4, <1>5, <1>6, <1>7 DEF Sound, Decided, SameDecision
<1>9. /\ copy' = [copy EXCEPT ![w] = r]
      /\ Goto(w, "compensated")
      /\ UNCHANGED <<job, claim, lost, faults, errors>>
      /\ UNCHANGED <<run, unsent, cancels, crashes>>
  BY DEF Compensate, Inv, TypeOK
<1>10. LoopTypeOK(EngineSteps)'
  BY <1>1, <1>9, GotoTypes DEF Inv, TypeOK, LoopTypeOK, EngineSteps
<1>11. QED
  BY <1>1, <1>3, <1>4, <1>8, <1>9, <1>10, WorkerMoves DEF Goto

(* Storing the result of a call, and the checkpoints after it.             *)
LEMMA RecordSteps ==
  ASSUME Inv, NEW w \in Worker,
         RecordResult(w) \/ RecordCompensation(w) \/ CompensationEnds(w)
  PROVE  Inv' /\ Lawful(run, run')
<1> DEFINE c == copy[w]
<1>1. /\ pc[w] \in {"called", "compensated", "confirming"}
      /\ pc[w] \in AtWork
  BY DEF RecordResult, RecordCompensation, CompensationEnds, AtWork
<1>2. /\ c \in Record
      /\ Shape(c)
      /\ ~c.cancel
      /\ Placed(c, pc[w])
      /\ Decided(c) => SameDecision(c, c)
  BY <1>1, InvFacts, AtWorkFacts DEF Sound, SameDecision
<1>3. CASE RecordResult(w)
  <2>1. Placed(c, "recorded")
    BY <1>2, <1>3 DEF RecordResult, Placed, AtWork
  <2>2. QED
    BY <1>1, <1>2, <1>3, <2>1, HandlerStep DEF RecordResult
<1>4. CASE RecordCompensation(w)
  <2>1. Placed(c, "confirming")
    BY <1>2, <1>4 DEF RecordCompensation, Placed, AtWork
  <2>2. QED
    BY <1>1, <1>2, <1>4, <2>1, HandlerStep DEF RecordCompensation
<1>5. CASE CompensationEnds(w)
  BY <1>1, <1>2, <1>5, EndNodeStep DEF CompensationEnds
<1>6. QED
  BY <1>3, <1>4, <1>5

(* A handler that raises, and a node that has none.                        *)
LEMMA FailureSteps ==
  ASSUME Inv, NEW w \in Worker, NodeFails(w) \/ UnknownNode(w)
  PROVE  Inv' /\ Lawful(run, run')
<1>1. CASE NodeFails(w)
  BY <1>1, FailStep DEF NodeFails
<1>2. CASE UnknownNode(w)
  <2> DEFINE c == copy[w]
             r == [c EXCEPT !.status = "FAILED"]
  <2>1. /\ pc[w] \in AtWork
        /\ c \in Record
        /\ Shape(c)
        /\ ~c.cancel
    BY <1>2, NodeFacts DEF UnknownNode
  <2>2. /\ r \in Record
        /\ r.node = c.node
        /\ r.status = "FAILED"
        /\ r.version = c.version
        /\ r.cancel = c.cancel
        /\ r.plan = c.plan
        /\ r.decision = c.decision
        /\ r.votes = c.votes
        /\ r.write = c.write
    BY <2>1 DEF Record, Status
  <2>3. Shape(r) /\ Placed(r, "leaving")
    BY <2>1, <2>2 DEF Shape, Decided, Placed, AtWork
  <2>4. CheckpointTo(w, r, "leaving")
    BY <1>2 DEF UnknownNode
  <2>5. QED
    BY <2>1, <2>2, <2>3, <2>4, HandlerStep DEF SameDecision
<1>3. QED
  BY <1>1, <1>2

(* -------------------------- engine.process ------------------------------ *)

LEMMA LoadRunStep ==
  ASSUME Inv, NEW w \in Worker, LoadRun(w)
  PROVE  Inv' /\ Lawful(run, run')
<1>1. /\ run \in Record
      /\ run.version <= run.version
      /\ Shape(run)
      /\ run.write = "succeeded" => effect # "none"
      /\ effect # "none" => Decided(run)
  BY InvFacts, RecordFields DEF Inv, Consistent
<1>2. Sound(run, "loaded", run, effect)
  BY <1>1 DEF Sound, SameDecision, Placed, AtWork, Follows
<1>3. LoopTypeOK(EngineSteps)'
  BY GotoTypes DEF LoadRun, Inv, TypeOK, LoopTypeOK, EngineSteps
<1>4. QED
  BY <1>1, <1>2, <1>3, WorkerMoves DEF LoadRun, Goto, engineFrame, Inv, TypeOK

(* engine.process returns: at once for a run that is over, or at its end.  *)
LEMMA ReturnSteps ==
  ASSUME Inv, NEW w \in Worker, ProcessFinal(w) \/ ProcessReturns(w)
  PROVE  Inv' /\ Lawful(run, run')
<1>1. /\ pc[w] # "idle"
      /\ Return(w)
      /\ Forget(w)
      /\ UNCHANGED <<engineFrame, run>>
  BY DEF ProcessFinal, ProcessReturns
<1>2. LoopTypeOK(EngineSteps)'
  BY <1>1, WorkerLoopTypes DEF Inv, TypeOK
<1>3. \E step \in {"idle", "finishing"} : Goto(w, step)
  BY <1>1 DEF Return, Abandon, Leave
<1>4. QED
  BY <1>1, <1>2, <1>3, WorkerForgets

LEMMA BeginSteps ==
  ASSUME Inv, NEW w \in Worker, ProcessCancelled(w) \/ ProcessBegin(w)
  PROVE  Inv' /\ Lawful(run, run')
<1> DEFINE c == copy[w]
<1>1. /\ pc[w] = "loaded"
      /\ c.status \notin Final
  BY DEF ProcessCancelled, ProcessBegin
<1>2. /\ c \in Record
      /\ Sound(c, "loaded", run, effect)
      /\ Shape(c)
      /\ Current(w) => c = run
  BY <1>1, InvFacts DEF Sound, Current, Follows
<1>3. CASE ProcessCancelled(w)
  <2> DEFINE r == [c EXCEPT !.status = "CANCELLED", !.node = "cancelled"]
  <2>1. /\ r \in Record
        /\ r.node = "cancelled"
        /\ r.status = "CANCELLED"
        /\ r.version = c.version
        /\ r.cancel = c.cancel
        /\ r.plan = c.plan
        /\ r.decision = c.decision
        /\ r.votes = c.votes
        /\ r.write = c.write
    BY <1>2 DEF Record, Status, Node, Final
  <2>2. Shape(r) /\ Placed(r, "leaving")
    BY <1>2, <2>1 DEF Shape, Decided, Placed, Past, Early, AtWork
  <2>3. Legal(w, r, "leaving")
    BY <1>1, <1>2, <2>1, <2>2 DEF Legal, Sound, Lawful, SameDecision
  <2>4. QED
    BY <1>1, <1>3, <2>3, CheckpointStep DEF ProcessCancelled
<1>4. CASE ProcessBegin(w)
  <2> DEFINE r == [c EXCEPT !.status = "RUNNING", !.attempt = @ + 1]
  <2>1. /\ r \in Record
        /\ r.node = c.node
        /\ r.status = "RUNNING"
        /\ r.version = c.version
        /\ r.cancel = c.cancel
        /\ r.plan = c.plan
        /\ r.decision = c.decision
        /\ r.votes = c.votes
        /\ r.write = c.write
    <3>1. c.attempt + 1 \in Nat
      BY <1>2, RecordFields
    <3>2. QED
      BY <1>2, <3>1 DEF Record, Status
  <2>2. ~c.cancel
    BY <1>4 DEF ProcessBegin
  <2>3. Shape(r) /\ Placed(r, "node")
    BY <1>2, <2>1, <2>2 DEF Shape, Decided, Placed, AtWork
  <2>4. Legal(w, r, "node")
    BY <1>1, <1>2, <2>1, <2>2, <2>3 DEF Legal, Sound, Lawful, SameDecision
  <2>5. QED
    BY <1>1, <1>4, <2>4, CheckpointStep DEF ProcessBegin
<1>5. QED
  BY <1>3, <1>4

LEMMA LastCheckpointStep ==
  ASSUME Inv, NEW w \in Worker, LastCheckpoint(w)
  PROVE  Inv' /\ Lawful(run, run')
<1> DEFINE c == copy[w]
<1>1. /\ c \in Record
      /\ Sound(c, "last", run, effect)
      /\ Current(w) => c = run
  BY InvFacts DEF LastCheckpoint, Sound, Current, Follows
<1>2. Placed(c, "leaving")
  BY DEF Placed, AtWork
<1>3. Current(w) => Lawful(run, c) /\ SameDecision(run, c)
  BY <1>1, LawfulSame, InvFacts DEF SameDecision
<1>4. Legal(w, c, "leaving")
  BY <1>1, <1>2, <1>3 DEF Legal, Sound
<1>5. QED
  BY <1>4, CheckpointStep DEF LastCheckpoint

(* ---------------------- run_once around engine.process ------------------ *)

(* A claim: the worker knows nothing of the run yet, or what it knew at the*)
(* end of the last one.                                                    *)
LEMMA ClaimStepInv ==
  ASSUME Inv, NEW w \in Worker, ClaimStep(w)
  PROVE  Inv' /\ Lawful(run, run')
<1>1. PICK j \in Job : ClaimJob(w, j)
  BY DEF ClaimStep
<1>2. LoopTypeOK(EngineSteps)'
  BY <1>1, ClaimJobTypes DEF Inv, TypeOK, EngineSteps
<1>3. /\ copy[w] \in Record
      /\ Sound(copy[w], "claimed", run, effect)
  BY InvFacts DEF Sound, Placed, AtWork, Follows
<1>4. copy' = [copy EXCEPT ![w] = copy[w]]
  BY DEF ClaimStep, Inv, TypeOK
<1>5. QED
  BY <1>1, <1>2, <1>3, <1>4, WorkerMoves
  DEF ClaimStep, ClaimJob, Goto, engineFrame, Inv, TypeOK, Consistent

(* A heartbeat and a tick of the clock touch neither record nor copies.    *)
LEMMA ClockSteps ==
  ASSUME Inv, TickStep \/ \E w \in Worker : HeartbeatStep(w)
  PROVE  Inv' /\ Lawful(run, run')
<1>1. LoopTypeOK(EngineSteps)'
  <2>1. ASSUME NEW w \in Worker, HeartbeatStep(w) PROVE LoopTypeOK(EngineSteps)'
    BY <2>1, WorkerLoopTypes DEF HeartbeatStep, Heartbeat, Inv, TypeOK
  <2>2. CASE TickStep
    BY <2>2, TickTypes DEF TickStep, Inv, TypeOK
  <2>3. QED
    BY <2>1, <2>2
<1>2. UNCHANGED <<pc, run, copy, unsent, effect, cancels, crashes>>
  BY DEF TickStep, Tick, HeartbeatStep, Heartbeat, engineFrame
<1>3. QED
  BY <1>1, <1>2, LawfulSame, InvFacts DEF Inv, TypeOK, Consistent

(* A failing store, the end of run_once and a crash.                       *)
LEMMA LeavingSteps ==
  ASSUME Inv, NEW w \in Worker, ErrorStep(w) \/ EndStep(w) \/ CrashStep(w)
  PROVE  Inv' /\ Lawful(run, run')
<1>1. /\ StoreError(w) \/ EndRunOnce(w) \/ Crash(w)
      /\ Forget(w)
      /\ UNCHANGED <<engineFrame, run>>
  BY DEF ErrorStep, EndStep, CrashStep
<1>2. pc[w] # "idle"
  BY <1>1 DEF StoreError, InProcess, EndRunOnce, FinishJob, RequeueJob, FailJob, Crash
<1>3. LoopTypeOK(EngineSteps)'
  BY <1>1, <1>2, WorkerLoopTypes DEF Inv, TypeOK
<1>4. \E step \in {"idle", "raised"} : Goto(w, step)
  BY <1>1 DEF StoreError, EndRunOnce, FinishJob, RequeueJob, FailJob, EndClaim, Crash, Leave
<1>5. QED
  BY <1>1, <1>3, <1>4, WorkerForgets

(* -------------------------------- The API ------------------------------- *)

LEMMA StartStep ==
  ASSUME Inv, Start
  PROVE  Inv' /\ Lawful(run, run')
<1> DEFINE r == [run EXCEPT !.status = "QUEUED"]
<1>1. /\ r \in Record
      /\ r.status = "QUEUED"
      /\ r.node = run.node
      /\ r.version = run.version
      /\ r.cancel = run.cancel
      /\ r.plan = run.plan
      /\ r.decision = run.decision
      /\ r.votes = run.votes
      /\ r.write = run.write
  BY InvFacts DEF Record, Status
<1>2. run.status = "ABSENT" /\ ~run.cancel
  BY InvFacts DEF Start, Shape, Record
<1>3. Keeps(r)
  BY <1>1, <1>2, InvFacts DEF Keeps, Shape, Decided, SameDecision, Inv, Consistent
<1>4. Lawful(run, r)
  BY <1>1, <1>2 DEF Lawful, Final
<1>5. QED
  BY <1>3, <1>4, ApiSave DEF Start, Inv, TypeOK

LEMMA RetryStep ==
  ASSUME Inv, Retry
  PROVE  Inv' /\ Lawful(run, run')
<1> DEFINE r == [run EXCEPT !.status = "QUEUED"]
<1>1. /\ r \in Record
      /\ r.status = "QUEUED"
      /\ r.node = run.node
      /\ r.version = run.version
      /\ r.cancel = run.cancel
      /\ r.plan = run.plan
      /\ r.decision = run.decision
      /\ r.votes = run.votes
      /\ r.write = run.write
  BY InvFacts DEF Record, Status
<1>2. run.status = "FAILED" /\ ~run.cancel
  BY InvFacts DEF Retry, Shape, Record
<1>3. Keeps(r)
  BY <1>1, <1>2, InvFacts DEF Keeps, Shape, Decided, SameDecision, Inv, Consistent
<1>4. Lawful(run, r)
  BY <1>1, <1>2 DEF Lawful, Final
<1>5. QED
  BY <1>3, <1>4, ApiSave DEF Retry, Inv, TypeOK

LEMMA CancelStep ==
  ASSUME Inv, Cancel
  PROVE  Inv' /\ Lawful(run, run')
<1>1. run \in Record /\ Shape(run) /\ run.status \notin Final
  BY InvFacts DEF Cancel
<1>2. cancels' \in 0..MaxCancels
  BY BoundAssumption DEF Cancel, Inv, TypeOK
<1>3. CASE run' = Saved([run EXCEPT !.cancel = TRUE, !.status = "CANCELLED", !.node = "cancelled"])
  <2> DEFINE r == [run EXCEPT !.cancel = TRUE, !.status = "CANCELLED", !.node = "cancelled"]
  <2>1. /\ r \in Record
        /\ r.status = "CANCELLED"
        /\ r.node = "cancelled"
        /\ r.version = run.version
        /\ r.cancel = TRUE
        /\ r.plan = run.plan
        /\ r.decision = run.decision
        /\ r.votes = run.votes
        /\ r.write = run.write
    BY <1>1 DEF Record, Status, Node, Final
  <2>2. Keeps(r)
    BY <1>1, <2>1 DEF Keeps, Shape, Decided, SameDecision, Inv, Consistent, Past, Early
  <2>3. Lawful(run, r)
    BY <1>1, <2>1 DEF Lawful
  <2>4. QED
    BY <1>2, <1>3, <2>2, <2>3, ApiSave DEF Cancel, Inv, TypeOK
<1>4. CASE run.status = "RUNNING" /\ run' = Saved([run EXCEPT !.cancel = TRUE])
  <2> DEFINE r == [run EXCEPT !.cancel = TRUE]
  <2>1. /\ r \in Record
        /\ r.status = run.status
        /\ r.node = run.node
        /\ r.version = run.version
        /\ r.cancel = TRUE
        /\ r.plan = run.plan
        /\ r.decision = run.decision
        /\ r.votes = run.votes
        /\ r.write = run.write
    BY <1>1 DEF Record
  <2>2. Keeps(r)
    BY <1>1, <1>4, <2>1 DEF Keeps, Shape, Decided, SameDecision, Inv, Consistent
  <2>3. Lawful(run, r)
    BY <1>1, <1>4, <2>1 DEF Lawful
  <2>4. QED
    BY <1>2, <1>4, <2>2, <2>3, ApiSave DEF Cancel, Inv, TypeOK
<1>5. QED
  BY <1>3, <1>4 DEF Cancel

(* A decision is taken on a run that awaits one: it is pending, and its    *)
(* votes are those of others than its requester.                           *)
LEMMA DecideFacts ==
  ASSUME Inv, NEW a \in Approver, CanDecide(a)
  PROVE  /\ run \in Record
         /\ Shape(run)
         /\ run.status = "AWAITING_APPROVAL"
         /\ ~run.cancel
         /\ ~Decided(run)
         /\ run.node = "approval"
         /\ Requester \notin run.votes \union {a}
         /\ run.votes \union {a} \in SUBSET Approver
  BY InvFacts DEF CanDecide, Shape, Decided, Record

LEMMA ApproveStep ==
  ASSUME Inv, NEW a \in Approver, Approve(a)
  PROVE  Inv' /\ Lawful(run, run')
<1> DEFINE votes == run.votes \union {a}
<1>1. CanDecide(a)
  BY DEF Approve
<1>2. CASE run' = Saved([run EXCEPT !.votes = votes, !.decision = "pending"]) /\ UNCHANGED unsent
  <2> DEFINE r == [run EXCEPT !.votes = votes, !.decision = "pending"]
  <2>1. /\ r \in Record
        /\ r.status = run.status
        /\ r.node = run.node
        /\ r.version = run.version
        /\ r.cancel = run.cancel
        /\ r.plan = run.plan
        /\ r.decision = "pending"
        /\ r.votes = votes
        /\ r.write = run.write
    BY <1>1, DecideFacts DEF Record, Decision
  <2>2. Keeps(r)
    BY <1>1, <2>1, DecideFacts DEF Keeps, Shape, Decided, Inv, Consistent, Early
  <2>3. Lawful(run, r)
    BY <1>1, <2>1, DecideFacts DEF Lawful, Final
  <2>4. QED
    BY <1>2, <2>2, <2>3, ApiSave DEF Approve, Inv, TypeOK
<1>3. CASE /\ Cardinality(votes) >= Quorum[run.plan]
           /\ run' = Saved([run EXCEPT !.votes = votes, !.decision = "approved",
                                       !.status = "QUEUED", !.node = "execute"])
           /\ unsent' = unsent + 1
  <2> DEFINE r == [run EXCEPT !.votes = votes, !.decision = "approved",
                              !.status = "QUEUED", !.node = "execute"]
  <2>1. /\ r \in Record
        /\ r.status = "QUEUED"
        /\ r.node = "execute"
        /\ r.version = run.version
        /\ r.cancel = run.cancel
        /\ r.plan = run.plan
        /\ r.decision = "approved"
        /\ r.votes = votes
        /\ r.write = run.write
    BY <1>1, DecideFacts DEF Record, Decision, Status, Node
  <2>2. Keeps(r)
    BY <1>1, <1>3, <2>1, DecideFacts DEF Keeps, Shape, Decided, Inv, Consistent, Early, Past
  <2>3. Lawful(run, r)
    BY <1>1, <2>1, DecideFacts DEF Lawful, Final
  <2>4. QED
    BY <1>3, <2>2, <2>3, ApiSave DEF Approve, Inv, TypeOK
<1>4. QED
  BY <1>2, <1>3 DEF Approve

LEMMA DenyStep ==
  ASSUME Inv, NEW a \in Approver, Deny(a)
  PROVE  Inv' /\ Lawful(run, run')
<1> DEFINE r == [run EXCEPT !.votes = @ \union {a}, !.decision = "denied",
                            !.status = "HANDED_OFF", !.node = "handed_off"]
<1>1. CanDecide(a)
  BY DEF Deny
<1>2. /\ r \in Record
      /\ r.status = "HANDED_OFF"
      /\ r.node = "handed_off"
      /\ r.version = run.version
      /\ r.cancel = run.cancel
      /\ r.plan = run.plan
      /\ r.decision = "denied"
      /\ r.votes = run.votes \union {a}
      /\ r.write = run.write
  BY <1>1, DecideFacts DEF Record, Decision, Status, Node, Final
<1>3. Keeps(r)
  BY <1>1, <1>2, DecideFacts DEF Keeps, Shape, Decided, Inv, Consistent, Early
<1>4. Lawful(run, r)
  BY <1>1, <1>2, DecideFacts DEF Lawful, Final
<1>5. QED
  BY <1>3, <1>4, ApiSave DEF Deny, Inv, TypeOK

(* The job that follows a save, or the crash that forgets it.              *)
LEMMA EnqueueSteps ==
  ASSUME Inv, EnqueueStep \/ ApiCrash
  PROVE  Inv' /\ Lawful(run, run')
<1>1. LoopTypeOK(EngineSteps)' /\ pc' = pc
  <2>1. CASE EnqueueStep
    BY <2>1, EnqueueTypes DEF EnqueueStep, Enqueue, EnqueueJob, Inv, TypeOK
  <2>2. CASE ApiCrash
    BY <2>2 DEF ApiCrash, loopVars, Inv, TypeOK, LoopTypeOK
  <2>3. QED
    BY <2>1, <2>2
<1>2. /\ UNCHANGED <<run, copy, effect, cancels>>
      /\ unsent' \in Nat
      /\ crashes' \in 0..MaxApiCrashes
  BY BoundAssumption DEF EnqueueStep, Enqueue, ApiCrash, Inv, TypeOK
<1>3. QED
  BY <1>1, <1>2, LawfulSame, InvFacts DEF Inv, TypeOK, Consistent

(* ------------------------------ Theorems -------------------------------- *)

LEMMA InitInv == Init => Inv
<1>1. ASSUME Init PROVE TypeOK
  <2>1. LoopTypeOK(EngineSteps)
    BY <1>1, LoopInitTypes DEF Init
  <2>2. NoRun \in Record
    BY DEF NoRun, Record, Status, Node, Decision, Outcome
  <2>3. QED
    BY <1>1, <2>1, <2>2, BoundAssumption DEF Init, TypeOK
<1>2. ASSUME Init PROVE Consistent
  <2>1. Shape(NoRun) /\ \A w \in Worker : Sound(NoRun, "idle", NoRun, "none")
    <3>1. NoRun \in Record
      BY DEF NoRun, Record, Status, Node, Decision, Outcome
    <3>2. Shape(NoRun) /\ Sound(NoRun, "idle", NoRun, "none")
      BY <3>1, NoRunSound DEF EngineSteps
    <3>3. QED
      BY <3>2
  <2>2. QED
    BY <1>2, <2>1 DEF Init, LoopInit, Consistent, NoRun
<1>3. QED
  BY <1>1, <1>2 DEF Inv

(* Every step of engine.process preserves the invariant and is lawful.     *)
LEMMA ProcessStepInv ==
  ASSUME Inv, NEW w \in Worker, ProcessStep(w)
  PROVE  Inv' /\ Lawful(run, run')
<1>1. CASE LoadRun(w)
  BY <1>1, LoadRunStep
<1>2. CASE ProcessFinal(w) \/ ProcessReturns(w)
  BY <1>2, ReturnSteps
<1>3. CASE ProcessCancelled(w) \/ ProcessBegin(w)
  BY <1>3, BeginSteps
<1>4. CASE Intake(w) \/ Retrieve(w) \/ Investigate(w) \/ Observe(w) \/ Policy(w)
  BY <1>4, ReadingSteps
<1>5. CASE Diagnose(w)
  BY <1>5, DiagnoseStep
<1>6. CASE Gate(w)
  BY <1>6, GateStep
<1>7. CASE ExecuteRecorded(w) \/ PreconditionChanged(w) \/ ExecuteEnds(w)
  BY <1>7, ExecuteSteps
<1>8. CASE \E outcome \in Outcome \ {"none"} : CallTool(w, outcome)
  BY <1>8, CallToolStep
<1>9. CASE RecordResult(w) \/ RecordCompensation(w) \/ CompensationEnds(w)
  BY <1>9, RecordSteps
<1>10. CASE VerifyPasses(w) \/ VerifyFails(w)
  BY <1>10, VerifySteps
<1>11. CASE Compensate(w)
  BY <1>11, CompensateStep
<1>12. CASE Finalize(w)
  BY <1>12, FinalizeStep
<1>13. CASE NodeFails(w) \/ UnknownNode(w)
  BY <1>13, FailureSteps
<1>14. CASE LastCheckpoint(w)
  BY <1>14, LastCheckpointStep
<1>15. QED
  BY <1>1, <1>2, <1>3, <1>4, <1>5, <1>6, <1>7, <1>8, <1>9, <1>10, <1>11, <1>12,
     <1>13, <1>14 DEF ProcessStep

LEMMA NextInv ==
  ASSUME Inv, Next
  PROVE  Inv' /\ Lawful(run, run')
<1>1. CASE ApiStep
  BY <1>1, StartStep, ApproveStep, DenyStep, CancelStep, RetryStep DEF ApiStep
<1>2. CASE EnqueueStep \/ ApiCrash
  BY <1>2, EnqueueSteps
<1>3. CASE TickStep
  BY <1>3, ClockSteps
<1>4. ASSUME NEW w \in Worker, WorkerStep(w) PROVE Inv' /\ Lawful(run, run')
  <2>1. CASE ClaimStep(w)
    BY <2>1, ClaimStepInv
  <2>2. CASE HeartbeatStep(w)
    BY <2>2, ClockSteps
  <2>3. CASE ProcessStep(w)
    BY <2>3, ProcessStepInv
  <2>4. CASE ErrorStep(w) \/ EndStep(w) \/ CrashStep(w)
    BY <2>4, LeavingSteps
  <2>5. QED
    BY <1>4, <2>1, <2>2, <2>3, <2>4 DEF WorkerStep
<1>5. QED
  BY <1>1, <1>2, <1>3, <1>4 DEF Next

LEMMA StutterInv ==
  ASSUME Inv, UNCHANGED vars
  PROVE  Inv' /\ Lawful(run, run')
<1>1. LoopTypeOK(EngineSteps)'
  BY DEF vars, Inv, TypeOK, LoopTypeOK
<1>2. QED
  BY <1>1, LawfulSame, InvFacts DEF vars, Inv, TypeOK, Consistent

(* The invariant holds in every state, and every step is lawful.           *)
THEOREM RunInvariant == Spec => []Inv
<1>1. Inv /\ [Next]_vars => Inv'
  BY NextInv, StutterInv
<1>2. QED
  BY <1>1, InitInv, PTL DEF Spec

(* Everything a worker, an API process and the store hold is well-typed.   *)
THEOREM RunTypes == Spec => []TypeOK
<1>1. Inv => TypeOK
  BY DEF Inv
<1>2. QED
  BY <1>1, RunInvariant, PTL

(* The tool boundary is written to only when the stored run carries the    *)
(* votes its plan's risk requires, whichever copy the write was made from  *)
(* (execute's guard on the decision, checkpoints on the version).          *)
THEOREM RunWritesApproved == Spec => []WriteApproved
<1>1. Inv => WriteApproved
  BY DEF Inv, Consistent, WriteApproved, Shape, Decided
<1>2. QED
  BY <1>1, RunInvariant, PTL

(* A run that finalize stored as completed has made its write.             *)
THEOREM RunCompletedWrote == Spec => []CompletedWrote
<1>1. Inv => CompletedWrote
  BY DEF Inv, Consistent, CompletedWrote, Shape
<1>2. QED
  BY <1>1, RunInvariant, PTL

(* A completed, cancelled or handed-off run stays as it is but for its     *)
(* version: no worker or request still holding an older copy can store it. *)
THEOREM RunStaysFinal == Spec => FinalStays
<1>1. Inv /\ [Next]_vars => [run.status \in Final => [run' EXCEPT !.version = run.version] = run]_vars
  BY NextInv DEF Lawful
<1>2. QED
  BY <1>1, RunInvariant, PTL DEF Spec, FinalStays

(* After cancel was accepted the run can only stay RUNNING or become       *)
(* CANCELLED: a checkpoint of a worker that has not seen it conflicts.     *)
THEOREM RunCancelWins == Spec => CancelWins
<1>1. Inv /\ [Next]_vars => [run.cancel => run'.cancel /\ run'.status \in {"RUNNING", "CANCELLED"}]_vars
  BY NextInv DEF Lawful
<1>2. QED
  BY <1>1, RunInvariant, PTL DEF Spec, CancelWins

(* A vote that decide has stored is never dropped by a checkpoint, another *)
(* vote, a retry or a recovery.                                            *)
THEOREM RunKeepsVotes == Spec => VotesKept
<1>1. Inv /\ [Next]_vars => [run.votes \subseteq run'.votes]_vars
  BY NextInv DEF Lawful
<1>2. QED
  BY <1>1, RunInvariant, PTL DEF Spec, VotesKept
=============================================================================
