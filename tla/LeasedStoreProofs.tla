-------------------------- MODULE LeasedStoreProofs --------------------------
(***************************************************************************)
(* Proofs about LeasedStore, for every number of workers, clients, runs and*)
(* jobs and every value of the bounds.                                     *)
(***************************************************************************)
EXTENDS LeasedStore, WorkerLoopProofs

(* ----------------------------- Types ------------------------------------ *)

Steps == {"claimed", "processing"}

LEMMA InitTypes == Init => TypeOK
<1>1. Init => LoopTypeOK(Steps)
  BY LoopInitTypes DEF Init
<1>2. Init => TypeOK
  BY <1>1 DEF Init, TypeOK, Steps, Missing, Record, NoRequest, Request
<1>3. QED
  BY <1>2

(* Saving a record.                                                        *)
LEMMA SaveTypes ==
  ASSUME TypeOK, NEW x \in Writer, NEW r \in Run, Save(x, r)
  PROVE  /\ run' \in [Run -> Record]
         /\ copy' \in [Writer -> Record]
         /\ saves' \in [Run -> Nat]
<1>1. /\ copy[x].version + 1 \in Nat
      /\ saves[r] + 1 \in Nat
  BY DEF TypeOK, Record
<1>2. Edited(x, r) \in Record
  BY <1>1 DEF TypeOK, Record, Edited
<1>3. QED
  BY <1>1, <1>2 DEF TypeOK, Save

LEMMA ForgetTypes ==
  ASSUME TypeOK, NEW x, Forget(x)
  PROVE  copy' \in [Writer -> Record]
<1>1. Missing \in Record
  BY DEF Missing, Record
<1>2. QED
  BY <1>1 DEF TypeOK, Forget

LEMMA WritersAre == Worker \subseteq Writer /\ Client \subseteq Writer
  BY DEF Writer

LEMMA StepTypes == TypeOK /\ [Next]_vars => TypeOK'
<1> SUFFICES ASSUME TypeOK, [Next]_vars PROVE TypeOK'
  OBVIOUS
<1> USE DEF Steps
<1>0. LoopTypeOK(Steps)
  BY DEF TypeOK
<1>1. ASSUME NEW c \in Client, ClientStep(c) PROVE TypeOK'
  <2>1. ASSUME NEW r \in Run, BeginRequest(c, r) PROVE TypeOK'
    <3>1. copy' \in [Writer -> Record]
      BY <2>1, WritersAre DEF TypeOK, BeginRequest
    <3>2. LoopTypeOK(Steps)'
      BY <2>1, <1>0 DEF BeginRequest, LoopTypeOK, loopVars
    <3>3. QED
      BY <2>1, <3>1, <3>2 DEF TypeOK, BeginRequest, Request
  <2>2. CASE SaveRun(c)
    <3>1. request[c].run \in Run
      BY <2>2 DEF TypeOK, SaveRun
    <3>2. LoopTypeOK(Steps)'
      BY <2>2, <1>0 DEF SaveRun, LoopTypeOK, loopVars
    <3>3. QED
      BY <2>2, <3>1, <3>2, SaveTypes, WritersAre DEF TypeOK, SaveRun, Request
  <2>3. ASSUME NEW j \in Job, RequestJob(c, j) PROVE TypeOK'
    <3>1. LoopTypeOK(Steps)'
      BY <2>3, <1>0, EnqueueTypes DEF RequestJob
    <3>2. QED
      BY <2>3, <3>1, ForgetTypes DEF TypeOK, RequestJob, CloseRequest, Request, NoRequest
  <2>4. CASE EndRequest(c)
    <3>1. LoopTypeOK(Steps)'
      BY <2>4, <1>0 DEF EndRequest, LoopTypeOK, loopVars
    <3>2. QED
      BY <2>4, <3>1, ForgetTypes DEF TypeOK, EndRequest, CloseRequest, Request, NoRequest
  <2>5. QED
    BY <1>1, <2>1, <2>2, <2>3, <2>4 DEF ClientStep
<1>2. ASSUME NEW w \in Worker, WorkerStep(w) PROVE TypeOK'
  <2>1. CASE ClaimStep(w)
    BY <2>1, <1>0, ClaimJobTypes DEF TypeOK, ClaimStep
  <2>2. CASE HeartbeatStep(w)
    <3>1. LoopTypeOK(Steps)'
      BY <2>2, <1>0, WorkerLoopTypes DEF HeartbeatStep, Heartbeat
    <3>2. QED
      BY <2>2, <3>1 DEF TypeOK, HeartbeatStep
  <2>3. CASE LoadRun(w)
    <3>1. LoopTypeOK(Steps)'
      BY <2>3, <1>0, GotoTypes DEF LoadRun, LoopTypeOK
    <3>2. run[RunOf[claim[w].job]] \in Record
      BY <2>3, <1>0, ClaimTypes, RunOfAssumption DEF LoadRun, TypeOK
    <3>3. QED
      BY <2>3, <3>1, <3>2 DEF TypeOK, LoadRun
  <2>4. CASE Checkpoint(w)
    <3>1. LoopTypeOK(Steps)'
      BY <2>4, <1>0 DEF Checkpoint, LoopTypeOK, loopVars
    <3>2. /\ claim[w].job \in Job
          /\ claim[w].token \in Nat
          /\ RunOf[claim[w].job] \in Run
      BY <2>4, <1>0, ClaimTypes, RunOfAssumption DEF Checkpoint
    <3>3. QED
      BY <2>4, <3>1, <3>2, SaveTypes, WritersAre DEF TypeOK, Checkpoint
  <2>5. CASE CheckpointLeaseLost(w)
    <3>1. LoopTypeOK(Steps)'
      BY <2>5, <1>0, WorkerLoopTypes DEF CheckpointLeaseLost
    <3>2. QED
      BY <2>5, <3>1, ForgetTypes DEF TypeOK, CheckpointLeaseLost
  <2>6. CASE CheckpointConflict(w)
    <3>1. LoopTypeOK(Steps)'
      BY <2>6, <1>0, WorkerLoopTypes DEF CheckpointConflict
    <3>2. QED
      BY <2>6, <3>1 DEF TypeOK, CheckpointConflict
  <2>7. CASE ErrorStep(w)
    <3>1. LoopTypeOK(Steps)'
      BY <2>7, <1>0, WorkerLoopTypes DEF ErrorStep, StoreError, InProcess
    <3>2. QED
      BY <2>7, <3>1 DEF TypeOK, ErrorStep
  <2>8. CASE ReturnStep(w)
    <3>1. LoopTypeOK(Steps)'
      BY <2>8, <1>0, WorkerLoopTypes DEF ReturnStep
    <3>2. QED
      BY <2>8, <3>1, ForgetTypes DEF TypeOK, ReturnStep
  <2>9. CASE EndStep(w)
    <3>1. LoopTypeOK(Steps)'
      BY <2>9, <1>0, WorkerLoopTypes DEF EndStep, EndRunOnce, FinishJob, RequeueJob, FailJob
    <3>2. QED
      BY <2>9, <3>1, ForgetTypes DEF TypeOK, EndStep
  <2>10. CASE CrashStep(w)
    <3>1. LoopTypeOK(Steps)'
      BY <2>10, <1>0, WorkerLoopTypes DEF CrashStep, Crash
    <3>2. QED
      BY <2>10, <3>1, ForgetTypes DEF TypeOK, CrashStep
  <2>11. QED
    BY <1>2, <2>1, <2>2, <2>3, <2>4, <2>5, <2>6, <2>7, <2>8, <2>9, <2>10 DEF WorkerStep
<1>3. CASE TickStep
  BY <1>3, <1>0, TickTypes DEF TypeOK, TickStep
<1>4. CASE UNCHANGED vars
  <2>1. LoopTypeOK(Steps)'
    BY <1>4, <1>0 DEF vars, LoopTypeOK
  <2>2. QED
    BY <1>4, <2>1 DEF vars, TypeOK
<1>5. QED
  BY <1>1, <1>2, <1>3, <1>4 DEF Next

(* Every reachable state is well typed. *)
THEOREM StoreTypes == Spec => []TypeOK
  BY InitTypes, StepTypes, PTL DEF Spec

(* ------------------------ Inductive invariants --------------------------- *)

(* The record and every copy in memory contain the saves up to their       *)
(* version: a copy is never ahead of its version number, nor behind it.    *)
Coherent ==
  /\ \A r \in Run : run[r].version = saves[r] /\ run[r].edits = 1..run[r].version
  /\ \A x \in Writer : copy[x].edits = 1..copy[x].version

(* Tokens only come from grants, and a worker never holds a future one; a  *)
(* worker that learnt that its lease is lost does not get it back.         *)
Fenced ==
  /\ \A j \in Job :
       /\ written[j] <= job[j].token
       /\ job[j].status = "ABSENT" => job[j].token = 0
  /\ \A w \in Worker :
       IF pc[w] = "idle" THEN ~lost[w]
       ELSE /\ claim[w].token <= job[claim[w].job].token
            /\ lost[w] => ~HoldsLease(w)

(* ----------------------- No update is lost ------------------------------ *)

LEMMA SaveCoherent ==
  ASSUME TypeOK, Coherent, NEW x \in Writer, NEW r \in Run, Save(x, r)
  PROVE  Coherent'
<1> DEFINE v == copy[x].version
<1>1. /\ v \in Nat
      /\ v = run[r].version
      /\ v = saves[r]
      /\ copy[x].edits = 1..v
  BY DEF TypeOK, Record, Coherent, Save, CanSave
<1>2. 1..v \union {v + 1} = 1..(v + 1)
  BY <1>1
<1>3. Edited(x, r) = [version |-> v + 1, edits |-> 1..(v + 1)]
  BY <1>1, <1>2 DEF Edited
<1>4. /\ run' = [run EXCEPT ![r] = Edited(x, r)]
      /\ copy' = [copy EXCEPT ![x] = Edited(x, r)]
      /\ saves' = [saves EXCEPT ![r] = v + 1]
  BY <1>1 DEF Save
<1> HIDE DEF v
<1>5. QED
  BY <1>3, <1>4 DEF TypeOK, Coherent

LEMMA ForgetCoherent ==
  ASSUME TypeOK, Coherent, NEW x, Forget(x), UNCHANGED <<run, saves>>
  PROVE  Coherent'
<1>1. Missing.edits = 1..Missing.version
  BY DEF Missing
<1>2. QED
  BY <1>1 DEF TypeOK, Coherent, Forget

LEMMA LoadCoherent ==
  ASSUME TypeOK, Coherent, NEW x, NEW r \in Run, copy' = [copy EXCEPT ![x] = run[r]],
         UNCHANGED <<run, saves>>
  PROVE  Coherent'
  BY DEF TypeOK, Coherent

LEMMA SameCoherent ==
  ASSUME Coherent, UNCHANGED <<run, copy, saves>>
  PROVE  Coherent'
  BY DEF Coherent

LEMMA InitCoherent == Init => Coherent
<1>1. Missing.version = 0 /\ Missing.edits = 1..0
  BY DEF Missing
<1>2. QED
  BY <1>1 DEF Init, Coherent

LEMMA StepCoherent == TypeOK /\ Coherent /\ [Next]_vars => Coherent'
<1> SUFFICES ASSUME TypeOK, Coherent, [Next]_vars PROVE Coherent'
  OBVIOUS
<1>0. LoopTypeOK(Steps)
  BY DEF TypeOK, Steps
<1>1. ASSUME NEW c \in Client, ClientStep(c) PROVE Coherent'
  <2>1. ASSUME NEW r \in Run, BeginRequest(c, r) PROVE Coherent'
    BY <2>1, LoadCoherent DEF BeginRequest
  <2>2. CASE SaveRun(c)
    <3>1. request[c].run \in Run
      BY <2>2 DEF TypeOK, SaveRun
    <3>2. QED
      BY <2>2, <3>1, SaveCoherent, WritersAre DEF SaveRun
  <2>3. CASE EndRequest(c) \/ \E j \in Job : RequestJob(c, j)
    BY <2>3, ForgetCoherent DEF EndRequest, RequestJob, CloseRequest
  <2>4. QED
    BY <1>1, <2>1, <2>2, <2>3 DEF ClientStep
<1>2. ASSUME NEW w \in Worker, WorkerStep(w) PROVE Coherent'
  <2>1. CASE LoadRun(w)
    <3>1. RunOf[claim[w].job] \in Run
      BY <2>1, <1>0, ClaimTypes, RunOfAssumption DEF LoadRun
    <3>2. QED
      BY <2>1, <3>1, LoadCoherent DEF LoadRun
  <2>2. CASE Checkpoint(w)
    <3>1. RunOf[claim[w].job] \in Run
      BY <2>2, <1>0, ClaimTypes, RunOfAssumption DEF Checkpoint
    <3>2. QED
      BY <2>2, <3>1, SaveCoherent, WritersAre DEF Checkpoint
  <2>3. CASE CheckpointLeaseLost(w) \/ ReturnStep(w) \/ EndStep(w) \/ CrashStep(w)
    BY <2>3, ForgetCoherent DEF CheckpointLeaseLost, ReturnStep, EndStep, CrashStep
  <2>4. CASE ClaimStep(w) \/ HeartbeatStep(w) \/ CheckpointConflict(w) \/ ErrorStep(w)
    BY <2>4, SameCoherent DEF ClaimStep, HeartbeatStep, CheckpointConflict, ErrorStep
  <2>5. QED
    BY <1>2, <2>1, <2>2, <2>3, <2>4 DEF WorkerStep
<1>3. CASE TickStep
  BY <1>3, SameCoherent DEF TickStep
<1>4. CASE UNCHANGED vars
  BY <1>4, SameCoherent DEF vars
<1>5. QED
  BY <1>1, <1>2, <1>3, <1>4 DEF Next

(* A stored record contains the change of every save accepted before it:   *)
(* the version check of store.py suffices, with and without a lease.       *)
THEOREM StoreLosesNothing == Spec => []NoLostUpdate
<1>1. Coherent => NoLostUpdate
  BY DEF Coherent, NoLostUpdate
<1>2. QED
  BY <1>1, InitTypes, StepTypes, InitCoherent, StepCoherent, PTL DEF Spec

(* ------------------------ The fence holds ------------------------------- *)

(* What each transaction does to the fields the fence looks at.            *)
LEMMA RowFields ==
  ASSUME NEW row \in Row
  PROVE  /\ \A w \in Worker :
              /\ ClaimedRow(row, w).status = "CLAIMED"
              /\ ClaimedRow(row, w).owner = w
              /\ ClaimedRow(row, w).token = row.token + 1
              /\ ClaimedRow(row, w).attempts = row.attempts + 1
              /\ ClaimedRow(row, w).lease = LeaseTerm
         /\ /\ RenewedRow(row).status = row.status
            /\ RenewedRow(row).owner = row.owner
            /\ RenewedRow(row).token = row.token
            /\ RenewedRow(row).attempts = row.attempts
            /\ RenewedRow(row).lease = LeaseTerm
         /\ \A s \in Ended :
              /\ FinishedRow(row, s).status = s
              /\ FinishedRow(row, s).token = row.token
              /\ FinishedRow(row, s).attempts = row.attempts
         /\ \A n \in Nat :
              /\ RequeuedRow(row, n).status = "QUEUED"
              /\ RequeuedRow(row, n).token = row.token
              /\ RequeuedRow(row, n).attempts = row.attempts
         /\ /\ AgedRow(row).status = row.status
            /\ AgedRow(row).owner = row.owner
            /\ AgedRow(row).token = row.token
            /\ AgedRow(row).attempts = row.attempts
            /\ AgedRow(row).lease = Down(row.lease)
<1>1. \A w \in Worker :
        /\ ClaimedRow(row, w).status = "CLAIMED"
        /\ ClaimedRow(row, w).owner = w
        /\ ClaimedRow(row, w).token = row.token + 1
        /\ ClaimedRow(row, w).attempts = row.attempts + 1
        /\ ClaimedRow(row, w).lease = LeaseTerm
  BY DEF Row, ClaimedRow
<1>2. /\ RenewedRow(row).status = row.status
      /\ RenewedRow(row).owner = row.owner
      /\ RenewedRow(row).token = row.token
      /\ RenewedRow(row).attempts = row.attempts
      /\ RenewedRow(row).lease = LeaseTerm
  BY DEF Row, RenewedRow
<1>3. \A s \in Ended :
        /\ FinishedRow(row, s).status = s
        /\ FinishedRow(row, s).token = row.token
        /\ FinishedRow(row, s).attempts = row.attempts
  BY DEF Row, FinishedRow
<1>4. \A n \in Nat :
        /\ RequeuedRow(row, n).status = "QUEUED"
        /\ RequeuedRow(row, n).token = row.token
        /\ RequeuedRow(row, n).attempts = row.attempts
  BY DEF Row, RequeuedRow
<1>5. /\ AgedRow(row).status = row.status
      /\ AgedRow(row).owner = row.owner
      /\ AgedRow(row).token = row.token
      /\ AgedRow(row).attempts = row.attempts
      /\ AgedRow(row).lease = Down(row.lease)
  BY DEF Row, AgedRow
<1>6. QED
  BY <1>1, <1>2, <1>3, <1>4, <1>5

LEMMA NewRowFields ==
  /\ EnqueuedRow.status = "QUEUED"
  /\ EnqueuedRow.token = 0
  /\ EnqueuedRow.attempts = 0
  BY DEF EnqueuedRow, AbsentRow

LEMMA InitFenced == Init => Fenced
  BY DEF Init, LoopInit, AbsentRow, Fenced

(* A worker that stops working leaves the fence as it was... *)
LEMMA LeaveFenced ==
  ASSUME TypeOK, Fenced, NEW w \in Worker, Leave(w), UNCHANGED <<job, written>>
  PROVE  Fenced'
  BY DEF TypeOK, LoopTypeOK, Fenced, Leave, Goto, HoldsLease, Leased, Owns

(* ...and so does one that goes on. *)
LEMMA GotoFenced ==
  ASSUME TypeOK, Fenced, NEW w \in Worker, NEW s, pc[w] # "idle", s # "idle", Goto(w, s),
         UNCHANGED <<job, claim, lost, written>>
  PROVE  Fenced'
  BY DEF TypeOK, LoopTypeOK, Fenced, Goto, HoldsLease, Leased, Owns

LEMMA SameFenced ==
  ASSUME Fenced, UNCHANGED <<job, pc, claim, lost, written>>
  PROVE  Fenced'
  BY DEF Fenced, HoldsLease, Leased, Owns

LEMMA ClaimFenced ==
  ASSUME TypeOK, Fenced, NEW w \in Worker, NEW j \in Job, ClaimJob(w, j), UNCHANGED written
  PROVE  Fenced'
<1> DEFINE t == job[j].token + 1
<1>1. /\ job[j] \in Row
      /\ job' = [job EXCEPT ![j] = ClaimedRow(job[j], w)]
      /\ job'[j].status = "CLAIMED"
      /\ job'[j].token = t
      /\ \A k \in Job : k # j => job'[k] = job[k]
      /\ job[j].token \in Nat
  BY RowFields DEF TypeOK, LoopTypeOK, ClaimJob, Row
<1>2. /\ pc[w] = "idle"
      /\ pc' = [pc EXCEPT ![w] = "claimed"]
      /\ claim'[w].job = j
      /\ claim'[w].token = t
      /\ \A v \in Worker : v # w => claim'[v] = claim[v]
      /\ lost' = lost
      /\ ~lost[w]
  BY DEF TypeOK, LoopTypeOK, ClaimJob, Goto, Fenced
<1>3. ASSUME NEW k \in Job
      PROVE  written'[k] <= job'[k].token /\ (job'[k].status = "ABSENT" => job'[k].token = 0)
  BY <1>1 DEF TypeOK, Fenced, ClaimJob
<1>4. ASSUME NEW v \in Worker, pc'[v] # "idle", v # w
      PROVE  /\ claim'[v].token <= job'[claim'[v].job].token
             /\ lost'[v] => ~HoldsLease(v)'
  <2>1. /\ pc[v] # "idle"
        /\ claim[v].job \in Job
        /\ claim[v].token \in Nat
        /\ claim[v].token <= job[claim[v].job].token
        /\ lost[v] => ~HoldsLease(v)
    BY <1>2, <1>4 DEF TypeOK, LoopTypeOK, Fenced, Claim
  <2>2. CASE claim[v].job = j
    BY <1>1, <1>2, <1>4, <2>1, <2>2 DEF HoldsLease, Leased, Owns
  <2>3. CASE claim[v].job # j
    BY <1>1, <1>2, <1>4, <2>1, <2>3 DEF HoldsLease, Leased, Owns
  <2>4. QED
    BY <2>2, <2>3
<1>5. QED
  BY <1>1, <1>2, <1>3, <1>4 DEF Fenced, TypeOK, LoopTypeOK

LEMMA HeartbeatFenced ==
  ASSUME TypeOK, Fenced, NEW w \in Worker, Heartbeat(w), UNCHANGED written
  PROVE  Fenced'
<1> DEFINE j == claim[w].job
<1>1. /\ j \in Job
      /\ pc[w] # "idle"
      /\ job[j] \in Row
      /\ UNCHANGED <<pc, claim>>
  BY DEF TypeOK, LoopTypeOK, Heartbeat
<1>2. CASE HoldsLease(w) /\ job' = [job EXCEPT ![j] = RenewedRow(@)] /\ UNCHANGED lost
  <2>1. /\ job'[j].status = "CLAIMED"
        /\ job'[j].token = job[j].token
        /\ job[j].owner = w
        /\ job'[j].owner = w
        /\ \A k \in Job : k # j => job'[k] = job[k]
    BY <1>1, <1>2, RowFields DEF TypeOK, LoopTypeOK, HoldsLease, Leased, Owns
  <2>2. ASSUME NEW v \in Worker, pc[v] # "idle"
        PROVE  HoldsLease(v)' => HoldsLease(v) \/ v = w
    <3>1. claim[v].job \in Job
      BY <2>2 DEF TypeOK, LoopTypeOK
    <3>2. QED
      BY <1>1, <2>1, <3>1 DEF HoldsLease, Leased, Owns
  <2>3. QED
    BY <1>1, <1>2, <2>1, <2>2 DEF TypeOK, LoopTypeOK, Fenced, Heartbeat
<1>3. CASE ~HoldsLease(w) /\ lost' = [lost EXCEPT ![w] = TRUE] /\ UNCHANGED job
  <2>1. \A v \in Worker : HoldsLease(v)' <=> HoldsLease(v)
    BY <1>1, <1>3 DEF HoldsLease, Leased, Owns
  <2>2. QED
    BY <1>1, <1>3, <2>1 DEF TypeOK, LoopTypeOK, Fenced
<1>4. QED
  BY <1>2, <1>3 DEF Heartbeat

LEMMA EndClaimFenced ==
  ASSUME TypeOK, Fenced, NEW w \in Worker, NEW row, EndClaim(w, row), UNCHANGED written,
         pc[w] # "idle",
         row.status \notin {"ABSENT", "CLAIMED"}, row.token = job[claim[w].job].token
  PROVE  Fenced'
<1> DEFINE j == claim[w].job
<1>1. Leave(w) /\ j \in Job
  BY DEF TypeOK, LoopTypeOK, EndClaim
<1>2. CASE ~Holds(w)
  BY <1>1, <1>2, LeaveFenced DEF EndClaim
<1>3. CASE Holds(w)
  <2>1. /\ job' = [job EXCEPT ![j] = row]
        /\ job'[j] = row
        /\ \A k \in Job : k # j => job'[k] = job[k]
    BY <1>1, <1>3 DEF TypeOK, LoopTypeOK, EndClaim
  <2>2. ASSUME NEW k \in Job
        PROVE  written'[k] <= job'[k].token /\ (job'[k].status = "ABSENT" => job'[k].token = 0)
    BY <2>1 DEF Fenced
  <2>3. ASSUME NEW v \in Worker
        PROVE  IF pc'[v] = "idle" THEN ~lost'[v]
               ELSE /\ claim'[v].token <= job'[claim'[v].job].token
                    /\ lost'[v] => ~HoldsLease(v)'
    <3>1. CASE v = w
      BY <1>1, <3>1 DEF TypeOK, LoopTypeOK, Leave, Goto
    <3>2. CASE v # w
      <4>1. pc'[v] = pc[v] /\ claim'[v] = claim[v] /\ lost'[v] = lost[v]
        BY <1>1, <3>2 DEF TypeOK, LoopTypeOK, Leave, Goto
      <4>2. CASE pc[v] = "idle"
        BY <4>1, <4>2 DEF Fenced
      <4>3. CASE pc[v] # "idle"
        <5>1. claim[v].job \in Job
          BY <4>3 DEF TypeOK, LoopTypeOK
        <5>2. HoldsLease(v)' => HoldsLease(v)
          BY <2>1, <4>1, <5>1 DEF HoldsLease, Leased, Owns
        <5>3. claim[v].token <= job'[claim[v].job].token
          BY <2>1, <4>3, <5>1 DEF Fenced
        <5>4. QED
          BY <4>1, <4>3, <5>2, <5>3 DEF Fenced
      <4>4. QED
        BY <4>2, <4>3
    <3>3. QED
      BY <3>1, <3>2
  <2>4. QED
    BY <2>2, <2>3 DEF Fenced
<1>4. QED
  BY <1>2, <1>3

LEMMA EndRunOnceFenced ==
  ASSUME TypeOK, Fenced, NEW w \in Worker, EndRunOnce(w), UNCHANGED written
  PROVE  Fenced'
<1>1. pc[w] # "idle" /\ job[claim[w].job] \in Row
  BY DEF TypeOK, LoopTypeOK, EndRunOnce, FinishJob, RequeueJob, FailJob
<1>2. CASE FinishJob(w)
  BY <1>1, <1>2, RowFields, EndClaimFenced DEF FinishJob, Ended
<1>3. CASE FailJob(w)
  BY <1>1, <1>3, RowFields, EndClaimFenced DEF FailJob, Ended
<1>4. CASE RequeueJob(w)
  <2>1. Backoff[claim[w].attempts] \in Nat
    BY <1>1, <1>4, ClaimTypes, BackoffAssumption, AttemptsAssumption DEF RequeueJob, TypeOK, Steps
  <2>2. QED
    BY <1>1, <1>4, <2>1, RowFields, EndClaimFenced DEF RequeueJob
<1>5. QED
  BY <1>2, <1>3, <1>4 DEF EndRunOnce

LEMMA TickFenced ==
  ASSUME TypeOK, Fenced, Tick, UNCHANGED written
  PROVE  Fenced'
<1>1. ASSUME NEW j \in Job
      PROVE  /\ job'[j].status = job[j].status
             /\ job'[j].owner = job[j].owner
             /\ job'[j].token = job[j].token
             /\ job'[j].lease > 0 => job[j].lease > 0
  <2>1. job[j] \in Row /\ job'[j] = AgedRow(job[j])
    BY DEF TypeOK, LoopTypeOK, Tick
  <2>2. job[j].lease \in Nat
    BY <2>1 DEF Row
  <2>3. QED
    BY <2>1, <2>2, RowFields DEF Down
<1>2. UNCHANGED <<pc, claim, lost>>
  BY DEF Tick
<1>3. ASSUME NEW v \in Worker, pc[v] # "idle"
      PROVE  HoldsLease(v)' => HoldsLease(v)
  <2>1. claim[v].job \in Job
    BY <1>3 DEF TypeOK, LoopTypeOK
  <2>2. QED
    BY <1>1, <1>2, <2>1 DEF HoldsLease, Leased, Owns
<1>4. QED
  BY <1>1, <1>2, <1>3 DEF Fenced, TypeOK, LoopTypeOK

LEMMA EnqueueFenced ==
  ASSUME TypeOK, Fenced, NEW j \in Job, EnqueueJob(j), UNCHANGED written
  PROVE  Fenced'
<1>1. /\ job[j].token = 0
      /\ job'[j].status = "QUEUED"
      /\ job'[j].token = 0
      /\ \A k \in Job : k # j => job'[k] = job[k]
      /\ UNCHANGED <<pc, claim, lost>>
  BY NewRowFields DEF TypeOK, LoopTypeOK, Fenced, EnqueueJob
<1>2. ASSUME NEW v \in Worker, pc[v] # "idle"
      PROVE  HoldsLease(v)' => HoldsLease(v)
  <2>1. claim[v].job \in Job
    BY <1>2 DEF TypeOK, LoopTypeOK
  <2>2. QED
    BY <1>1, <2>1 DEF HoldsLease, Leased, Owns
<1>3. QED
  BY <1>1, <1>2 DEF Fenced, TypeOK, LoopTypeOK

LEMMA CheckpointFenced ==
  ASSUME TypeOK, Fenced, NEW w \in Worker, Checkpoint(w)
  PROVE  Fenced'
<1>1. /\ claim[w].job \in Job
      /\ claim[w].token = job[claim[w].job].token
      /\ written' = [written EXCEPT ![claim[w].job] = claim[w].token]
      /\ claim[w].token \in Nat
      /\ UNCHANGED <<job, pc, claim, lost>>
  BY DEF TypeOK, LoopTypeOK, Claim, Checkpoint, HoldsLease, Leased, Owns, loopVars
<1>2. \A v \in Worker : HoldsLease(v)' <=> HoldsLease(v)
  BY <1>1 DEF HoldsLease, Leased, Owns
<1>3. QED
  BY <1>1, <1>2 DEF Fenced, TypeOK

LEMMA StepFenced == TypeOK /\ Fenced /\ [Next]_vars => Fenced'
<1> SUFFICES ASSUME TypeOK, Fenced, [Next]_vars PROVE Fenced'
  OBVIOUS
<1>1. ASSUME NEW c \in Client, ClientStep(c) PROVE Fenced'
  <2>1. CASE SaveRun(c) \/ EndRequest(c) \/ \E r \in Run : BeginRequest(c, r)
    BY <2>1, SameFenced DEF SaveRun, EndRequest, CloseRequest, BeginRequest, loopVars
  <2>2. CASE \E j \in Job : RequestJob(c, j)
    BY <2>2, EnqueueFenced DEF RequestJob, CloseRequest
  <2>3. QED
    BY <1>1, <2>1, <2>2 DEF ClientStep
<1>2. ASSUME NEW w \in Worker, WorkerStep(w) PROVE Fenced'
  <2>1. CASE ClaimStep(w)
    BY <2>1, ClaimFenced DEF ClaimStep
  <2>2. CASE HeartbeatStep(w)
    BY <2>2, HeartbeatFenced DEF HeartbeatStep
  <2>3. CASE LoadRun(w)
    BY <2>3, GotoFenced DEF LoadRun
  <2>4. CASE Checkpoint(w)
    BY <2>4, CheckpointFenced
  <2>5. CASE CheckpointLeaseLost(w)
    BY <2>5, LeaveFenced DEF CheckpointLeaseLost, Abandon
  <2>6. CASE CheckpointConflict(w)
    BY <2>6, GotoFenced DEF CheckpointConflict, Raise
  <2>7. CASE ErrorStep(w)
    BY <2>7, GotoFenced DEF ErrorStep, StoreError, InProcess
  <2>8. CASE ReturnStep(w)
    BY <2>8, GotoFenced, LeaveFenced DEF ReturnStep, Return, Abandon
  <2>9. CASE EndStep(w)
    BY <2>9, EndRunOnceFenced DEF EndStep
  <2>10. CASE CrashStep(w)
    BY <2>10, LeaveFenced DEF CrashStep, Crash
  <2>11. QED
    BY <1>2, <2>1, <2>2, <2>3, <2>4, <2>5, <2>6, <2>7, <2>8, <2>9, <2>10 DEF WorkerStep
<1>3. CASE TickStep
  BY <1>3, TickFenced DEF TickStep
<1>4. CASE UNCHANGED vars
  BY <1>4, SameFenced DEF vars
<1>5. QED
  BY <1>1, <1>2, <1>3, <1>4 DEF Next

(* Saves under a job come in the order of its grants: a worker that lost   *)
(* its lease, however long it slept, writes nothing after its successor.   *)
THEOREM StoreFences == Spec => FencingOrder
<1>1. TypeOK /\ Fenced /\ [Next]_vars => [\A j \in Job : written'[j] >= written[j]]_vars
  <2> SUFFICES ASSUME TypeOK, Fenced, Next
               PROVE  \A j \in Job : written'[j] >= written[j]
    OBVIOUS
  <2>1. ASSUME NEW w \in Worker, Checkpoint(w) PROVE \A j \in Job : written'[j] >= written[j]
    <3>1. /\ claim[w].job \in Job
          /\ claim[w].token = job[claim[w].job].token
          /\ written' = [written EXCEPT ![claim[w].job] = claim[w].token]
          /\ claim[w].token \in Nat
      BY <2>1 DEF TypeOK, LoopTypeOK, Claim, Checkpoint, HoldsLease, Leased, Owns
    <3>2. QED
      BY <3>1 DEF TypeOK, Fenced
  <2>2. CASE UNCHANGED written
    BY <2>2 DEF TypeOK
  <2>3. Next => UNCHANGED written \/ \E w \in Worker : Checkpoint(w)
    BY DEF Next, ClientStep, BeginRequest, SaveRun, RequestJob, EndRequest, CloseRequest,
           WorkerStep, ClaimStep, HeartbeatStep, LoadRun, CheckpointLeaseLost,
           CheckpointConflict, ErrorStep, ReturnStep, EndStep, CrashStep, TickStep
  <2>4. QED
    BY <2>1, <2>2, <2>3
<1>2. QED
  BY <1>1, InitTypes, StepTypes, InitFenced, StepFenced, PTL DEF Spec, FencingOrder


(* ----------------------------- Refinement ------------------------------- *)

(* LeasedStore implements AtomicRun: saves are atomic read-modify-writes   *)
(* and grants of a job are ordered.                                        *)

LEMMA InitAtomic == Init => Atomic!Init
  BY DEF Init, LoopInit, AbsentRow, Ended, Missing, Atomic!Init

(* An accepted save extends the latest record by itself. *)
LEMMA SaveAtomic ==
  ASSUME TypeOK, Coherent, NEW x \in Writer, NEW r \in Run, Save(x, r)
  PROVE  Atomic!Extend(r)
<1>1. /\ copy[x].version = run[r].version
      /\ copy[x].edits = run[r].edits
      /\ saves[r] = run[r].version
  BY DEF Coherent, Save, CanSave
<1>2. /\ run' = [run EXCEPT ![r] = Edited(x, r)]
      /\ Edited(x, r).version = run[r].version + 1
      /\ Edited(x, r).edits = run[r].edits \union {run[r].version + 1}
  BY <1>1 DEF Save, Edited
<1>3. [q \in Run |-> run'[q].version]
        = [[q \in Run |-> run[q].version] EXCEPT ![r] = @ + 1]
  BY <1>2 DEF TypeOK
<1>4. [q \in Run |-> run'[q].edits]
        = [[q \in Run |-> run[q].edits]
             EXCEPT ![r] = @ \union {[q \in Run |-> run[q].version][r] + 1}]
  BY <1>2 DEF TypeOK
<1>5. QED
  BY <1>3, <1>4 DEF Atomic!Extend

LEMMA SameAtomic ==
  ASSUME UNCHANGED <<run, written>>,
         \A j \in Job : /\ job'[j].token = job[j].token
                        /\ job'[j].status \in Ended <=> job[j].status \in Ended
  PROVE  UNCHANGED Atomic!vars
  BY DEF Atomic!vars

LEMMA ClaimAtomic ==
  ASSUME TypeOK, NEW w \in Worker, NEW j \in Job, ClaimJob(w, j), UNCHANGED <<run, written>>
  PROVE  Atomic!Grant(j)
<1>1. /\ job[j] \in Row
      /\ job' = [job EXCEPT ![j] = ClaimedRow(job[j], w)]
      /\ job[j].status \in {"QUEUED", "CLAIMED"}
  BY DEF TypeOK, LoopTypeOK, ClaimJob, Claimable, Lapsed, Available
<1>2. /\ job'[j].token = job[j].token + 1
      /\ job'[j].status = "CLAIMED"
      /\ \A k \in Job : k # j => job'[k] = job[k]
  BY <1>1, RowFields DEF TypeOK, LoopTypeOK
<1>3. {k \in Job : job'[k].status \in Ended} = {k \in Job : job[k].status \in Ended}
  BY <1>1, <1>2 DEF Ended
<1>4. [k \in Job |-> job'[k].token] = [[k \in Job |-> job[k].token] EXCEPT ![j] = @ + 1]
  BY <1>2
<1>5. QED
  BY <1>1, <1>3, <1>4 DEF Atomic!Grant, Ended

LEMMA EndClaimAtomic ==
  ASSUME TypeOK, NEW w \in Worker, pc[w] # "idle", NEW row, EndClaim(w, row),
         row.token = job[claim[w].job].token,
         UNCHANGED <<run, written>>, NEW j \in Job, j = claim[w].job
  PROVE  Atomic!Close(j) \/ UNCHANGED Atomic!vars
<1>2. CASE ~Holds(w)
  BY <1>2, SameAtomic DEF EndClaim
<1>3. CASE Holds(w)
  <2>1. /\ job'[j] = row
        /\ job[j].status = "CLAIMED"
        /\ \A k \in Job : k # j => job'[k] = job[k]
    BY <1>3 DEF TypeOK, LoopTypeOK, EndClaim, Holds, Owns
  <2>2. CASE row.status \in Ended
    <3>1. {k \in Job : job'[k].status \in Ended} = {k \in Job : job[k].status \in Ended} \union {j}
      BY <2>1, <2>2
    <3>2. [k \in Job |-> job'[k].token] = [k \in Job |-> job[k].token]
      BY <2>1
    <3>3. QED
      BY <3>1, <3>2 DEF Atomic!Close
  <2>3. CASE row.status \notin Ended
    BY <2>1, <2>3, SameAtomic DEF Ended
  <2>4. QED
    BY <2>2, <2>3
<1>4. QED
  BY <1>2, <1>3

LEMMA EndRunOnceAtomic ==
  ASSUME TypeOK, NEW w \in Worker, EndRunOnce(w), UNCHANGED <<run, written>>,
         NEW j \in Job, j = claim[w].job
  PROVE  Atomic!Close(j) \/ UNCHANGED Atomic!vars
<1>1. pc[w] # "idle" /\ job[claim[w].job] \in Row
  BY DEF TypeOK, LoopTypeOK, EndRunOnce, FinishJob, RequeueJob, FailJob
<1>2. CASE FinishJob(w)
  BY <1>1, <1>2, RowFields, EndClaimAtomic DEF FinishJob, Ended
<1>3. CASE FailJob(w)
  BY <1>1, <1>3, RowFields, EndClaimAtomic DEF FailJob, Ended
<1>4. CASE RequeueJob(w)
  <2>1. Backoff[claim[w].attempts] \in Nat
    BY <1>1, <1>4, ClaimTypes, BackoffAssumption, AttemptsAssumption DEF RequeueJob, TypeOK, Steps
  <2>2. QED
    BY <1>1, <1>4, <2>1, RowFields, EndClaimAtomic DEF RequeueJob
<1>5. QED
  BY <1>2, <1>3, <1>4 DEF EndRunOnce

(* Every step of the store is one of AtomicRun's, or invisible to it. *)
LEMMA StepAtomic ==
  TypeOK /\ Coherent /\ Fenced /\ [Next]_vars => [Atomic!Next]_(Atomic!vars)
<1> SUFFICES ASSUME TypeOK, Coherent, Fenced, [Next]_vars
             PROVE  Atomic!Next \/ UNCHANGED Atomic!vars
  OBVIOUS
<1>1. ASSUME NEW c \in Client, ClientStep(c) PROVE Atomic!Next \/ UNCHANGED Atomic!vars
  <2>1. CASE SaveRun(c)
    <3>1. PICK r \in Run : r = request[c].run
      BY <2>1 DEF TypeOK, SaveRun
    <3>2. Save(c, r) /\ UNCHANGED <<job, written>>
      BY <2>1, <3>1 DEF SaveRun, Save, CanSave, Edited, loopVars
    <3>3. Atomic!Extend(r)
      BY <3>2, SaveAtomic, WritersAre
    <3>4. Atomic!Commit(r)
      BY <3>2, <3>3 DEF Atomic!Commit
    <3>5. QED
      BY <3>4 DEF Atomic!Next
  <2>2. ASSUME NEW j \in Job, RequestJob(c, j) PROVE UNCHANGED Atomic!vars
    <3>1. /\ job[j].status = "ABSENT"
          /\ job[j].token = 0
          /\ job'[j].status = "QUEUED"
          /\ job'[j].token = 0
          /\ \A k \in Job : k # j => job'[k] = job[k]
      BY <2>2, NewRowFields DEF TypeOK, LoopTypeOK, Fenced, RequestJob, EnqueueJob
    <3>2. UNCHANGED <<run, written>>
      BY <2>2 DEF RequestJob, CloseRequest
    <3>3. QED
      BY <3>1, <3>2, SameAtomic DEF Ended
  <2>3. CASE EndRequest(c) \/ \E r \in Run : BeginRequest(c, r)
    BY <2>3, SameAtomic DEF EndRequest, CloseRequest, BeginRequest, loopVars
  <2>4. QED
    BY <1>1, <2>1, <2>2, <2>3 DEF ClientStep
<1>2. ASSUME NEW w \in Worker, WorkerStep(w) PROVE Atomic!Next \/ UNCHANGED Atomic!vars
  <2>1. CASE ClaimStep(w)
    BY <2>1, ClaimAtomic DEF ClaimStep, Atomic!Next
  <2>2. CASE HeartbeatStep(w)
    <3>1. claim[w].job \in Job /\ job[claim[w].job] \in Row
      BY <2>2 DEF TypeOK, LoopTypeOK, HeartbeatStep, Heartbeat
    <3>2. \A j \in Job : job'[j].token = job[j].token /\ job'[j].status = job[j].status
      <4>1. CASE UNCHANGED job
        BY <4>1
      <4>2. CASE job' = [job EXCEPT ![claim[w].job] = RenewedRow(job[claim[w].job])]
        BY <3>1, <4>2, RowFields DEF TypeOK, LoopTypeOK
      <4>3. QED
        BY <2>2, <4>1, <4>2 DEF HeartbeatStep, Heartbeat
    <3>3. QED
      BY <2>2, <3>2, SameAtomic DEF HeartbeatStep
  <2>3. CASE Checkpoint(w)
    <3>1. PICK j \in Job : j = claim[w].job
      BY <2>3 DEF TypeOK, LoopTypeOK, Checkpoint
    <3>2. /\ RunOf[j] \in Run
          /\ claim[w].token = job[j].token
          /\ job[j].status = "CLAIMED"
          /\ written' = [written EXCEPT ![j] = job[j].token]
          /\ UNCHANGED job
      BY <2>3, <3>1, RunOfAssumption DEF Checkpoint, HoldsLease, Leased, Owns, loopVars
    <3>3. Save(w, RunOf[j])
      BY <2>3, <3>1 DEF Checkpoint
    <3>4. Atomic!Extend(RunOf[j])
      BY <3>2, <3>3, SaveAtomic, WritersAre
    <3>5. Atomic!LeasedCommit(j)
      BY <3>2, <3>4 DEF Atomic!LeasedCommit, Ended
    <3>6. QED
      BY <3>5 DEF Atomic!Next
  <2>4. CASE EndStep(w)
    <3>1. PICK j \in Job : j = claim[w].job
      BY <2>4 DEF TypeOK, LoopTypeOK, EndStep, EndRunOnce, FinishJob, RequeueJob, FailJob
    <3>2. Atomic!Close(j) \/ UNCHANGED Atomic!vars
      BY <2>4, <3>1, EndRunOnceAtomic DEF EndStep
    <3>3. QED
      BY <3>2 DEF Atomic!Next
  <2>5. CASE \/ LoadRun(w) \/ CheckpointLeaseLost(w) \/ CheckpointConflict(w)
             \/ ErrorStep(w) \/ ReturnStep(w) \/ CrashStep(w)
    <3>1. UNCHANGED <<job, run, written>>
      BY <2>5
      DEF LoadRun, CheckpointLeaseLost, CheckpointConflict, ErrorStep, ReturnStep, CrashStep,
          Abandon, Raise, StoreError, Return, Crash
    <3>2. QED
      BY <3>1, SameAtomic
  <2>6. QED
    BY <1>2, <2>1, <2>2, <2>3, <2>4, <2>5 DEF WorkerStep
<1>3. CASE TickStep
  <2>1. \A j \in Job : job'[j].token = job[j].token /\ job'[j].status = job[j].status
    BY <1>3, RowFields DEF TypeOK, LoopTypeOK, TickStep, Tick
  <2>2. QED
    BY <1>3, <2>1, SameAtomic DEF TickStep
<1>4. CASE UNCHANGED vars
  BY <1>4, SameAtomic DEF vars
<1>5. QED
  BY <1>1, <1>2, <1>3, <1>4 DEF Next

(* The optimistic version check, the lease and the fencing token together  *)
(* make the store behave like AtomicRun, whoever crashes or falls asleep.  *)
THEOREM StoreImplementsAtomicRun == Spec => ImplementsAtomicRun
  BY InitAtomic, StepAtomic, InitTypes, StepTypes, InitCoherent, StepCoherent,
     InitFenced, StepFenced, PTL
  DEF Spec, ImplementsAtomicRun, Atomic!Spec

(* ------------------------------ Recovery -------------------------------- *)
(* Exceptions cost at most MaxAttempts claims of a job, and every further  *)
(* claim has a crash or a late heartbeat of its own to answer for.         *)

(* The attempts of a job, against the exceptions and faults that cost them. *)
(* A claimed job without a worker that holds its lease has already met a   *)
(* fault which the bound counts and its attempts do not.                   *)
Attended(j) == \E w \in Worker : pc[w] # "idle" /\ claim[w].job = j /\ HoldsLease(w)

Counted ==
  /\ \A w \in Worker : pc[w] # "idle" /\ Holds(w) =>
       claim[w].attempts = job[claim[w].job].attempts
  /\ \A j \in Job :
       /\ job[j].attempts <= MaxAttempts + faults
       /\ job[j].status \in {"ABSENT", "QUEUED"} => job[j].attempts < MaxAttempts
       /\ job[j].status = "CLAIMED" /\ ~Attended(j) => job[j].attempts < MaxAttempts + faults

LEMMA InitCounted == Init => Counted
  BY AttemptsAssumption, FaultAssumption DEF Init, LoopInit, AbsentRow, Counted

(* A fault is one more in the bound, and the bound never shrinks. *)
LEMMA FaultTypes ==
  ASSUME TypeOK
  PROVE  /\ faults \in Nat
         /\ MaxAttempts \in Nat \ {0}
         /\ \A j \in Job : /\ job[j] \in Row
                          /\ job[j].attempts \in Nat
                          /\ job[j].token \in Nat
                          /\ job[j].lease \in Nat
         /\ \A w \in Worker : pc[w] # "idle" => /\ claim[w].job \in Job
                                                /\ claim[w].token \in Nat
                                                /\ claim[w].attempts \in Nat
  BY FaultAssumption, AttemptsAssumption DEF TypeOK, LoopTypeOK, Row, Claim

(* Nothing the bound looks at has changed. *)
LEMMA SameCounted ==
  ASSUME Counted, UNCHANGED <<job, pc, claim, faults>>
  PROVE  Counted'
  BY DEF Counted, Attended, Holds, HoldsLease, Leased, Owns

(* A worker goes on with what it holds. *)
LEMMA GotoCounted ==
  ASSUME TypeOK, Counted, NEW w \in Worker, NEW s, pc[w] # "idle", s # "idle", Goto(w, s),
         UNCHANGED <<job, claim, faults>>
  PROVE  Counted'
<1>1. \A v \in Worker : (pc'[v] # "idle") <=> (pc[v] # "idle")
  BY DEF TypeOK, LoopTypeOK, Goto
<1>2. \A j \in Job : Attended(j)' <=> Attended(j)
  BY <1>1 DEF Attended, HoldsLease, Leased, Owns
<1>3. QED
  BY <1>1, <1>2 DEF Counted, Holds, Owns

(* A worker that holds no lease leaves: nobody depended on it. *)
LEMMA LeaveCounted ==
  ASSUME TypeOK, Counted, NEW w \in Worker, Leave(w), pc[w] # "idle", ~HoldsLease(w),
         UNCHANGED <<job, faults>>
  PROVE  Counted'
<1>1. /\ pc'[w] = "idle"
      /\ \A v \in Worker : v # w => pc'[v] = pc[v] /\ claim'[v] = claim[v]
  BY DEF TypeOK, LoopTypeOK, Leave, Goto
<1>2. \A j \in Job : Attended(j) => Attended(j)'
  BY <1>1 DEF Attended, HoldsLease, Leased, Owns
<1>3. \A v \in Worker : pc'[v] # "idle" /\ Holds(v)' => claim'[v].attempts = job'[claim'[v].job].attempts
  BY <1>1 DEF Counted, Holds, Owns
<1>4. QED
  BY <1>2, <1>3 DEF Counted

(* A crash may leave a job unattended, and is counted. *)
LEMMA CrashCounted ==
  ASSUME TypeOK, Counted, NEW w \in Worker, Crash(w)
  PROVE  Counted'
<1>1. /\ pc'[w] = "idle"
      /\ \A v \in Worker : v # w => pc'[v] = pc[v] /\ claim'[v] = claim[v]
      /\ faults' = faults + 1
      /\ UNCHANGED job
  BY DEF TypeOK, LoopTypeOK, Crash, Fault, Leave, Goto
<1>2. \A v \in Worker : pc'[v] # "idle" /\ Holds(v)' => claim'[v].attempts = job'[claim'[v].job].attempts
  BY <1>1 DEF Counted, Holds, Owns
<1>3. ASSUME NEW j \in Job
      PROVE  /\ job'[j].attempts <= MaxAttempts + faults'
             /\ job'[j].status = "CLAIMED" => job'[j].attempts < MaxAttempts + faults'
  BY <1>1, FaultTypes DEF Counted
<1>4. QED
  BY <1>1, <1>2, <1>3 DEF Counted

LEMMA ClaimCounted ==
  ASSUME TypeOK, Fenced, Counted, NEW w \in Worker, NEW j \in Job, ClaimJob(w, j)
  PROVE  Counted'
<1>1. /\ job[j] \in Row
      /\ job' = [job EXCEPT ![j] = ClaimedRow(job[j], w)]
      /\ \A k \in Job : k # j => job'[k] = job[k]
      /\ job'[j].status = "CLAIMED"
      /\ job'[j].owner = w
      /\ job'[j].token = job[j].token + 1
      /\ job'[j].attempts = job[j].attempts + 1
      /\ job'[j].lease > 0
  BY RowFields, TermAssumption DEF TypeOK, LoopTypeOK, ClaimJob
<1>2. /\ pc[w] = "idle"
      /\ pc'[w] # "idle"
      /\ claim'[w] = [job |-> j, token |-> job[j].token + 1, attempts |-> job[j].attempts + 1]
      /\ \A v \in Worker : v # w => pc'[v] = pc[v] /\ claim'[v] = claim[v]
      /\ faults' = faults
  BY DEF TypeOK, LoopTypeOK, ClaimJob, Goto
<1>3. job[j].attempts < MaxAttempts + faults
  <2>1. CASE Available(job[j])
    BY <2>1, FaultTypes DEF Available, Counted
  <2>2. CASE Lapsed(job[j])
    <3>1. ~Attended(j)
      BY <2>2 DEF Lapsed, Attended, HoldsLease, Leased
    <3>2. QED
      BY <2>2, <3>1 DEF Lapsed, Counted
  <2>3. QED
    BY <2>1, <2>2 DEF ClaimJob, Claimable
<1>4. Attended(j)'
  BY <1>1, <1>2 DEF Attended, HoldsLease, Leased, Owns
<1>5. ASSUME NEW k \in Job, k # j, Attended(k) PROVE Attended(k)'
  BY <1>1, <1>2, <1>5 DEF Attended, HoldsLease, Leased, Owns
<1>6. ASSUME NEW v \in Worker, pc'[v] # "idle", Holds(v)'
      PROVE  claim'[v].attempts = job'[claim'[v].job].attempts
  <2>1. CASE v = w
    BY <1>1, <1>2, <2>1
  <2>2. CASE v # w
    <3>1. /\ claim[v].job \in Job
          /\ claim[v].token <= job[claim[v].job].token
          /\ claim[v].token \in Nat
          /\ pc[v] # "idle"
      BY <1>2, <1>6, <2>2, FaultTypes DEF Fenced
    <3>2. claim[v].job # j
      BY <1>1, <1>2, <1>6, <2>2, <3>1, FaultTypes DEF Holds, Owns
    <3>3. QED
      BY <1>1, <1>2, <1>6, <2>2, <3>1, <3>2 DEF Counted, Holds, Owns
  <2>3. QED
    BY <2>1, <2>2
<1>7. ASSUME NEW k \in Job
      PROVE  /\ job'[k].attempts <= MaxAttempts + faults'
             /\ job'[k].status \in {"ABSENT", "QUEUED"} => job'[k].attempts < MaxAttempts
             /\ job'[k].status = "CLAIMED" /\ ~Attended(k)'
                  => job'[k].attempts < MaxAttempts + faults'
  <2>1. CASE k = j
    BY <1>1, <1>2, <1>3, <1>4, <2>1, FaultTypes
  <2>2. CASE k # j
    BY <1>1, <1>2, <1>5, <2>2 DEF Counted
  <2>3. QED
    BY <2>1, <2>2
<1>8. QED
  BY <1>6, <1>7 DEF Counted

LEMMA HeartbeatCounted ==
  ASSUME TypeOK, Counted, NEW w \in Worker, Heartbeat(w)
  PROVE  Counted'
<1> DEFINE j == claim[w].job
<1>1. /\ j \in Job
      /\ pc[w] # "idle"
      /\ job[j] \in Row
      /\ UNCHANGED <<pc, claim, faults>>
  BY DEF TypeOK, LoopTypeOK, Heartbeat
<1>2. CASE HoldsLease(w) /\ job' = [job EXCEPT ![j] = RenewedRow(@)]
  <2>1. /\ \A k \in Job : k # j => job'[k] = job[k]
        /\ job'[j].status = job[j].status
        /\ job'[j].owner = job[j].owner
        /\ job'[j].token = job[j].token
        /\ job'[j].attempts = job[j].attempts
        /\ job'[j].lease > 0
    BY <1>1, <1>2, RowFields, TermAssumption DEF TypeOK, LoopTypeOK
  <2>2. ASSUME NEW v \in Worker, pc[v] # "idle"
        PROVE  /\ Holds(v)' <=> Holds(v)
               /\ HoldsLease(v) => HoldsLease(v)'
               /\ job'[claim[v].job].attempts = job[claim[v].job].attempts
    <3>1. claim[v].job \in Job
      BY <2>2, FaultTypes
    <3>2. QED
      BY <1>1, <2>1, <3>1 DEF Holds, HoldsLease, Leased, Owns
  <2>3. \A k \in Job : Attended(k) => Attended(k)'
    BY <1>1, <2>2 DEF Attended
  <2>4. \A k \in Job : job'[k].status = job[k].status /\ job'[k].attempts = job[k].attempts
    BY <2>1
  <2>5. QED
    BY <1>1, <2>2, <2>3, <2>4 DEF Counted
<1>3. CASE UNCHANGED job
  BY <1>1, <1>3, SameCounted
<1>4. QED
  BY <1>2, <1>3 DEF Heartbeat

LEMMA EndClaimCounted ==
  ASSUME TypeOK, Counted, NEW w \in Worker, pc[w] # "idle", NEW row, EndClaim(w, row),
         row.attempts = job[claim[w].job].attempts,
         row.status # "CLAIMED",
         Holds(w) /\ row.status \in {"ABSENT", "QUEUED"} => row.attempts < MaxAttempts
  PROVE  Counted'
<1> DEFINE j == claim[w].job
<1>1. /\ j \in Job
      /\ Leave(w)
      /\ pc'[w] = "idle"
      /\ \A v \in Worker : v # w => pc'[v] = pc[v] /\ claim'[v] = claim[v]
      /\ faults' = faults
  BY DEF TypeOK, LoopTypeOK, EndClaim, Leave, Goto
<1>2. CASE ~Holds(w)
  BY <1>1, <1>2, LeaveCounted DEF EndClaim, Holds, HoldsLease, Leased
<1>3. CASE Holds(w)
  <2>1. /\ job'[j] = row
        /\ \A k \in Job : k # j => job'[k] = job[k]
    BY <1>1, <1>3 DEF TypeOK, LoopTypeOK, EndClaim
  <2>2. \A k \in Job : k # j /\ Attended(k) => Attended(k)'
    BY <1>1, <2>1 DEF Attended, HoldsLease, Leased, Owns
  <2>3. ASSUME NEW v \in Worker, pc'[v] # "idle", Holds(v)'
        PROVE  claim'[v].attempts = job'[claim'[v].job].attempts
    <3>1. v # w /\ pc[v] # "idle" /\ claim[v].job \in Job
      BY <1>1, <2>3, FaultTypes
    <3>2. claim[v].job # j
      BY <1>1, <2>1, <2>3, <3>1 DEF Holds, Owns
    <3>3. QED
      BY <1>1, <2>1, <2>3, <3>1, <3>2 DEF Counted, Holds, Owns
  <2>4. ASSUME NEW k \in Job
        PROVE  /\ job'[k].attempts <= MaxAttempts + faults'
               /\ job'[k].status \in {"ABSENT", "QUEUED"} => job'[k].attempts < MaxAttempts
               /\ job'[k].status = "CLAIMED" /\ ~Attended(k)'
                    => job'[k].attempts < MaxAttempts + faults'
    <3>1. CASE k = j
      BY <1>1, <1>3, <2>1, <3>1 DEF Counted
    <3>2. CASE k # j
      BY <1>1, <2>1, <2>2, <3>2 DEF Counted
    <3>3. QED
      BY <3>1, <3>2
  <2>5. QED
    BY <2>3, <2>4 DEF Counted
<1>4. QED
  BY <1>2, <1>3

LEMMA EndRunOnceCounted ==
  ASSUME TypeOK, Counted, NEW w \in Worker, EndRunOnce(w)
  PROVE  Counted'
<1>1. pc[w] # "idle" /\ job[claim[w].job] \in Row
  BY DEF TypeOK, LoopTypeOK, EndRunOnce, FinishJob, RequeueJob, FailJob
<1>2. CASE FinishJob(w)
  BY <1>1, <1>2, RowFields, EndClaimCounted DEF FinishJob, Ended
<1>3. CASE FailJob(w)
  BY <1>1, <1>3, RowFields, EndClaimCounted DEF FailJob, Ended
<1>4. CASE RequeueJob(w)
  <2>1. Backoff[claim[w].attempts] \in Nat
    BY <1>1, <1>4, ClaimTypes, BackoffAssumption, AttemptsAssumption DEF RequeueJob, TypeOK, Steps
  <2>2. Holds(w) => job[claim[w].job].attempts < MaxAttempts
    BY <1>1, <1>4 DEF RequeueJob, Counted
  <2>3. QED
    BY <1>1, <1>4, <2>1, <2>2, RowFields, EndClaimCounted DEF RequeueJob
<1>5. QED
  BY <1>2, <1>3, <1>4 DEF EndRunOnce

(* Time ends leases; the lease of a worker at work only at the cost of a   *)
(* fault.                                                                  *)
LEMMA TickCounted ==
  ASSUME TypeOK, Counted, Tick
  PROVE  Counted'
<1>1. ASSUME NEW j \in Job
      PROVE  /\ job'[j].status = job[j].status
             /\ job'[j].owner = job[j].owner
             /\ job'[j].token = job[j].token
             /\ job'[j].attempts = job[j].attempts
             /\ job[j].lease > 1 => job'[j].lease > 0
  <2>1. job[j] \in Row /\ job'[j] = AgedRow(job[j]) /\ job[j].lease \in Nat
    BY FaultTypes DEF TypeOK, LoopTypeOK, Tick
  <2>2. QED
    BY <2>1, RowFields DEF Down
<1>2. UNCHANGED <<pc, claim>> /\ faults' >= faults /\ faults' \in Nat
  BY FaultTypes DEF Tick, Fault
<1>3. ASSUME NEW j \in Job, Attended(j), ~Attended(j)' PROVE faults' = faults + 1
  <2>1. PICK w \in Worker : pc[w] # "idle" /\ claim[w].job = j /\ HoldsLease(w)
    BY <1>3 DEF Attended
  <2>2. ~(job'[j].lease > 0)
    BY <1>1, <1>2, <1>3, <2>1 DEF Attended, HoldsLease, Leased, Owns
  <2>3. job[j].lease = 1
    BY <1>1, <2>1, <2>2, FaultTypes DEF HoldsLease, Leased
  <2>4. Expiring(w)
    BY <2>1, <2>3 DEF Expiring
  <2>5. QED
    BY <2>4 DEF Tick, Fault
<1>4. ASSUME NEW v \in Worker, pc'[v] # "idle", Holds(v)'
      PROVE  claim'[v].attempts = job'[claim'[v].job].attempts
  <2>1. claim[v].job \in Job /\ pc[v] # "idle"
    BY <1>2, <1>4, FaultTypes
  <2>2. QED
    BY <1>1, <1>2, <1>4, <2>1 DEF Counted, Holds, Owns
<1>5. ASSUME NEW j \in Job
      PROVE  /\ job'[j].attempts <= MaxAttempts + faults'
             /\ job'[j].status \in {"ABSENT", "QUEUED"} => job'[j].attempts < MaxAttempts
             /\ job'[j].status = "CLAIMED" /\ ~Attended(j)'
                  => job'[j].attempts < MaxAttempts + faults'
  <2>1. /\ job[j].attempts \in Nat
        /\ MaxAttempts \in Nat
        /\ faults \in Nat
    BY FaultTypes
  <2>2. CASE Attended(j) /\ ~Attended(j)'
    BY <1>1, <1>3, <2>1, <2>2 DEF Counted
  <2>3. CASE ~Attended(j) \/ Attended(j)'
    BY <1>1, <1>2, <2>1, <2>3 DEF Counted
  <2>4. QED
    BY <2>2, <2>3
<1>6. QED
  BY <1>4, <1>5 DEF Counted

LEMMA EnqueueCounted ==
  ASSUME TypeOK, Counted, NEW j \in Job, EnqueueJob(j)
  PROVE  Counted'
<1>1. /\ job[j].status = "ABSENT"
      /\ job'[j].status = "QUEUED"
      /\ job'[j].attempts = 0
      /\ \A k \in Job : k # j => job'[k] = job[k]
      /\ UNCHANGED <<pc, claim, faults>>
  BY NewRowFields DEF TypeOK, LoopTypeOK, EnqueueJob
<1>2. \A k \in Job : k # j /\ Attended(k) => Attended(k)'
  BY <1>1 DEF Attended, HoldsLease, Leased, Owns
<1>3. ASSUME NEW v \in Worker, pc'[v] # "idle", Holds(v)'
      PROVE  claim'[v].attempts = job'[claim'[v].job].attempts
  <2>1. claim[v].job \in Job /\ pc[v] # "idle"
    BY <1>1, <1>3, FaultTypes
  <2>2. claim[v].job # j
    BY <1>1, <1>3 DEF Holds, Owns
  <2>3. QED
    BY <1>1, <1>3, <2>1, <2>2 DEF Counted, Holds, Owns
<1>4. QED
  BY <1>1, <1>2, <1>3, FaultTypes DEF Counted

LEMMA StepCounted == TypeOK /\ Fenced /\ Counted /\ [Next]_vars => Counted'
<1> SUFFICES ASSUME TypeOK, Fenced, Counted, [Next]_vars PROVE Counted'
  OBVIOUS
<1>1. ASSUME NEW c \in Client, ClientStep(c) PROVE Counted'
  <2>1. CASE SaveRun(c) \/ EndRequest(c) \/ \E r \in Run : BeginRequest(c, r)
    BY <2>1, SameCounted DEF SaveRun, EndRequest, CloseRequest, BeginRequest, loopVars
  <2>2. CASE \E j \in Job : RequestJob(c, j)
    BY <2>2, EnqueueCounted DEF RequestJob
  <2>3. QED
    BY <1>1, <2>1, <2>2 DEF ClientStep
<1>2. ASSUME NEW w \in Worker, WorkerStep(w) PROVE Counted'
  <2>1. CASE ClaimStep(w)
    BY <2>1, ClaimCounted DEF ClaimStep
  <2>2. CASE HeartbeatStep(w)
    BY <2>2, HeartbeatCounted DEF HeartbeatStep
  <2>3. CASE LoadRun(w)
    BY <2>3, GotoCounted DEF LoadRun
  <2>4. CASE Checkpoint(w)
    BY <2>4, SameCounted DEF Checkpoint, loopVars
  <2>5. CASE CheckpointLeaseLost(w)
    BY <2>5, LeaveCounted DEF CheckpointLeaseLost, Abandon
  <2>6. CASE CheckpointConflict(w)
    BY <2>6, GotoCounted DEF CheckpointConflict, Raise
  <2>7. CASE ErrorStep(w)
    BY <2>7, GotoCounted DEF ErrorStep, StoreError, InProcess
  <2>8. CASE ReturnStep(w)
    <3>1. CASE lost[w] /\ Abandon(w)
      <4>1. pc[w] # "idle" /\ ~HoldsLease(w)
        BY <2>8, <3>1 DEF ReturnStep, Fenced
      <4>2. QED
        BY <3>1, <4>1, LeaveCounted DEF Abandon
    <3>2. CASE ~lost[w] /\ Goto(w, "finishing") /\ UNCHANGED <<job, claim, lost, faults, errors>>
      BY <2>8, <3>2, GotoCounted DEF ReturnStep
    <3>3. QED
      BY <2>8, <3>1, <3>2 DEF ReturnStep, Return
  <2>9. CASE EndStep(w)
    BY <2>9, EndRunOnceCounted DEF EndStep
  <2>10. CASE CrashStep(w)
    BY <2>10, CrashCounted DEF CrashStep
  <2>11. QED
    BY <1>2, <2>1, <2>2, <2>3, <2>4, <2>5, <2>6, <2>7, <2>8, <2>9, <2>10 DEF WorkerStep
<1>3. CASE TickStep
  BY <1>3, TickCounted DEF TickStep
<1>4. CASE UNCHANGED vars
  BY <1>4, SameCounted DEF vars
<1>5. QED
  BY <1>1, <1>2, <1>3, <1>4 DEF Next

(* No job is claimed more often than MaxAttempts plus the crashes and late *)
(* heartbeats there were: exceptions alone never exceed the limit of       *)
(* worker.py, and a job is not recovered twice for one fault.              *)
THEOREM StoreBoundsRecovery == Spec => []RecoveryBounded
<1>1. Counted => RecoveryBounded
  BY DEF Counted, RecoveryBounded
<1>2. QED
  BY <1>1, InitTypes, StepTypes, InitFenced, StepFenced, InitCounted, StepCounted, PTL DEF Spec
==============================================================================
