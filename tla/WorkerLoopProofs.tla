-------------------------- MODULE WorkerLoopProofs ---------------------------
(***************************************************************************)
(* What every step of run_once preserves, for any set of places            *)
(* engine.process goes through: the lemmas the modules that extend         *)
(* WorkerLoop share.                                                       *)
(***************************************************************************)
EXTENDS WorkerLoop, TLAPS

(* Every transaction of the job table leaves a well-formed row.            *)
LEMMA RowTypes ==
  /\ AbsentRow \in Row
  /\ EnqueuedRow \in Row
  /\ \A row \in Row, w \in Worker : ClaimedRow(row, w) \in Row
  /\ \A row \in Row : RenewedRow(row) \in Row
  /\ \A row \in Row, s \in Ended : FinishedRow(row, s) \in Row
  /\ \A row \in Row, n \in Nat : RequeuedRow(row, n) \in Row
  /\ \A row \in Row : AgedRow(row) \in Row
<1>1. AbsentRow \in Row
  BY DEF Row, JobStatus, AbsentRow
<1>2. EnqueuedRow \in Row
  BY DEF Row, JobStatus, AbsentRow, EnqueuedRow
<1>3. ASSUME NEW row \in Row, NEW w \in Worker PROVE ClaimedRow(row, w) \in Row
  <2>1. /\ row.token + 1 \in Nat
        /\ row.attempts + 1 \in Nat
        /\ LeaseTerm \in Nat
    BY TermAssumption DEF Row
  <2>2. QED
    BY <2>1 DEF Row, JobStatus, ClaimedRow
<1>4. ASSUME NEW row \in Row PROVE RenewedRow(row) \in Row
  BY TermAssumption DEF Row, RenewedRow
<1>5. ASSUME NEW row \in Row, NEW s \in Ended PROVE FinishedRow(row, s) \in Row
  BY DEF Row, JobStatus, FinishedRow
<1>6. ASSUME NEW row \in Row, NEW n \in Nat PROVE RequeuedRow(row, n) \in Row
  BY DEF Row, JobStatus, RequeuedRow
<1>7. ASSUME NEW row \in Row PROVE AgedRow(row) \in Row
  <2>1. \A m \in Nat : Down(m) \in Nat
    BY DEF Down
  <2>2. QED
    BY <2>1 DEF Row, AgedRow
<1>8. QED
  BY <1>1, <1>2, <1>3, <1>4, <1>5, <1>6, <1>7

(* The empty job table and idle workers are well-formed.                   *)
LEMMA LoopInitTypes ==
  ASSUME NEW steps, LoopInit
  PROVE  LoopTypeOK(steps)
  BY RowTypes, FaultAssumption
  DEF LoopInit, LoopTypeOK, AbsentRow, Row, JobStatus, NoClaim, Claim

(* A tick, a heartbeat, a claim and the end of a claim change the job table*)
(* and the loop's variables within their types.                            *)
LEMMA GotoTypes ==
  ASSUME NEW steps, LoopTypeOK(steps), NEW w \in Worker, NEW s \in steps \union {"finishing", "raised"},
         pc[w] # "idle", Goto(w, s), UNCHANGED claim
  PROVE  /\ pc' \in [Worker -> steps \union {"idle", "finishing", "raised"}]
         /\ \A v \in Worker : pc'[v] # "idle" => claim'[v].job \in Job /\ claim'[v].attempts > 0
  BY DEF LoopTypeOK, Goto

LEMMA LeaveTypes ==
  ASSUME NEW steps, LoopTypeOK(steps), NEW w \in Worker, Leave(w)
  PROVE  /\ pc' \in [Worker -> steps \union {"idle", "finishing", "raised"}]
         /\ claim' \in [Worker -> Claim]
         /\ \A v \in Worker : pc'[v] # "idle" => claim'[v].job \in Job /\ claim'[v].attempts > 0
         /\ lost' \in [Worker -> BOOLEAN]
<1>1. NoClaim \in Claim
  BY DEF NoClaim, Claim
<1>2. QED
  BY <1>1 DEF LoopTypeOK, Leave, Goto

(* An UPDATE of one row.                                                   *)
LEMMA UpdateTypes ==
  ASSUME job \in [Job -> Row], NEW j, NEW row, j \in Job => row \in Row
  PROVE  [job EXCEPT ![j] = row] \in [Job -> Row]
  OBVIOUS

(* What a worker holds while it is not idle.                               *)
LEMMA ClaimTypes ==
  ASSUME NEW steps, LoopTypeOK(steps), NEW w \in Worker, pc[w] # "idle"
  PROVE  /\ claim[w].job \in Job
         /\ claim[w].token \in Nat
         /\ claim[w].attempts \in Nat \ {0}
         /\ job[claim[w].job] \in Row
  BY DEF LoopTypeOK, Claim

LEMMA ClaimJobTypes ==
  ASSUME NEW steps, "claimed" \in steps, LoopTypeOK(steps),
         NEW w \in Worker, NEW j \in Job, ClaimJob(w, j)
  PROVE  LoopTypeOK(steps)'
<1>1. job' \in [Job -> Row]
  BY RowTypes, UpdateTypes DEF LoopTypeOK, ClaimJob
<1>2. [job |-> j, token |-> job[j].token + 1, attempts |-> job[j].attempts + 1] \in Claim
  BY DEF LoopTypeOK, Row, Claim
<1>3. job[j].attempts + 1 > 0
  BY DEF LoopTypeOK, Row
<1>4. QED
  BY <1>1, <1>2, <1>3 DEF LoopTypeOK, ClaimJob, Goto

LEMMA EndClaimTypes ==
  ASSUME NEW steps, LoopTypeOK(steps), NEW w \in Worker, NEW row, EndClaim(w, row),
         claim[w].job \in Job => row \in Row
  PROVE  LoopTypeOK(steps)'
<1>1. job' \in [Job -> Row]
  BY UpdateTypes DEF LoopTypeOK, EndClaim
<1>2. QED
  BY <1>1, LeaveTypes DEF LoopTypeOK, EndClaim

(* The steps of run_once that end a claim or leave it alone.               *)
LEMMA WorkerLoopTypes ==
  ASSUME NEW steps, LoopTypeOK(steps), NEW w \in Worker, pc[w] # "idle",
         \/ Heartbeat(w) \/ Abandon(w) \/ Return(w) \/ Raise(w)
         \/ StoreError(w) \/ EndRunOnce(w) \/ Crash(w)
  PROVE  LoopTypeOK(steps)'
<1>1. CASE Heartbeat(w)
  <2>1. job' \in [Job -> Row]
    <3>1. claim[w].job \in Job /\ RenewedRow(job[claim[w].job]) \in Row
      BY RowTypes, ClaimTypes
    <3>2. QED
      BY <1>1, <3>1 DEF LoopTypeOK, Heartbeat
  <2>2. QED
    BY <1>1, <2>1 DEF LoopTypeOK, Heartbeat
<1>2. CASE Abandon(w)
  BY <1>2, LeaveTypes DEF LoopTypeOK, Abandon
<1>3. CASE Return(w)
  <2>1. CASE Abandon(w)
    BY <2>1, LeaveTypes DEF LoopTypeOK, Abandon
  <2>2. CASE Goto(w, "finishing") /\ UNCHANGED <<job, claim, lost, faults, errors>>
    BY <2>2, GotoTypes DEF LoopTypeOK
  <2>3. QED
    BY <1>3, <2>1, <2>2 DEF Return
<1>4. CASE Raise(w)
  BY <1>4, GotoTypes DEF LoopTypeOK, Raise
<1>5. CASE StoreError(w)
  <2>1. errors' \in 0..MaxErrors
    BY <1>5, FaultAssumption DEF LoopTypeOK, StoreError
  <2>2. QED
    BY <1>5, <2>1, GotoTypes DEF LoopTypeOK, StoreError
<1>6. CASE EndRunOnce(w)
  <2>1. job[claim[w].job] \in Row
    BY ClaimTypes
  <2>2. CASE FinishJob(w)
    BY <2>1, <2>2, RowTypes, EndClaimTypes DEF FinishJob, Ended
  <2>3. CASE FailJob(w)
    BY <2>1, <2>3, RowTypes, EndClaimTypes DEF FailJob, Ended
  <2>4. CASE RequeueJob(w)
    <3>1. Backoff[claim[w].attempts] \in Nat
      BY <2>4, ClaimTypes, BackoffAssumption, AttemptsAssumption DEF RequeueJob
    <3>2. RequeuedRow(job[claim[w].job], Backoff[claim[w].attempts]) \in Row
      BY <2>1, <3>1, RowTypes
    <3>3. QED
      BY <2>4, <3>2, EndClaimTypes DEF RequeueJob
  <2>5. QED
    BY <1>6, <2>2, <2>3, <2>4 DEF EndRunOnce
<1>7. CASE Crash(w)
  <2>1. faults' \in 0..MaxFaults
    BY <1>7, FaultAssumption DEF LoopTypeOK, Crash, Fault
  <2>2. QED
    BY <1>7, <2>1, LeaveTypes DEF LoopTypeOK, Crash
<1>8. QED
  BY <1>1, <1>2, <1>3, <1>4, <1>5, <1>6, <1>7

LEMMA TickTypes ==
  ASSUME NEW steps, LoopTypeOK(steps), Tick
  PROVE  LoopTypeOK(steps)'
<1>1. job' \in [Job -> Row]
  BY RowTypes DEF LoopTypeOK, Tick
<1>2. faults' \in 0..MaxFaults
  BY FaultAssumption DEF LoopTypeOK, Tick, Fault
<1>3. QED
  BY <1>1, <1>2 DEF LoopTypeOK, Tick

LEMMA EnqueueTypes ==
  ASSUME NEW steps, LoopTypeOK(steps), NEW j \in Job, EnqueueJob(j)
  PROVE  LoopTypeOK(steps)'
<1>1. job' \in [Job -> Row]
  BY RowTypes, UpdateTypes DEF LoopTypeOK, EnqueueJob
<1>2. QED
  BY <1>1 DEF LoopTypeOK, EnqueueJob
=============================================================================
