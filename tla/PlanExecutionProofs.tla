------------------------ MODULE PlanExecutionProofs ------------------------
(***************************************************************************)
(* What executing a plan promises, for every plan, every number of workers,*)
(* retries and crashes: effects happen once, after those they depend on,   *)
(* what the run builds on is on record, a completed run has a plan that    *)
(* lifts the fault, and a rolled back one has left nothing in force.       *)
(*                                                                         *)
(* The argument is about answers.  A worker knows a result only when the   *)
(* tool boundary has given that answer (Sound), a change has happened      *)
(* exactly when it has been answered (Counts), and a request is only ever  *)
(* sent when what it depends on has been answered (Based) -- which stays   *)
(* true however late the request arrives, because answers are never        *)
(* withdrawn.  A worker asks for a compensation only when every step has   *)
(* been answered; from then on no request for a step changes anything, and *)
(* what has been undone stays undone.                                      *)
(***************************************************************************)
EXTENDS PlanExecution, TLAPS

Knows(record) == \A k \in Key : record.results[k] # "none" => answers[k] # "none"
Sound == Knows(run) /\ \A w \in Worker : Knows(copy[w])

Counts ==
  \A k \in Key : effects[k] = IF ChangesLab(k) /\ answers[k] # "none" THEN 1 ELSE 0

Based(k) ==
  /\ k.call = "act" => \A t \in plan.depends[k.step] : answers[Act(t)] # "none"
  /\ k.call = "undo" => answers[Act(k.step)] # "none"

LateBased == \A k \in late : Based(k)

LabInv == Sound /\ Counts /\ LateBased

LEMMA Keys ==
  \A s \in Step : Act(s) \in Key /\ Check(s) \in Key /\ Undo(s) \in Key /\ Confirm(s) \in Key
  BY DEF Key, Act, Check, Undo, Confirm

(* The steps of an approved plan are steps. *)
LEMMA PlanSteps == ASSUME TypeOK PROVE Steps \subseteq Step
<1>1. plan.list \in Seq(Step)
  BY PlanAssumption DEF TypeOK
<1>2. \A i \in DOMAIN plan.list : plan.list[i] \in Step
  BY <1>1
<1>3. QED
  BY <1>2 DEF Steps, ToSet

LEMMA ApprovedType == ApprovedRun \in Run
  BY BeginsAssumption DEF ApprovedRun, Run, Error, Answer, Unanswered

LEMMA InitTypes == Init => TypeOK
<1>1. LabInit => LabTypeOK
  BY DEF LabInit, LabTypeOK, Answer, Unanswered
<1>2. QED
  BY <1>1, ApprovedType DEF Init, TypeOK, Place, Verdict

(* What the lab does with a request keeps its types. *)
LEMMA ServeTypes ==
  ASSUME LabTypeOK, NEW k \in Key, Serve(k)
  PROVE  /\ inForce' \subseteq Step
         /\ answers' \in [Key -> Answer]
         /\ effects' \in [Key -> Nat]
         /\ AnswerTo(k) \in Verdict \intersect Answer
<1>1. AnswerTo(k) \in {"good", "bad"}
  BY DEF LabTypeOK, AnswerTo, Reading, Answer
<1>2. k.step \in Step
  BY DEF Key
<1>3. Changed(k) \subseteq Step
  BY <1>2 DEF Changed, LabTypeOK
<1>4. QED
  BY <1>1, <1>3 DEF Serve, CarryOut, LabTypeOK, Answer, Verdict

LEMMA SaveTypes ==
  ASSUME TypeOK, NEW w \in Worker, NEW record \in Run, Save(w, record)
  PROVE  run' \in Run /\ copy' \in [Worker -> Run] /\ current' \subseteq Worker
  BY DEF TypeOK, Save

LEMMA LeaveTypes ==
  ASSUME TypeOK, NEW w \in Worker, Leave(w)
  PROVE  /\ copy' \in [Worker -> Run]
         /\ pc' \in [Worker -> Place]
         /\ at' \in [Worker -> Nat]
         /\ ok' \in [Worker -> BOOLEAN]
         /\ heard' \in [Worker -> Verdict]
  BY ApprovedType DEF TypeOK, Leave, Place, Verdict

LEMMA SaveAndLeaveTypes ==
  ASSUME TypeOK, NEW w \in Worker, NEW record \in Run, SaveAndLeave(w, record), UNCHANGED runFrame
  PROVE  TypeOK'
<1>1. Leave(w) /\ run' = record /\ current' = {}
  BY DEF SaveAndLeave
<1>2. LabTypeOK' /\ plan' \in Plan
  BY DEF TypeOK, LabTypeOK, runFrame, labVars
<1>3. QED
  BY <1>1, <1>2, LeaveTypes DEF TypeOK

LEMMA GotoTypes ==
  ASSUME TypeOK, NEW w \in Worker, NEW step \in Place, Goto(w, step)
  PROVE  pc' \in [Worker -> Place]
  BY DEF TypeOK, Goto

LEMMA LoopTypes ==
  ASSUME TypeOK, NEW w \in Worker, NEW step \in Place, Loop(w, step)
  PROVE  /\ pc' \in [Worker -> Place]
         /\ at' \in [Worker -> Nat]
         /\ ok' \in [Worker -> BOOLEAN]
  BY GotoTypes DEF TypeOK, Loop

LEMMA CallTypes ==
  ASSUME TypeOK, NEW w \in Worker, NEW k \in Key, NEW next \in Place, Call(w, k, next)
  PROVE  TypeOK'
<1>1. PICK v \in Verdict : /\ Outcome(w, k, v)
                           /\ Remember(w, k, v)
                           /\ heard' = [heard EXCEPT ![w] = v]
  BY DEF Call
<1>2. Goto(w, next) /\ UNCHANGED <<cures, plan, run, current, at, ok>>
  BY DEF Call
<1>3. copy' \in [Worker -> Run]
  <2>1. copy[w] \in Run /\ copy[w].results \in [Key -> Answer]
    BY DEF TypeOK, Run
  <2>2. [copy[w].results EXCEPT ![k] = IF v \in Answer THEN v ELSE @] \in [Key -> Answer]
    BY <2>1
  <2>3. [copy[w] EXCEPT !.results[k] = IF v \in Answer THEN v ELSE @] \in Run
    BY <2>1, <2>2 DEF Run
  <2>4. QED
    BY <1>1, <2>3 DEF Remember, TypeOK
<1>4. LabTypeOK'
  <2>1. CASE UNCHANGED labVars
    BY <1>2, <2>1 DEF TypeOK, LabTypeOK, labVars
  <2>2. CASE Serve(k) /\ UNCHANGED late
    BY <1>2, <2>2, ServeTypes DEF TypeOK, LabTypeOK
  <2>3. CASE GiveUp(k)
    BY <1>2, <2>3 DEF TypeOK, LabTypeOK, GiveUp
  <2>4. QED
    BY <1>1, <2>1, <2>2, <2>3 DEF Outcome
<1>5. pc' \in [Worker -> Place] /\ heard' \in [Worker -> Verdict]
  BY <1>1, <1>2, GotoTypes DEF TypeOK
<1>6. QED
  BY <1>2, <1>3, <1>4, <1>5 DEF TypeOK

LEMMA NextTurnTypes ==
  ASSUME TypeOK, NEW w \in Worker, NEW step \in Place, NEW good \in BOOLEAN,
         NextTurn(w, step, good)
  PROVE  TypeOK'
<1>1. copy[w] \in Run /\ Save(w, copy[w]) /\ Goto(w, step) /\ UNCHANGED runFrame
  BY DEF TypeOK, NextTurn
<1>2. LabTypeOK' /\ plan' \in Plan
  BY <1>1 DEF TypeOK, LabTypeOK, runFrame, labVars
<1>3. at' \in [Worker -> Nat] /\ ok' \in [Worker -> BOOLEAN] /\ heard' \in [Worker -> Verdict]
  BY DEF TypeOK, NextTurn
<1>4. QED
  BY <1>1, <1>2, <1>3, SaveTypes, GotoTypes DEF TypeOK

(* What an action changes of a run's record stays a record. *)
LEMMA RecordTypes ==
  ASSUME NEW record \in Run
  PROVE  /\ \A s \in {"QUEUED", "RUNNING", "FAILED", "HANDED_OFF", "COMPLETED"} :
              [record EXCEPT !.status = s] \in Run
         /\ \A n \in {"execute", "verify", "finalize"} : [record EXCEPT !.node = n] \in Run
         /\ \A e \in Error : [record EXCEPT !.error = e] \in Run
         /\ \A e \in Error : [record EXCEPT !.status = "FAILED", !.error = e] \in Run
  BY DEF Run

LEMMA FailureCodeType == \A w \in Worker : FailureCode(w) \in Error
  BY DEF FailureCode, Error

LEMMA StepTypes == TypeOK /\ [Next]_vars => TypeOK'
<1> SUFFICES ASSUME TypeOK, [Next]_vars PROVE TypeOK'
  OBVIOUS
<1> USE DEF runFrame
<1>1. CASE UNCHANGED vars
  BY <1>1 DEF vars, TypeOK, LabTypeOK, labVars, workerVars
<1>2. CASE Retry
  <2>1. run \in Run
    BY DEF TypeOK
  <2>2. [run EXCEPT !.status = "QUEUED", !.error = "none"] \in Run
    BY <2>1 DEF Run, Error
  <2>3. QED
    BY <1>2, <2>2 DEF Retry, TypeOK, LabTypeOK, labVars, workerVars
<1>3. CASE LateArrival
  <2>1. PICK k \in Key : Arrive(k)
    BY <1>3 DEF LateArrival
  <2>2. Serve(k) /\ late' \subseteq Key
    BY <2>1 DEF Arrive, TypeOK, LabTypeOK
  <2>3. QED
    BY <1>3, <2>2, ServeTypes DEF LateArrival, TypeOK, LabTypeOK, workerVars
<1>4. ASSUME NEW w \in Worker, WorkerStep(w) PROVE TypeOK'
  <2> copy[w] \in Run /\ run \in Run
    BY DEF TypeOK
  <2>0. ASSUME UNCHANGED runFrame PROVE LabTypeOK' /\ plan' \in Plan
    BY <2>0 DEF TypeOK, LabTypeOK, labVars
  <2>1. CASE Begin(w)
    <3>1. run' \in Run
      <4>1. run.attempt + 1 \in 0..MaxBegins
        BY <2>1, BeginsAssumption DEF Begin, Run
      <4>2. [run EXCEPT !.status = "RUNNING", !.attempt = run.attempt + 1] \in Run
        BY <4>1 DEF Run
      <4>3. QED
        BY <2>1, <4>2 DEF Begin
    <3>2. run.node \in Place
      BY DEF Run, Place
    <3>3. QED
      BY <2>0, <2>1, <3>1, <3>2, LoopTypes DEF Begin, TypeOK
  <2>2. CASE Crash(w)
    BY <2>0, <2>2, LeaveTypes DEF Crash, TypeOK
  <2>3. CASE NodeFails(w)
    BY <2>3, SaveAndLeaveTypes, RecordTypes DEF NodeFails, Error
  <2>4. ASSUME NEW s \in Step, CallAct(w, s) PROVE TypeOK'
    BY <2>4, CallTypes, Keys DEF CallAct, Place
  <2>5. CASE RecordAct(w)
    BY <2>0, <2>5, SaveTypes, GotoTypes DEF RecordAct, TypeOK, Place
  <2>6. CASE ActUnknown(w)
    BY <2>6, SaveAndLeaveTypes, RecordTypes DEF ActUnknown
  <2>7. CASE ActFailed(w)
    BY <2>7, SaveAndLeaveTypes, RecordTypes DEF ActFailed, Error
  <2>8. CASE PreconditionChanged(w)
    BY <2>8, SaveAndLeaveTypes, RecordTypes DEF PreconditionChanged
  <2>9. CASE ExecuteEnds(w)
    BY <2>0, <2>9, SaveTypes, LoopTypes, RecordTypes DEF ExecuteEnds, TypeOK, Place
  <2>10. ASSUME NEW s \in Step, CallCheck(w, s) PROVE TypeOK'
    BY <2>10, CallTypes, Keys DEF CallCheck, Place
  <2>11. CASE RecordReading(w)
    BY <2>11, NextTurnTypes DEF RecordReading, Succeeded, Place
  <2>12. CASE VerifyPasses(w)
    BY <2>0, <2>12, SaveTypes, LoopTypes, RecordTypes DEF VerifyPasses, TypeOK, Place
  <2>13. CASE VerifyFails(w)
    BY <2>0, <2>13, LoopTypes, RecordTypes DEF VerifyFails, TypeOK, Place
  <2>14. ASSUME NEW s \in Step, CallUndo(w, s) PROVE TypeOK'
    BY <2>14, CallTypes, Keys DEF CallUndo, Place
  <2>15. CASE RecordUndo(w)
    BY <2>0, <2>15, SaveTypes, GotoTypes DEF RecordUndo, TypeOK, Place
  <2>16. CASE UndoFailed(w)
    BY <2>16, NextTurnTypes DEF UndoFailed, Place
  <2>17. ASSUME NEW s \in Step, CallConfirm(w, s) PROVE TypeOK'
    BY <2>17, CallTypes, Keys DEF CallConfirm, Place
  <2>18. CASE RecordConfirmation(w)
    BY <2>18, NextTurnTypes DEF RecordConfirmation, Succeeded, Place
  <2>19. CASE CompensationEnds(w)
    BY <2>19, SaveAndLeaveTypes, RecordTypes, FailureCodeType DEF CompensationEnds
  <2>20. CASE Finalize(w)
    BY <2>20, SaveAndLeaveTypes, RecordTypes DEF Finalize
  <2>21. QED
    BY <1>4, <2>1, <2>2, <2>3, <2>4, <2>5, <2>6, <2>7, <2>8, <2>9, <2>10, <2>11, <2>12,
       <2>13, <2>14, <2>15, <2>16, <2>17, <2>18, <2>19, <2>20, PlanSteps DEF WorkerStep
<1>5. QED
  BY <1>1, <1>2, <1>3, <1>4 DEF Next

(* The plan, the run, its copies and the lab keep their types, whatever    *)
(* plan was approved and however many workers take the run up.             *)
THEOREM PlanTypes == Spec => []TypeOK
  BY InitTypes, StepTypes, PTL DEF Spec

-----------------------------------------------------------------------------
(* Answers are never withdrawn, and a request served now is answered.      *)
LEMMA ServeAnswers ==
  ASSUME TypeOK, NEW k \in Key, Serve(k)
  PROVE  /\ \A j \in Key : answers[j] # "none" => answers'[j] # "none"
         /\ answers'[k] # "none"
         /\ Counts => Counts'
<1>1. LabTypeOK
  BY DEF TypeOK
<1>2. AnswerTo(k) # "none"
  BY DEF AnswerTo, Reading
<1>3. CASE answers[k] # "none"
  BY <1>3 DEF Serve, Counts
<1>4. CASE answers[k] = "none"
  <2>1. answers' = [answers EXCEPT ![k] = AnswerTo(k)] /\ CarryOut(k)
    BY <1>4 DEF Serve
  <2>2. Counts => Counts'
    <3> SUFFICES ASSUME Counts, NEW j \in Key
                 PROVE  effects'[j] = IF ChangesLab(j) /\ answers'[j] # "none" THEN 1 ELSE 0
      BY DEF Counts
    <3>1. effects[j] = IF ChangesLab(j) /\ answers[j] # "none" THEN 1 ELSE 0
      BY DEF Counts
    <3>2. CASE j = k
      BY <1>1, <1>2, <1>4, <2>1, <3>1, <3>2 DEF CarryOut, LabTypeOK
    <3>3. CASE j # k
      BY <1>1, <2>1, <3>1, <3>3 DEF CarryOut, LabTypeOK
    <3>4. QED
      BY <3>2, <3>3
  <2>3. QED
    BY <1>1, <1>2, <2>1, <2>2 DEF LabTypeOK
<1>5. QED
  BY <1>3, <1>4

(* A step that does not touch answers, effects, late or the plan keeps the *)
(* invariant when the records it writes know nothing new.                  *)
LEMMA QuietLabInv ==
  ASSUME LabInv, UNCHANGED runFrame, Knows(run'), \A w \in Worker : Knows(copy'[w])
  PROVE  LabInv'
  BY DEF LabInv, Sound, Knows, Counts, LateBased, Based, runFrame, labVars

LEMMA SaveKnows ==
  ASSUME TypeOK, Sound, NEW w \in Worker, NEW record, record.results = copy[w].results,
         Save(w, record) \/ SaveAndLeave(w, record)
  PROVE  Knows(run') /\ \A v \in Worker : Knows(copy'[v])
<1>1. Knows(record)
  BY DEF Sound, Knows
<1>2. Knows(ApprovedRun)
  BY DEF Knows, ApprovedRun, Unanswered
<1>3. QED
  BY <1>1, <1>2 DEF Sound, Save, SaveAndLeave, Leave, TypeOK

(* The answer to a call is remembered by the worker that made it, and what *)
(* it sends for later is based like what it sends now.                     *)
LEMMA CallLabInv ==
  ASSUME TypeOK, LabInv, NEW w \in Worker, NEW k \in Key, NEW next, Call(w, k, next), Based(k)
  PROVE  LabInv'
<1>1. PICK v \in Verdict : Outcome(w, k, v) /\ Remember(w, k, v)
  BY DEF Call
<1>2. UNCHANGED <<cures, plan, run, current, at, ok>>
  BY DEF Call
<1>3. /\ copy[w] \in Run
      /\ copy[w].results \in [Key -> Answer]
      /\ \A u \in Worker : u # w => copy'[u] = copy[u]
      /\ \A j \in Key : j # k => copy'[w].results[j] = copy[w].results[j]
      /\ copy'[w].results[k] = IF v \in Answer THEN v ELSE copy[w].results[k]
  BY <1>1 DEF TypeOK, Run, Remember
<1>4. /\ \A j \in Key : answers[j] # "none" => answers'[j] # "none"
      /\ copy'[w].results[k] # "none" => answers'[k] # "none"
      /\ Counts'
      /\ late' \subseteq late \union {k}
  <2>1. CASE UNCHANGED labVars /\ (v = copy[w].results[k] \/ v = "refused")
    BY <1>1, <1>3, <2>1 DEF LabInv, Sound, Knows, Counts, labVars, Answer
  <2>2. CASE Serve(k) /\ UNCHANGED late
    BY <2>2, ServeAnswers DEF LabInv
  <2>3. CASE GiveUp(k) /\ v = "lost"
    BY <1>1, <1>3, <2>3 DEF LabInv, Sound, Knows, Counts, GiveUp, Answer
  <2>4. QED
    BY <1>1, <2>1, <2>2, <2>3 DEF Outcome
<1>5. Knows(run)'
  BY <1>2, <1>4 DEF LabInv, Sound, Knows
<1>6. \A u \in Worker : Knows(copy[u])'
  <2> SUFFICES ASSUME NEW u \in Worker, NEW j \in Key, copy'[u].results[j] # "none"
               PROVE  answers'[j] # "none"
    BY DEF Knows
  <2>1. CASE u # w \/ j # k
    BY <1>3, <1>4, <2>1 DEF LabInv, Sound, Knows
  <2>2. CASE u = w /\ j = k
    BY <1>4, <2>2
  <2>3. QED
    BY <2>1, <2>2
<1>7. LateBased'
  <2> SUFFICES ASSUME NEW j \in late' PROVE Based(j)'
    BY DEF LateBased
  <2>1. Based(j) /\ j \in Key
    BY <1>4 DEF LabInv, LateBased, TypeOK, LabTypeOK
  <2>2. j.step \in Step /\ \A t \in plan.depends[j.step] : t \in Step
    BY <2>1, PlanAssumption DEF Key, TypeOK
  <2>3. QED
    BY <1>2, <1>4, <2>1, <2>2, Keys DEF Based
<1>8. QED
  BY <1>4, <1>5, <1>6, <1>7 DEF LabInv, Sound

LEMMA InitLabInv == Init => LabInv
  BY DEF Init, LabInit, LabInv, Sound, Knows, Counts, LateBased, ApprovedRun, Unanswered

LEMMA StepLabInv == TypeOK /\ LabInv /\ [Next]_vars => LabInv'
<1> SUFFICES ASSUME TypeOK, LabInv, [Next]_vars PROVE LabInv'
  OBVIOUS
<1>0. Sound
  BY DEF LabInv
<1>1. CASE UNCHANGED vars
  BY <1>0, <1>1, QuietLabInv DEF vars, runFrame, Sound, Knows
<1>2. CASE Retry
  <2>1. run'.results = run.results /\ copy' = copy
    BY <1>2 DEF Retry, TypeOK, Run
  <2>2. QED
    BY <1>0, <1>2, <2>1, QuietLabInv DEF Retry, Sound, Knows
<1>3. CASE LateArrival
  <2>1. PICK k \in Key : Arrive(k)
    BY <1>3 DEF LateArrival
  <2>2. Serve(k) /\ k \in late /\ late' \subseteq late /\ UNCHANGED <<plan, run, copy>>
    BY <1>3, <2>1 DEF Arrive, LateArrival
  <2>3. Sound'
    BY <1>0, <2>2, ServeAnswers DEF Sound, Knows
  <2>4. LateBased'
    <3> SUFFICES ASSUME NEW j \in late' PROVE Based(j)'
      BY DEF LateBased
    <3>1. Based(j) /\ j \in Key
      BY <2>2 DEF LabInv, LateBased, TypeOK, LabTypeOK
    <3>2. j.step \in Step /\ \A t \in plan.depends[j.step] : t \in Step
      BY <3>1, PlanAssumption DEF Key, TypeOK
    <3>3. QED
      BY <2>2, <3>1, <3>2, ServeAnswers, Keys DEF Based
  <2>5. QED
    BY <2>2, <2>3, <2>4, ServeAnswers DEF LabInv
<1>4. ASSUME NEW w \in Worker, WorkerStep(w) PROVE LabInv'
  <2>1. CASE Begin(w)
    <3>1. run'.results = run.results
      BY <2>1 DEF Begin, TypeOK, Run
    <3>2. Knows(run') /\ \A v \in Worker : Knows(copy'[v])
      BY <1>0, <2>1, <3>1 DEF Begin, Sound, Knows, TypeOK
    <3>3. QED
      BY <2>1, <3>2, QuietLabInv DEF Begin
  <2>2. CASE Crash(w)
    <3>1. Knows(run') /\ \A v \in Worker : Knows(copy'[v])
      BY <1>0, <2>2 DEF Crash, Leave, Sound, Knows, ApprovedRun, Unanswered, TypeOK
    <3>2. QED
      BY <2>2, <3>1, QuietLabInv DEF Crash
  <2>3. ASSUME NEW record, record.results = copy[w].results,
               Save(w, record) \/ SaveAndLeave(w, record), UNCHANGED runFrame
        PROVE  LabInv'
    BY <1>0, <2>3, SaveKnows, QuietLabInv
  <2>4. copy[w] \in Run
    BY DEF TypeOK
  <2>5. ASSUME NEW s \in Step, CallAct(w, s) PROVE LabInv'
    <3>1. \A t \in plan.depends[s] : t \in Step
      BY PlanAssumption DEF TypeOK
    <3>2. Based(Act(s))
      BY <1>0, <2>5, <3>1, Keys DEF CallAct, Acted, Sound, Knows, Based, Act
    <3>3. QED
      BY <2>5, <3>2, Keys, CallLabInv DEF CallAct
  <2>6. ASSUME NEW s \in Step, CallCheck(w, s) PROVE LabInv'
    <3>1. Based(Check(s))
      BY DEF Based, Check
    <3>2. QED
      BY <2>6, <3>1, Keys, CallLabInv DEF CallCheck
  <2>7. ASSUME NEW s \in Step, CallUndo(w, s) PROVE LabInv'
    <3>1. Based(Undo(s))
      BY <1>0, <2>7, Keys DEF CallUndo, Acted, Sound, Knows, Based, Undo
    <3>2. QED
      BY <2>7, <3>1, Keys, CallLabInv DEF CallUndo
  <2>8. ASSUME NEW s \in Step, CallConfirm(w, s) PROVE LabInv'
    <3>1. Based(Confirm(s))
      BY DEF Based, Confirm
    <3>2. QED
      BY <2>8, <3>1, Keys, CallLabInv DEF CallConfirm
  <2>9. CASE VerifyFails(w)
    <3>1. Knows(run') /\ \A v \in Worker : Knows(copy'[v])
      BY <1>0, <2>4, <2>9 DEF VerifyFails, Sound, Knows, TypeOK, Run
    <3>2. QED
      BY <2>9, <3>1, QuietLabInv DEF VerifyFails
  <2>10. CASE NodeFails(w)
    BY <2>3, <2>4, <2>10 DEF NodeFails, Run
  <2>11. CASE RecordAct(w) \/ RecordUndo(w)
    BY <2>3, <2>11 DEF RecordAct, RecordUndo
  <2>12. CASE ActUnknown(w)
    BY <2>3, <2>4, <2>12 DEF ActUnknown, Run
  <2>13. CASE ActFailed(w)
    BY <2>3, <2>4, <2>13 DEF ActFailed, Run
  <2>14. CASE PreconditionChanged(w)
    BY <2>3, <2>4, <2>14 DEF PreconditionChanged, Run
  <2>15. CASE ExecuteEnds(w)
    BY <2>3, <2>4, <2>15 DEF ExecuteEnds, Run
  <2>16. CASE RecordReading(w) \/ UndoFailed(w) \/ RecordConfirmation(w)
    BY <2>3, <2>16 DEF RecordReading, UndoFailed, RecordConfirmation, NextTurn
  <2>17. CASE VerifyPasses(w)
    BY <2>3, <2>4, <2>17 DEF VerifyPasses, Run
  <2>18. CASE CompensationEnds(w)
    BY <2>3, <2>4, <2>18 DEF CompensationEnds, Run
  <2>19. CASE Finalize(w)
    BY <2>3, <2>4, <2>19 DEF Finalize, Run
  <2>20. QED
    BY <1>4, <2>1, <2>2, <2>5, <2>6, <2>7, <2>8, <2>9, <2>10, <2>11, <2>12, <2>13, <2>14,
       <2>15, <2>16, <2>17, <2>18, <2>19, PlanSteps DEF WorkerStep
<1>5. QED
  BY <1>1, <1>2, <1>3, <1>4 DEF Next

LEMMA LabInvariant == Spec => [](TypeOK /\ LabInv)
<1>1. Init => TypeOK /\ LabInv
  BY InitTypes, InitLabInv
<1>2. TypeOK /\ LabInv /\ [Next]_vars => (TypeOK /\ LabInv)'
  BY StepTypes, StepLabInv
<1>3. QED
  BY <1>1, <1>2, PTL DEF Spec

(* However often a call is repeated, by whomever and however late, it      *)
(* changes the system it acts on at most once.                             *)
THEOREM PlanActsOnce == Spec => []EffectOnce
<1>1. TypeOK /\ LabInv => EffectOnce
  BY DEF TypeOK, LabTypeOK, LabInv, Counts, EffectOnce
<1>2. QED
  BY <1>1, LabInvariant, PTL

-----------------------------------------------------------------------------
(* In what order the steps of a plan happen and are undone, seen from the  *)
(* system they act on.                                                     *)
LEMMA KeyForms ==
  /\ \A k \in Key : /\ k.step \in Step
                    /\ k.call = "act" => k = Act(k.step)
                    /\ k.call = "undo" => k = Undo(k.step)
  /\ \A s, t \in Step : /\ Act(s) # Undo(t)
                        /\ Act(s) = Act(t) => s = t
                        /\ Undo(s) = Undo(t) => s = t
                        /\ ChangesLab(Act(s)) /\ ChangesLab(Undo(s))
  BY DEF Key, Act, Undo, ChangesLab

(* A request served now makes one step happen, undoes one, or stutters.    *)
LEMMA ServeEffects ==
  ASSUME TypeOK, LabInv, NEW k \in Key, Serve(k), Based(k), UNCHANGED plan
  PROVE  Effects!Next \/ UNCHANGED Effects!vars
<1>1. CASE UNCHANGED effects
  BY <1>1 DEF Effects!vars
<1>2. CASE effects' # effects
  <2>1. /\ answers[k] = "none"
        /\ ChangesLab(k)
        /\ effects' = [effects EXCEPT ![k] = @ + 1]
    BY <1>2 DEF Serve, CarryOut
  <2>2. /\ effects[k] = 0
        /\ effects'[k] = 1
        /\ \A j \in Key : j # k => effects'[j] = effects[j]
    BY <2>1 DEF LabInv, Counts, TypeOK, LabTypeOK
  <2>3. \A t \in Step : answers[Act(t)] # "none" => effects[Act(t)] > 0
    BY KeyForms, Keys DEF LabInv, Counts
  <2>4. k.step \in Step
    BY KeyForms
  <2>5. CASE k.call = "act"
    <3>1. k = Act(k.step)
      BY <2>5, KeyForms
    <3>2. {s \in Step : effects'[Act(s)] > 0} = {s \in Step : effects[Act(s)] > 0} \union {k.step}
      BY <2>2, <2>4, <3>1, KeyForms, Keys
    <3>3. {s \in Step : effects'[Undo(s)] > 0} = {s \in Step : effects[Undo(s)] > 0}
      BY <2>2, <2>4, <3>1, KeyForms, Keys
    <3>4. plan.depends[k.step] \subseteq {s \in Step : effects[Act(s)] > 0}
      BY <2>3, <2>4, <2>5, PlanAssumption DEF Based, TypeOK
    <3>5. k.step \notin {s \in Step : effects[Act(s)] > 0}
      BY <2>2, <3>1
    <3>6. Effects!Happen(k.step)
      BY <3>2, <3>3, <3>4, <3>5 DEF Effects!Happen
    <3>7. QED
      BY <2>4, <3>6 DEF Effects!Next
  <2>6. CASE k.call = "undo"
    <3>1. k = Undo(k.step)
      BY <2>6, KeyForms
    <3>2. {s \in Step : effects'[Undo(s)] > 0} = {s \in Step : effects[Undo(s)] > 0} \union {k.step}
      BY <2>2, <2>4, <3>1, KeyForms, Keys
    <3>3. {s \in Step : effects'[Act(s)] > 0} = {s \in Step : effects[Act(s)] > 0}
      BY <2>2, <2>4, <3>1, KeyForms, Keys
    <3>4. effects[Act(k.step)] > 0 /\ effects[Undo(k.step)] = 0
      BY <2>2, <2>3, <2>4, <2>6, <3>1 DEF Based
    <3>5. Effects!Compensate(k.step)
      BY <2>4, <3>2, <3>3, <3>4 DEF Effects!Compensate
    <3>6. QED
      BY <2>4, <3>5 DEF Effects!Next
  <2>7. QED
    BY <2>1, <2>5, <2>6 DEF ChangesLab
<1>3. QED
  BY <1>1, <1>2

(* Every request that is served, now or late, is based on answers. *)
LEMMA CallEffects ==
  ASSUME TypeOK, LabInv, NEW w \in Worker, NEW k \in Key, NEW next, Call(w, k, next), Based(k)
  PROVE  Effects!Next \/ UNCHANGED Effects!vars
<1>1. UNCHANGED plan /\ (Serve(k) \/ UNCHANGED effects)
  BY DEF Call, Outcome, GiveUp, labVars
<1>2. QED
  BY <1>1, ServeEffects DEF Effects!vars

(* The calls a worker makes: what it has on record is based. *)
LEMMA CallsBased ==
  ASSUME TypeOK, LabInv, NEW w \in Worker, NEW s \in Step
  PROVE  /\ CallAct(w, s) => Based(Act(s)) /\ Call(w, Act(s), "acted")
         /\ CallCheck(w, s) => Based(Check(s)) /\ Call(w, Check(s), "read")
         /\ CallUndo(w, s) => Based(Undo(s)) /\ Call(w, Undo(s), "undone")
         /\ CallConfirm(w, s) => Based(Confirm(s)) /\ Call(w, Confirm(s), "confirmed")
<1>1. \A t \in plan.depends[s] : t \in Step
  BY PlanAssumption DEF TypeOK
<1>2. Knows(copy[w])
  BY DEF LabInv, Sound
<1>3. CallAct(w, s) => Based(Act(s))
  BY <1>1, <1>2, Keys DEF CallAct, Acted, Knows, Based, Act
<1>4. CallUndo(w, s) => Based(Undo(s))
  BY <1>2, Keys DEF CallUndo, Acted, Knows, Based, Undo
<1>5. Based(Check(s)) /\ Based(Confirm(s))
  BY DEF Based, Check, Confirm
<1>6. QED
  BY <1>3, <1>4, <1>5 DEF CallAct, CallCheck, CallUndo, CallConfirm

LEMMA InitEffects == Init => Effects!Init
  BY PlanAssumption, Keys DEF Init, LabInit, Effects!Init

LEMMA StepEffects ==
  TypeOK /\ LabInv /\ [Next]_vars => Effects!Next \/ UNCHANGED Effects!vars
<1> SUFFICES ASSUME TypeOK, LabInv, [Next]_vars
             PROVE  Effects!Next \/ UNCHANGED Effects!vars
  OBVIOUS
<1>1. CASE UNCHANGED <<plan, effects>>
  BY <1>1 DEF Effects!vars
<1>2. CASE LateArrival
  <2>1. PICK k \in Key : Serve(k) /\ k \in late /\ UNCHANGED plan
    BY <1>2 DEF LateArrival, Arrive
  <2>2. Based(k)
    BY <2>1 DEF LabInv, LateBased
  <2>3. QED
    BY <2>1, <2>2, ServeEffects
<1>3. ASSUME NEW w \in Worker, NEW s \in Step,
             CallAct(w, s) \/ CallCheck(w, s) \/ CallUndo(w, s) \/ CallConfirm(w, s)
      PROVE  Effects!Next \/ UNCHANGED Effects!vars
  BY <1>3, CallsBased, CallEffects, Keys
<1>4. ASSUME NEW w \in Worker, WorkerStep(w) PROVE Effects!Next \/ UNCHANGED Effects!vars
  <2>1. CASE \E s \in Step : CallAct(w, s) \/ CallCheck(w, s) \/ CallUndo(w, s) \/ CallConfirm(w, s)
    BY <1>3, <2>1
  <2>2. CASE \/ Begin(w) \/ Crash(w) \/ NodeFails(w) \/ RecordAct(w) \/ ActUnknown(w)
             \/ ActFailed(w) \/ PreconditionChanged(w) \/ ExecuteEnds(w)
    BY <1>1, <2>2
    DEF Begin, Crash, NodeFails, RecordAct, ActUnknown, ActFailed, PreconditionChanged,
        ExecuteEnds, runFrame, labVars
  <2>3. CASE \/ RecordReading(w) \/ VerifyPasses(w) \/ VerifyFails(w) \/ RecordUndo(w)
             \/ UndoFailed(w) \/ RecordConfirmation(w) \/ CompensationEnds(w) \/ Finalize(w)
    BY <1>1, <2>3
    DEF RecordReading, VerifyPasses, VerifyFails, RecordUndo, UndoFailed, RecordConfirmation,
        NextTurn, CompensationEnds, Finalize, runFrame, labVars
  <2>4. QED
    BY <1>4, <2>1, <2>2, <2>3, PlanSteps DEF WorkerStep
<1>5. CASE Retry \/ UNCHANGED vars
  BY <1>1, <1>5 DEF Retry, vars, runFrame, labVars
<1>6. QED
  BY <1>2, <1>4, <1>5 DEF Next

(* From outside, a plan's steps happen once each and after those they      *)
(* depend on, and are undone at most once and only if they happened,       *)
(* whatever is lost, late, repeated or done by two workers at a time.      *)
THEOREM PlanImplementsEffects == Spec => ImplementsPlanEffects
  BY InitEffects, StepEffects, LabInvariant, PTL DEF Spec, ImplementsPlanEffects, Effects!Spec

-----------------------------------------------------------------------------
(* The stored run against what has happened or may still happen.  A worker *)
(* that is about to act knows no more than the stored run does; one that   *)
(* may store its copy knows no less.                                       *)
Covered(k) == k.call = "act" => \A t \in plan.depends[k.step] : Acted(run, t)

Modest(w) == pc[w] = "execute" => \A s \in Step : Acted(copy[w], s) => Acted(run, s)
UpToDate(w) == w \in current => \A s \in Step : Acted(run, s) => Acted(copy[w], s)

RecordInv ==
  /\ \A k \in late : Covered(k)
  /\ DependenciesRecorded
  /\ \A w \in Worker : Modest(w) /\ UpToDate(w)

Grows == \A s \in Step : Acted(run, s) => Acted(run', s)

LEMMA InitRecordInv == Init => RecordInv
  BY Keys DEF Init, LabInit, RecordInv, DependenciesRecorded, Modest, UpToDate

(* What has been covered stays covered. *)
LEMMA StaysCovered ==
  ASSUME TypeOK, NEW k \in Key, Covered(k), Grows, UNCHANGED plan
  PROVE  Covered(k)'
<1>1. k.call = "act" => \A t \in plan.depends[k.step] : t \in Step
  BY KeyForms, PlanAssumption DEF TypeOK
<1>2. QED
  BY <1>1 DEF Covered, Grows, Acted

LEMMA QuietRecordInv ==
  ASSUME TypeOK, RecordInv, Grows, UNCHANGED runFrame,
         \A w \in Worker : Modest(w)' /\ UpToDate(w)'
  PROVE  RecordInv'
<1>1. UNCHANGED <<plan, effects, late>>
  BY DEF runFrame, labVars
<1>2. \A k \in late : k \in Key /\ Covered(k)'
  BY <1>1, StaysCovered DEF RecordInv, TypeOK, LabTypeOK
<1>3. \A s \in Step : \A t \in plan.depends[s] : t \in Step
  BY PlanAssumption DEF TypeOK
<1>4. DependenciesRecorded'
  BY <1>1, <1>3 DEF RecordInv, DependenciesRecorded, Grows, Acted
<1>5. QED
  BY <1>1, <1>2, <1>4 DEF RecordInv

LEMMA SaveRecordInv ==
  ASSUME TypeOK, RecordInv, NEW w \in Worker, NEW record, record.results = copy[w].results,
         Save(w, record) \/ SaveAndLeave(w, record), UNCHANGED runFrame,
         \A v \in Worker : v # w => pc'[v] = pc[v]
  PROVE  RecordInv'
<1>1. w \in current /\ run' = record
  BY DEF Save, SaveAndLeave
<1>2. Grows
  BY <1>1 DEF RecordInv, UpToDate, Acted, Grows
<1>3. ASSUME NEW v \in Worker, v # w PROVE Modest(v)' /\ UpToDate(v)'
  <2>1. pc'[v] = pc[v] /\ copy'[v] = copy[v] /\ v \notin current'
    BY <1>3 DEF Save, SaveAndLeave, Leave, TypeOK
  <2>2. QED
    BY <1>2, <2>1 DEF RecordInv, Modest, UpToDate, Acted, Grows
<1>4. Modest(w)' /\ UpToDate(w)'
  <2>1. CASE Save(w, record)
    <3>1. copy'[w] = run'
      BY <2>1 DEF Save, TypeOK
    <3>2. QED
      BY <3>1 DEF Modest, UpToDate, Acted
  <2>2. CASE SaveAndLeave(w, record)
    <3>1. pc'[w] = "idle" /\ current' = {}
      BY <2>2 DEF SaveAndLeave, Leave, TypeOK
    <3>2. QED
      BY <3>1 DEF Modest, UpToDate
  <2>3. QED
    BY <2>1, <2>2
<1>5. QED
  BY <1>2, <1>3, <1>4, QuietRecordInv

(* A request served now has its effect behind it, and only its own.        *)
LEMMA ServeRecorded ==
  ASSUME TypeOK, RecordInv, NEW k \in Key, Serve(k), Covered(k), UNCHANGED <<plan, run>>
  PROVE  DependenciesRecorded'
<1> SUFFICES ASSUME NEW s \in Step, effects'[Act(s)] > 0, NEW t \in plan.depends[s]
             PROVE  Acted(run, t)'
  BY DEF DependenciesRecorded
<1>1. effects[Act(s)] > 0 \/ k = Act(s)
  BY Keys DEF Serve, CarryOut, TypeOK, LabTypeOK
<1>2. CASE effects[Act(s)] > 0
  BY <1>2 DEF RecordInv, DependenciesRecorded, Acted
<1>3. CASE k = Act(s)
  BY <1>3 DEF Covered, Act, Acted
<1>4. QED
  BY <1>1, <1>2, <1>3

LEMMA CallRecordInv ==
  ASSUME TypeOK, RecordInv, NEW w \in Worker, NEW k \in Key, NEW next,
         Call(w, k, next), Covered(k), next # "execute"
  PROVE  RecordInv'
<1>1. PICK v \in Verdict : Outcome(w, k, v) /\ Remember(w, k, v)
  BY DEF Call
<1>2. UNCHANGED <<plan, run, current>> /\ Goto(w, next)
  BY DEF Call
<1>3. late' \subseteq late \union {k} /\ (Serve(k) \/ UNCHANGED effects)
  BY <1>1 DEF Outcome, GiveUp, labVars
<1>4. \A j \in late' : Covered(j)'
  BY <1>2, <1>3 DEF RecordInv, Covered, Acted
<1>5. DependenciesRecorded'
  BY <1>2, <1>3, ServeRecorded DEF RecordInv, DependenciesRecorded, Acted
<1>6. ASSUME NEW u \in Worker, u # w PROVE Modest(u)' /\ UpToDate(u)'
  <2>1. pc'[u] = pc[u] /\ copy'[u] = copy[u]
    BY <1>1, <1>2, <1>6 DEF Remember, Goto, TypeOK
  <2>2. QED
    BY <1>2, <2>1 DEF RecordInv, Modest, UpToDate, Acted
<1>7. Modest(w)'
  BY <1>2 DEF Modest, Goto, TypeOK
<1>8. UpToDate(w)'
  <2>1. copy[w] \in Run /\ copy[w].results \in [Key -> Answer]
    BY DEF TypeOK, Run
  <2>2. \A j \in Key : copy[w].results[j] # "none" => copy'[w].results[j] # "none"
    <3>1. CASE v \notin Answer
      BY <1>1, <2>1, <3>1 DEF Remember, TypeOK, Run
    <3>2. CASE v \in Answer
      <4>1. v # "none"
        BY DEF Verdict
      <4>2. QED
        BY <1>1, <2>1, <3>2, <4>1 DEF Remember, TypeOK, Run
    <3>3. QED
      BY <3>1, <3>2
  <2>3. QED
    BY <1>2, <2>2, Keys DEF RecordInv, UpToDate, Acted
<1>9. QED
  BY <1>4, <1>5, <1>6, <1>7, <1>8 DEF RecordInv

LEMMA StepRecordInv == TypeOK /\ RecordInv /\ [Next]_vars => RecordInv'
<1> SUFFICES ASSUME TypeOK, RecordInv, [Next]_vars PROVE RecordInv'
  OBVIOUS
<1>1. CASE UNCHANGED vars
  BY <1>1, QuietRecordInv
  DEF vars, workerVars, runFrame, RecordInv, Modest, UpToDate, Acted, Grows
<1>2. CASE Retry
  <2>1. run'.results = run.results /\ copy' = copy /\ pc' = pc /\ current' = {}
    BY <1>2 DEF Retry, TypeOK, Run, workerVars
  <2>2. QED
    BY <1>2, <2>1, QuietRecordInv DEF Retry, RecordInv, Modest, UpToDate, Acted, Grows
<1>3. CASE LateArrival
  <2>1. PICK k \in Key : Serve(k) /\ k \in late /\ late' \subseteq late
    BY <1>3 DEF LateArrival, Arrive
  <2>2. UNCHANGED <<plan, run, copy, current, pc>>
    BY <1>3 DEF LateArrival, workerVars
  <2>3. DependenciesRecorded'
    BY <2>1, <2>2, ServeRecorded DEF RecordInv
  <2>4. QED
    BY <2>1, <2>2, <2>3 DEF RecordInv, Covered, Modest, UpToDate, Acted
<1>4. ASSUME NEW w \in Worker, WorkerStep(w) PROVE RecordInv'
  <2>1. copy[w] \in Run
    BY DEF TypeOK
  <2>2. ASSUME NEW record, record.results = copy[w].results, NEW next, UNCHANGED runFrame,
               \/ Save(w, record) /\ (Goto(w, next) \/ Loop(w, next))
               \/ SaveAndLeave(w, record)
        PROVE  RecordInv'
    <3>1. \A v \in Worker : v # w => pc'[v] = pc[v]
      BY <2>2 DEF Goto, Loop, SaveAndLeave, Leave, TypeOK
    <3>2. QED
      BY <2>2, <3>1, SaveRecordInv
  <2>3. CASE Begin(w)
    <3>1. run'.results = run.results /\ copy'[w] = run' /\ current' = {w}
      BY <2>3 DEF Begin, TypeOK, Run
    <3>2. \A v \in Worker : v # w => copy'[v] = copy[v] /\ pc'[v] = pc[v]
      BY <2>3 DEF Begin, Loop, Goto, TypeOK
    <3>3. \A v \in Worker : Modest(v)' /\ UpToDate(v)'
      BY <3>1, <3>2 DEF RecordInv, Modest, UpToDate, Acted
    <3>4. QED
      BY <2>3, <3>1, <3>3, QuietRecordInv DEF Begin, Acted, Grows
  <2>4. CASE Crash(w)
    <3>1. UNCHANGED run /\ pc'[w] = "idle" /\ current' = current \ {w}
      BY <2>4 DEF Crash, Leave, TypeOK
    <3>2. \A v \in Worker : v # w => copy'[v] = copy[v] /\ pc'[v] = pc[v]
      BY <2>4 DEF Crash, Leave, TypeOK
    <3>3. \A v \in Worker : Modest(v)' /\ UpToDate(v)'
      BY <3>1, <3>2 DEF RecordInv, Modest, UpToDate, Acted
    <3>4. QED
      BY <2>4, <3>1, <3>3, QuietRecordInv DEF Crash, Acted, Grows
  <2>5. ASSUME NEW s \in Step, CallAct(w, s) PROVE RecordInv'
    <3>1. \A t \in plan.depends[s] : t \in Step
      BY PlanAssumption DEF TypeOK
    <3>2. Covered(Act(s))
      BY <2>5, <3>1 DEF CallAct, Covered, Act, RecordInv, Modest
    <3>3. QED
      BY <2>5, <3>2, Keys, CallRecordInv DEF CallAct
  <2>6. ASSUME NEW s \in Step, CallCheck(w, s) \/ CallUndo(w, s) \/ CallConfirm(w, s)
        PROVE  RecordInv'
    <3>1. Covered(Check(s)) /\ Covered(Undo(s)) /\ Covered(Confirm(s))
      BY DEF Covered, Check, Undo, Confirm
    <3>2. QED
      BY <2>6, <3>1, Keys, CallRecordInv DEF CallCheck, CallUndo, CallConfirm
  <2>7. CASE VerifyFails(w)
    <3>1. \A v \in Worker : v # w => copy'[v] = copy[v] /\ pc'[v] = pc[v]
      BY <2>7 DEF VerifyFails, Loop, Goto, TypeOK
    <3>2. copy'[w].results = copy[w].results /\ pc'[w] # "execute" /\ UNCHANGED <<run, current>>
      BY <2>1, <2>7 DEF VerifyFails, Loop, Goto, TypeOK, Run
    <3>3. \A v \in Worker : Modest(v)' /\ UpToDate(v)'
      BY <3>1, <3>2 DEF RecordInv, Modest, UpToDate, Acted
    <3>4. QED
      BY <2>7, <3>2, <3>3, QuietRecordInv DEF VerifyFails, Acted, Grows
  <2>8. CASE RecordAct(w) \/ RecordUndo(w)
    BY <2>2, <2>8 DEF RecordAct, RecordUndo
  <2>9. CASE RecordReading(w) \/ UndoFailed(w) \/ RecordConfirmation(w)
    BY <2>2, <2>9 DEF RecordReading, UndoFailed, RecordConfirmation, NextTurn
  <2>10. CASE ExecuteEnds(w)
    BY <2>1, <2>2, <2>10 DEF ExecuteEnds, Run
  <2>11. CASE VerifyPasses(w)
    BY <2>1, <2>2, <2>11 DEF VerifyPasses, Run
  <2>12. CASE NodeFails(w)
    BY <2>1, <2>2, <2>12 DEF NodeFails, Run
  <2>13. CASE ActUnknown(w)
    BY <2>1, <2>2, <2>13 DEF ActUnknown, Run
  <2>14. CASE ActFailed(w)
    BY <2>1, <2>2, <2>14 DEF ActFailed, Run
  <2>15. CASE PreconditionChanged(w)
    BY <2>1, <2>2, <2>15 DEF PreconditionChanged, Run
  <2>16. CASE CompensationEnds(w)
    BY <2>1, <2>2, <2>16 DEF CompensationEnds, Run
  <2>17. CASE Finalize(w)
    BY <2>1, <2>2, <2>17 DEF Finalize, Run
  <2>18. QED
    BY <1>4, <2>3, <2>4, <2>5, <2>6, <2>7, <2>8, <2>9, <2>10, <2>11, <2>12, <2>13, <2>14,
       <2>15, <2>16, <2>17, PlanSteps DEF WorkerStep
<1>5. QED
  BY <1>1, <1>2, <1>3, <1>4 DEF Next

(* Whatever dies, no dependency of a step that had its effect is missing   *)
(* from the stored run.                                                    *)
THEOREM PlanRecordsDependencies == Spec => []DependenciesRecorded
<1>1. Init => TypeOK /\ RecordInv
  BY InitTypes, InitRecordInv
<1>2. TypeOK /\ RecordInv /\ [Next]_vars => (TypeOK /\ RecordInv)'
  BY StepTypes, StepRecordInv
<1>3. TypeOK /\ RecordInv => DependenciesRecorded
  BY DEF RecordInv
<1>4. QED
  BY <1>1, <1>2, <1>3, PTL DEF Spec

-----------------------------------------------------------------------------
Listed == {Topological(plan)[i] : i \in DOMAIN Topological(plan)}

AllActed == \A s \in Step \intersect Listed : answers[Act(s)] # "none"
Undone == \E s \in Step : answers[Undo(s)] # "none"
Hopeless == Steps \intersect cures = {}

(* What a record says is so. *)
Honest(record) ==
  /\ \A k \in Key : record.results[k] # "none" => record.results[k] = answers[k]
  /\ record.node # "execute" => \A s \in Step \intersect Listed : Acted(record, s)
  /\ record.error = "rolled_back" => Undone /\ Irreversible = {}
  /\ Hopeless => record.node # "finalize" /\ record.status # "COMPLETED"

(* What a worker has seen where it is. *)
Placed(record, place, turn, good, verdict) ==
  /\ place \notin {"idle", "execute", "acted"} => record.node # "execute"
  /\ place \in {"confirm", "confirmed"} => Undone
  /\ place = "undone" /\ verdict = "good" => Undone
  /\ place = "compensate" /\ turn > 0 /\ good => Undone
  /\ Hopeless => /\ place # "finalize"
                 /\ place = "read" => verdict # "good"
                 /\ place = "verify" /\ turn > 0 => ~good

(* What may be asked of the laboratory. *)
Allowed(k) ==
  /\ k.call = "act" => k.step \in Steps \intersect Listed
  /\ k.call = "undo" => AllActed

Settled ==
  /\ inForce \subseteq Steps
  /\ Undone => AllActed /\ inForce \intersect Scaling = {}
  /\ Hopeless => \A s \in Step : answers[Check(s)] # "good"

LateAllowed == \A k \in late : Allowed(k)

VerdictInv ==
  /\ Settled
  /\ LateAllowed
  /\ Honest(run)
  /\ \A w \in Worker : /\ Honest(copy[w])
                       /\ Placed(copy[w], pc[w], at[w], ok[w], heard[w])
LEMMA InitVerdict == Init => VerdictInv
<1> SUFFICES ASSUME Init PROVE VerdictInv
  OBVIOUS
<1>1. Settled /\ LateAllowed
  BY Keys DEF Init, LabInit, Settled, LateAllowed, Undone, Unanswered
<1>2. Honest(ApprovedRun)
  BY DEF Honest, ApprovedRun, Unanswered
<1>3. QED
  BY <1>1, <1>2 DEF Init, VerdictInv, Placed

(* Answers given stay as they are, and so does what follows from them.     *)
Kept == \A k \in Key : answers[k] # "none" => answers'[k] = answers[k]

LEMMA HonestKept ==
  ASSUME TypeOK, Kept, UNCHANGED <<cures, plan>>, NEW record \in Run, Honest(record)
  PROVE  Honest(record)'
<1>1. Undone => Undone'
  BY Keys DEF Kept, Undone
<1>2. QED
  BY <1>1 DEF Honest, Kept, Acted, Listed, Hopeless, Steps, Irreversible, Undone

LEMMA AllowedKept ==
  ASSUME TypeOK, Kept, UNCHANGED plan, NEW k \in Key, Allowed(k)
  PROVE  Allowed(k)'
<1>1. AllActed => AllActed'
  BY Keys DEF Kept, AllActed, Listed
<1>2. QED
  BY <1>1 DEF Allowed, Listed, Steps

(* A request that may be served settles nothing anew: a step asked for     *)
(* after a compensation has been answered before, and without hope no      *)
(* reading is good.                                                        *)
LEMMA ServeVerdict ==
  ASSUME TypeOK, Settled, NEW k \in Key, Serve(k), Allowed(k), UNCHANGED <<cures, plan>>
  PROVE  Settled' /\ Kept /\ answers'[k] = AnswerTo(k)
<1>1. LabTypeOK /\ Steps' = Steps /\ Listed' = Listed /\ AnswerTo(k) # "none"
  BY DEF TypeOK, Steps, Listed, AnswerTo, Reading
<1>2. CASE answers[k] # "none"
  BY <1>1, <1>2 DEF Serve, Settled, Kept, Undone, AllActed, Hopeless, AnswerTo
<1>3. CASE answers[k] = "none"
  <2>1. answers' = [answers EXCEPT ![k] = AnswerTo(k)] /\ inForce' = Changed(k)
    BY <1>3 DEF Serve, CarryOut
  <2>2. Kept /\ answers'[k] = AnswerTo(k)
    BY <1>1, <1>3, <2>1 DEF Kept, LabTypeOK
  <2>3. AllActed => AllActed'
    BY <1>1, <2>2, Keys DEF Kept, AllActed
  <2>4. k.step \in Step /\ inForce' \subseteq inForce \union {k.step}
    BY <2>1, KeyForms DEF Changed
  <2>5. inForce' \subseteq Steps'
    BY <1>1, <2>1 DEF Changed, Allowed, Settled
  <2>6. ASSUME Undone' PROVE AllActed' /\ inForce' \intersect Scaling = {}
    <3>1. CASE k.call = "undo"
      BY <2>1, <2>3, <3>1 DEF Allowed, Changed
    <3>2. CASE k.call = "act"
      <4>1. Undone
        <5>1. PICK s \in Step : answers'[Undo(s)] # "none"
          BY <2>6 DEF Undone
        <5>2. Undo(s) # k /\ Undo(s) \in Key
          BY <3>2, Keys DEF Undo
        <5>3. QED
          BY <1>1, <2>1, <5>1, <5>2 DEF Undone, LabTypeOK
      <4>2. answers[Act(k.step)] # "none"
        BY <2>4, <3>2, <4>1 DEF Settled, AllActed, Allowed
      <4>3. QED
        BY <1>3, <3>2, <4>2, KeyForms
    <3>3. CASE k.call \notin {"act", "undo"}
      <4>1. Undone
        <5>1. PICK s \in Step : answers'[Undo(s)] # "none"
          BY <2>6 DEF Undone
        <5>2. Undo(s) # k /\ Undo(s) \in Key
          BY <3>3, Keys DEF Undo
        <5>3. QED
          BY <1>1, <2>1, <5>1, <5>2 DEF Undone, LabTypeOK
      <4>2. inForce' = inForce
        BY <2>1, <3>3 DEF Changed
      <4>3. QED
        BY <2>3, <4>1, <4>2 DEF Settled
    <3>4. QED
      BY <3>1, <3>2, <3>3
  <2>7. ASSUME Hopeless', NEW s \in Step PROVE answers'[Check(s)] # "good"
    <3>1. Hopeless /\ Check(s) \in Key
      BY <1>1, <2>7, Keys DEF Hopeless
    <3>2. CASE Check(s) = k
      <4>1. ~Cured
        BY <3>1 DEF Cured, Settled, Hopeless
      <4>2. AnswerTo(k) = "bad"
        BY <1>3, <3>2, <4>1 DEF AnswerTo, Reading, Meets, Check
      <4>3. QED
        BY <2>2, <3>2, <4>2
    <3>3. CASE Check(s) # k
      BY <1>1, <2>1, <3>1, <3>3 DEF Settled, LabTypeOK
    <3>4. QED
      BY <3>2, <3>3
  <2>8. QED
    BY <2>2, <2>5, <2>6, <2>7 DEF Settled
<1>4. QED
  BY <1>2, <1>3

(* A step that leaves the laboratory alone.                                *)
LEMMA QuietVerdict ==
  ASSUME TypeOK, VerdictInv, UNCHANGED runFrame, Honest(run'),
         \A w \in Worker : Honest(copy'[w]) /\ Placed(copy'[w], pc'[w], at'[w], ok'[w], heard'[w])
  PROVE  VerdictInv'
  BY DEF VerdictInv, Settled, LateAllowed, Allowed, AllActed, Undone, Hopeless, Honest, Placed,
         Listed, Steps, Irreversible, Acted, runFrame, labVars

LEMMA ApprovedVerdict ==
  /\ Honest(ApprovedRun)
  /\ \A turn, good, verdict : Placed(ApprovedRun, "idle", turn, good, verdict)
  BY DEF Honest, Placed, ApprovedRun, Unanswered

(* Storing an honest record and going on from there, or leaving.           *)
LEMMA SaveVerdict ==
  ASSUME TypeOK, VerdictInv, NEW w \in Worker, NEW record \in Run, Honest(record),
         Save(w, record), UNCHANGED runFrame,
         Placed(record, pc'[w], at'[w], ok'[w], heard'[w]),
         \A v \in Worker : v # w => /\ pc'[v] = pc[v] /\ at'[v] = at[v] /\ ok'[v] = ok[v]
                                    /\ heard'[v] = heard[v]
  PROVE  VerdictInv'
<1>1. run' = record /\ copy'[w] = record /\ \A v \in Worker : v # w => copy'[v] = copy[v]
  BY DEF Save, TypeOK
<1>2. QED
  BY <1>1, QuietVerdict DEF VerdictInv

LEMMA LeaveVerdict ==
  ASSUME TypeOK, VerdictInv, NEW w \in Worker, Leave(w), UNCHANGED runFrame, Honest(run')
  PROVE  VerdictInv'
<1>1. copy'[w] = ApprovedRun /\ pc'[w] = "idle"
  BY DEF Leave, TypeOK
<1>2. \A v \in Worker : v # w => /\ copy'[v] = copy[v] /\ pc'[v] = pc[v] /\ at'[v] = at[v]
                                 /\ ok'[v] = ok[v] /\ heard'[v] = heard[v]
  BY DEF Leave, TypeOK
<1>3. QED
  BY <1>1, <1>2, ApprovedVerdict, QuietVerdict DEF VerdictInv

LEMMA SaveAndLeaveVerdict ==
  ASSUME TypeOK, VerdictInv, NEW w \in Worker, NEW record \in Run, Honest(record),
         SaveAndLeave(w, record), UNCHANGED runFrame
  PROVE  VerdictInv'
  BY LeaveVerdict DEF SaveAndLeave

(* An answer given is an honest result. *)
LEMMA HonestAnswered ==
  ASSUME TypeOK, Kept, UNCHANGED <<cures, plan>>, NEW record \in Run, Honest(record),
         NEW k \in Key, NEW v \in Answer \ {"none"}, answers'[k] = v
  PROVE  Honest([record EXCEPT !.results[k] = v])'
<1> DEFINE answered == [record EXCEPT !.results[k] = v]
<1>1. /\ answered.node = record.node
      /\ answered.error = record.error
      /\ answered.status = record.status
      /\ \A j \in Key : answered.results[j] = IF j = k THEN v ELSE record.results[j]
  BY DEF Run
<1>2. Honest(record)'
  BY HonestKept
<1>3. \A s \in Step : Acted(record, s) => Acted(answered, s)
  BY <1>1, Keys DEF Acted
<1> HIDE DEF answered
<1>4. Honest(answered)'
  BY <1>1, <1>2, <1>3 DEF Honest
<1>5. QED
  BY <1>4 DEF answered

LEMMA CallFacts ==
  ASSUME TypeOK, VerdictInv, NEW w \in Worker, NEW k \in Key, NEW next, Call(w, k, next),
         Allowed(k)
  PROVE  /\ Settled' /\ LateAllowed' /\ Kept
         /\ Honest(copy[w])' /\ copy'[w].node = copy[w].node
         /\ heard'[w] = "good" => answers'[k] = "good"
         /\ \A v \in Worker : v # w => copy'[v] = copy[v] /\ heard'[v] = heard[v]
<1>1. PICK v \in Verdict : /\ Outcome(w, k, v)
                           /\ Remember(w, k, v)
                           /\ heard' = [heard EXCEPT ![w] = v]
  BY DEF Call
<1>2. UNCHANGED <<cures, plan>>
  BY DEF Call
<1>3. copy[w] \in Run /\ copy[w].results \in [Key -> Answer] /\ Honest(copy[w])
  BY DEF TypeOK, Run, VerdictInv
<1>4. Settled' /\ Kept /\ late' \subseteq late \union {k} /\ (v \in Answer => answers'[k] = v)
  <2>1. CASE UNCHANGED labVars /\ v = copy[w].results[k] /\ v # "none"
    BY <1>2, <1>3, <2>1
    DEF Honest, VerdictInv, Settled, Kept, labVars, Steps, Hopeless, Undone, AllActed, Listed
  <2>2. CASE Serve(k) /\ UNCHANGED late /\ v = AnswerTo(k)
    BY <1>2, <2>2, ServeVerdict DEF VerdictInv
  <2>3. CASE \/ GiveUp(k) /\ v = "lost"
             \/ UNCHANGED labVars /\ v = "refused"
    BY <1>2, <2>3
    DEF VerdictInv, GiveUp, Settled, Kept, labVars, Steps, Hopeless, Undone, AllActed, Listed, Answer
  <2>4. \/ UNCHANGED labVars /\ v = copy[w].results[k] /\ v # "none"
        \/ Serve(k) /\ UNCHANGED late /\ v = AnswerTo(k)
        \/ GiveUp(k) /\ v = "lost"
        \/ UNCHANGED labVars /\ v = "refused"
    BY <1>1 DEF Outcome
  <2>5. QED
    BY <2>1, <2>2, <2>3, <2>4
<1>5. LateAllowed'
  BY <1>2, <1>4, AllowedKept DEF VerdictInv, LateAllowed, TypeOK, LabTypeOK
<1>6. Honest(copy[w])'
  <2>1. CASE v \in Answer
    <3>1. v # "none" /\ copy'[w] = [copy[w] EXCEPT !.results[k] = v]
      BY <1>1, <1>3, <2>1 DEF Remember, TypeOK, Verdict, Run
    <3>2. QED
      BY <1>2, <1>3, <1>4, <2>1, <3>1, HonestAnswered
  <2>2. CASE v \notin Answer
    <3>1. copy'[w] = copy[w]
      BY <1>1, <1>3, <2>2 DEF Remember, TypeOK, Run
    <3>2. QED
      BY <1>2, <1>3, <1>4, <3>1, HonestKept
  <2>3. QED
    BY <2>1, <2>2
<1>7. QED
  BY <1>1, <1>3, <1>4, <1>5, <1>6 DEF Remember, TypeOK, Run, Answer

LEMMA PlacedKept ==
  ASSUME TypeOK, Kept, UNCHANGED <<cures, plan>>,
         NEW record \in Run, NEW place, NEW turn, NEW good, NEW verdict,
         Placed(record, place, turn, good, verdict)
  PROVE  Placed(record, place, turn, good, verdict)'
<1>1. Undone => Undone'
  BY Keys DEF Kept, Undone
<1>2. Hopeless' => Hopeless
  BY DEF Hopeless, Steps
<1>3. QED
  BY <1>1, <1>2 DEF Placed

LEMMA CallVerdict ==
  ASSUME TypeOK, VerdictInv, NEW w \in Worker, NEW k \in Key, NEW next \in Place,
         Call(w, k, next), Allowed(k),
         Placed(copy[w], next, at[w], ok[w], heard[w])'
  PROVE  VerdictInv'
<1>1. /\ Settled' /\ LateAllowed' /\ Kept
      /\ Honest(copy[w])'
      /\ \A v \in Worker : v # w => copy'[v] = copy[v] /\ heard'[v] = heard[v]
  BY CallFacts
<1>2. UNCHANGED <<cures, plan, run, at, ok>> /\ Goto(w, next)
  BY DEF Call
<1>3. run \in Run /\ \A v \in Worker : copy[v] \in Run
  BY DEF TypeOK
<1>4. Honest(run)'
  BY <1>1, <1>2, <1>3, HonestKept DEF VerdictInv
<1>5. \A v \in Worker : v # w => Honest(copy[v])'
  BY <1>1, <1>2, <1>3, HonestKept DEF VerdictInv
<1>6. \A v \in Worker : v # w => Placed(copy[v], pc[v], at[v], ok[v], heard[v])'
  <2> SUFFICES ASSUME NEW v \in Worker, v # w
               PROVE  Placed(copy[v], pc[v], at[v], ok[v], heard[v])'
    OBVIOUS
  <2>1. Placed(copy[v], pc[v], at[v], ok[v], heard[v])
    BY DEF VerdictInv
  <2>2. pc'[v] = pc[v] /\ at' = at /\ ok' = ok /\ copy'[v] = copy[v] /\ heard'[v] = heard[v]
    BY <1>1, <1>2 DEF Goto, TypeOK
  <2>3. QED
    BY <1>1, <1>2, <1>3, <2>1, <2>2, PlacedKept
<1>7. pc'[w] = next
  BY <1>2 DEF Goto, TypeOK
<1>8. QED
  BY <1>1, <1>2, <1>4, <1>5, <1>6, <1>7 DEF VerdictInv

(* What lets a worker record the end of a loop and begin the next one.     *)
LEMMA LoopOthers ==
  ASSUME TypeOK, NEW w \in Worker, NEW step \in Place, Loop(w, step), UNCHANGED heard
  PROVE  /\ pc'[w] = step /\ at'[w] = 0 /\ ok'[w] = TRUE
         /\ \A v \in Worker : v # w => /\ pc'[v] = pc[v] /\ at'[v] = at[v] /\ ok'[v] = ok[v]
                                       /\ heard'[v] = heard[v]
  BY DEF Loop, Goto, TypeOK

LEMMA NextTurnVerdict ==
  ASSUME TypeOK, VerdictInv, NEW w \in Worker, NEW step \in Place, NEW good \in BOOLEAN,
         NextTurn(w, step, good),
         Placed(copy[w], step, at[w] + 1, ok[w] /\ good, heard[w])
  PROVE  VerdictInv'
<1>1. copy[w] \in Run /\ Honest(copy[w]) /\ Save(w, copy[w]) /\ UNCHANGED runFrame
  BY DEF NextTurn, TypeOK, VerdictInv
<1>2. pc'[w] = step /\ at'[w] = at[w] + 1 /\ ok'[w] = (ok[w] /\ good) /\ heard' = heard
  BY DEF NextTurn, Goto, TypeOK
<1>3. \A v \in Worker : v # w => pc'[v] = pc[v] /\ at'[v] = at[v] /\ ok'[v] = ok[v]
  BY DEF NextTurn, Goto, TypeOK
<1>4. Placed(copy[w], pc'[w], at'[w], ok'[w], heard'[w])
  BY <1>2
<1>5. QED
  BY <1>1, <1>2, <1>3, <1>4, SaveVerdict

(* What an action changes of an honest record without claiming anything.   *)
LEMMA HonestRecord ==
  ASSUME NEW record \in Run, Honest(record)
  PROVE  /\ \A s \in {"QUEUED", "RUNNING", "FAILED", "HANDED_OFF"} :
              Honest([record EXCEPT !.status = s])
         /\ \A e \in Error \ {"rolled_back"} :
              Honest([record EXCEPT !.status = "FAILED", !.error = e])
  BY DEF Honest, Acted, Run, Error

(* The four calls ask for what they may ask for, and their answers place   *)
(* the worker where it goes on.                                            *)
LEMMA CallsVerdict ==
  ASSUME TypeOK, VerdictInv, NEW w \in Worker, NEW s \in Step,
         \/ s \in Steps /\ CallAct(w, s)
         \/ CallCheck(w, s) \/ CallUndo(w, s) \/ CallConfirm(w, s)
  PROVE  VerdictInv'
<1>1. Honest(copy[w]) /\ Placed(copy[w], pc[w], at[w], ok[w], heard[w])
  BY DEF VerdictInv
<1>2. CASE s \in Steps /\ CallAct(w, s)
  <2>1. Allowed(Act(s)) /\ Call(w, Act(s), "acted")
    BY <1>2 DEF CallAct, Allowed, Act, Listed, Todo
  <2>2. Placed(copy[w], "acted", at[w], ok[w], heard[w])'
    BY DEF Placed
  <2>3. QED
    BY <2>1, <2>2, Keys, CallVerdict DEF Place
<1>3. CASE CallCheck(w, s)
  <2>1. Allowed(Check(s)) /\ Call(w, Check(s), "read") /\ copy[w].node # "execute"
    BY <1>1, <1>3 DEF CallCheck, Allowed, Check, Placed
  <2>2. Hopeless' => heard'[w] # "good"
    BY <2>1, Keys, CallFacts DEF Settled
  <2>3. copy'[w].node # "execute"
    BY <2>1, Keys, CallFacts
  <2>4. Placed(copy[w], "read", at[w], ok[w], heard[w])'
    BY <2>2, <2>3 DEF Placed
  <2>5. QED
    BY <2>1, <2>4, Keys, CallVerdict DEF Place
<1>4. CASE CallUndo(w, s)
  <2>1. Call(w, Undo(s), "undone") /\ copy[w].node # "execute"
    BY <1>1, <1>4 DEF CallUndo, Placed
  <2>2. Allowed(Undo(s))
    BY <1>1, <2>1, Keys DEF Honest, Acted, Allowed, AllActed, Undo
  <2>3. heard'[w] = "good" => Undone'
    BY <2>1, <2>2, Keys, CallFacts DEF Undone
  <2>4. copy'[w].node # "execute"
    BY <2>1, <2>2, Keys, CallFacts
  <2>5. Placed(copy[w], "undone", at[w], ok[w], heard[w])'
    BY <2>3, <2>4 DEF Placed
  <2>6. QED
    BY <2>1, <2>2, <2>5, Keys, CallVerdict DEF Place
<1>5. CASE CallConfirm(w, s)
  <2>1. /\ Allowed(Confirm(s)) /\ Call(w, Confirm(s), "confirmed")
        /\ copy[w].node # "execute" /\ Undone
    BY <1>1, <1>5 DEF CallConfirm, Allowed, Confirm, Placed
  <2>2. Undone'
    BY <2>1, Keys, CallFacts DEF Kept, Undone
  <2>3. copy'[w].node # "execute"
    BY <2>1, Keys, CallFacts
  <2>4. Placed(copy[w], "confirmed", at[w], ok[w], heard[w])'
    BY <2>2, <2>3 DEF Placed
  <2>5. QED
    BY <2>1, <2>4, Keys, CallVerdict DEF Place
<1>6. QED
  BY <1>2, <1>3, <1>4, <1>5

LEMMA LateVerdict == ASSUME TypeOK, VerdictInv, LateArrival PROVE VerdictInv'
<1>1. PICK k \in Key : k \in late /\ Serve(k) /\ late' \subseteq late
  BY DEF LateArrival, Arrive
<1>2. UNCHANGED <<cures, plan, run, copy, pc, at, ok, heard>>
  BY DEF LateArrival, workerVars
<1>3. Settled' /\ Kept
  BY <1>1, <1>2, ServeVerdict DEF VerdictInv, LateAllowed
<1>4. LateAllowed'
  BY <1>1, <1>2, <1>3, AllowedKept DEF VerdictInv, LateAllowed, TypeOK, LabTypeOK
<1>5. run \in Run /\ \A w \in Worker : copy[w] \in Run
  BY DEF TypeOK
<1>6. Honest(run)'
  BY <1>2, <1>3, <1>5, HonestKept DEF VerdictInv
<1>7. \A w \in Worker : Honest(copy[w])' /\ Placed(copy[w], pc[w], at[w], ok[w], heard[w])'
  <2> SUFFICES ASSUME NEW w \in Worker
               PROVE  Honest(copy[w])' /\ Placed(copy[w], pc[w], at[w], ok[w], heard[w])'
    OBVIOUS
  <2>1. Honest(copy[w])'
    BY <1>2, <1>3, <1>5, HonestKept DEF VerdictInv
  <2>2. Placed(copy[w], pc[w], at[w], ok[w], heard[w])'
    BY <1>2, <1>3, <1>5, PlacedKept DEF VerdictInv
  <2>3. QED
    BY <2>1, <2>2
<1>8. QED
  BY <1>3, <1>4, <1>6, <1>7 DEF VerdictInv

LEMMA BeginVerdict ==
  ASSUME TypeOK, VerdictInv, NEW w \in Worker, Begin(w)
  PROVE  VerdictInv'
<1>1. run' = [run EXCEPT !.status = "RUNNING", !.attempt = @ + 1]
  BY DEF Begin
<1>2. run \in Run /\ Honest(run)
  BY DEF TypeOK, VerdictInv
<1>3. /\ run'.node = run.node /\ run'.error = run.error /\ run'.results = run.results
      /\ run'.status = "RUNNING"
  BY <1>1, <1>2 DEF Run
<1>4. Honest(run')
  BY <1>2, <1>3 DEF Honest, Acted
<1>5. run.node \in {"execute", "verify", "finalize"}
  BY <1>2 DEF Run
<1>6. pc'[w] = run.node /\ at'[w] = 0 /\ copy'[w] = run'
  BY DEF Begin, Loop, Goto, TypeOK
<1>7. \A v \in Worker : v # w => /\ pc'[v] = pc[v] /\ at'[v] = at[v] /\ ok'[v] = ok[v]
                                 /\ copy'[v] = copy[v]
  BY DEF Begin, Loop, Goto, TypeOK
<1>8. Placed(copy'[w], pc'[w], at'[w], ok'[w], heard'[w])
  BY <1>2, <1>3, <1>5, <1>6 DEF Placed, Honest
<1>9. heard' = heard /\ UNCHANGED runFrame
  BY DEF Begin
<1>10. \A v \in Worker : /\ Honest(copy'[v])
                         /\ Placed(copy'[v], pc'[v], at'[v], ok'[v], heard'[v])
  BY <1>4, <1>6, <1>7, <1>8, <1>9 DEF VerdictInv
<1>11. QED
  BY <1>4, <1>9, <1>10, QuietVerdict

(* The verdict itself: a good verification lets the run complete only with *)
(* hope, and a rolled back run has had its compensation answered.          *)
LEMMA VerifyVerdict ==
  ASSUME TypeOK, VerdictInv, NEW w \in Worker, VerifyPasses(w) \/ VerifyFails(w)
  PROVE  VerdictInv'
<1>1. /\ copy[w] \in Run /\ Honest(copy[w])
      /\ Placed(copy[w], "verify", at[w], ok[w], heard[w])
      /\ pc[w] = "verify" /\ at[w] = Len(plan.list)
      /\ UNCHANGED runFrame
  BY DEF VerdictInv, TypeOK, VerifyPasses, VerifyFails
<1>2. copy[w].node # "execute"
  BY <1>1 DEF Placed
<1>3. CASE VerifyPasses(w)
  <2> DEFINE record == [copy[w] EXCEPT !.node = "finalize"]
  <2>1. plan.list \in Seq(Step) /\ plan.list # <<>>
    BY PlanAssumption, ListAssumption DEF TypeOK
  <2>2. at[w] > 0 /\ ok[w]
    BY <1>1, <1>3, <2>1 DEF VerifyPasses
  <2>3. ~Hopeless
    BY <1>1, <2>2 DEF Placed
  <2>4. /\ record \in Run /\ record.node = "finalize"
        /\ record.error = copy[w].error /\ record.results = copy[w].results
    BY <1>1 DEF Run
  <2> HIDE DEF record
  <2>5. Honest(record)
    BY <1>1, <1>2, <2>3, <2>4 DEF Honest, Acted
  <2>6. Save(w, record) /\ Loop(w, "finalize") /\ UNCHANGED heard
    BY <1>3 DEF VerifyPasses, record
  <2>7. \A turn, good, verdict : Placed(record, "finalize", turn, good, verdict)
    BY <2>3, <2>4 DEF Placed
  <2>8. QED
    BY <1>1, <2>4, <2>5, <2>6, <2>7, LoopOthers, SaveVerdict DEF Place
<1>4. CASE VerifyFails(w)
  <2>1. copy'[w] = [copy[w] EXCEPT !.status = "FAILED"] /\ run' = run
    BY <1>4 DEF VerifyFails, TypeOK
  <2>2. Loop(w, "compensate") /\ UNCHANGED heard
    BY <1>4 DEF VerifyFails
  <2>3. Honest(copy'[w]) /\ copy'[w].node # "execute"
    BY <1>1, <1>2, <2>1, HonestRecord DEF Run
  <2>4. Placed(copy'[w], pc'[w], at'[w], ok'[w], heard'[w])
    <3>1. pc'[w] = "compensate" /\ at'[w] = 0
      BY <2>2, LoopOthers DEF Place
    <3>2. QED
      BY <2>3, <3>1 DEF Placed
  <2>5. \A v \in Worker : v # w => /\ pc'[v] = pc[v] /\ at'[v] = at[v] /\ ok'[v] = ok[v]
                                   /\ heard'[v] = heard[v] /\ copy'[v] = copy[v]
    BY <1>4, <2>2, LoopOthers DEF VerifyFails, Place, TypeOK
  <2>6. QED
    BY <1>1, <2>1, <2>3, <2>4, <2>5, QuietVerdict DEF VerdictInv
<1>5. QED
  BY <1>3, <1>4

LEMMA CompensationVerdict ==
  ASSUME TypeOK, VerdictInv, NEW w \in Worker, CompensationEnds(w)
  PROVE  VerdictInv'
<1> DEFINE record == [copy[w] EXCEPT !.error = FailureCode(w)]
<1>1. /\ copy[w] \in Run /\ Honest(copy[w]) /\ pc[w] = "compensate"
      /\ Placed(copy[w], "compensate", at[w], ok[w], heard[w])
  BY DEF VerdictInv, TypeOK, CompensationEnds
<1>2. /\ record.node = copy[w].node /\ record.status = copy[w].status
      /\ record.results = copy[w].results /\ record.error = FailureCode(w)
      /\ record \in Run
  BY <1>1, FailureCodeType DEF Run
<1>3. FailureCode(w) = "rolled_back" => Undone /\ Irreversible = {}
  BY <1>1 DEF Placed, FailureCode
<1>4. SaveAndLeave(w, record) /\ UNCHANGED runFrame
  BY DEF CompensationEnds
<1> HIDE DEF record
<1>5. Honest(record)
  BY <1>1, <1>2, <1>3 DEF Honest, Acted
<1>6. QED
  BY <1>2, <1>4, <1>5, SaveAndLeaveVerdict

LEMMA FinalizeVerdict ==
  ASSUME TypeOK, VerdictInv, NEW w \in Worker, Finalize(w)
  PROVE  VerdictInv'
<1> DEFINE record == [copy[w] EXCEPT !.status = "COMPLETED"]
<1>1. copy[w] \in Run /\ Honest(copy[w]) /\ ~Hopeless
  BY DEF VerdictInv, TypeOK, Finalize, Placed
<1>2. /\ record.node = copy[w].node /\ record.error = copy[w].error
      /\ record.results = copy[w].results /\ record \in Run
  BY <1>1 DEF Run
<1>3. SaveAndLeave(w, record) /\ UNCHANGED runFrame
  BY DEF Finalize
<1> HIDE DEF record
<1>4. Honest(record)
  BY <1>1, <1>2 DEF Honest, Acted
<1>5. QED
  BY <1>2, <1>3, <1>4, SaveAndLeaveVerdict

LEMMA ExecuteVerdict ==
  ASSUME TypeOK, VerdictInv, NEW w \in Worker, ExecuteEnds(w)
  PROVE  VerdictInv'
<1> DEFINE record == [copy[w] EXCEPT !.node = "verify"]
<1>1. copy[w] \in Run /\ Honest(copy[w]) /\ Todo(w) = {}
  BY DEF VerdictInv, TypeOK, ExecuteEnds
<1>2. /\ record.node = "verify" /\ record.error = copy[w].error
      /\ record.results = copy[w].results /\ record.status = copy[w].status /\ record \in Run
  BY <1>1 DEF Run
<1>3. \A s \in Listed : Acted(copy[w], s)
  BY <1>1 DEF Listed, Todo
<1>4. Save(w, record) /\ Loop(w, "verify") /\ UNCHANGED <<runFrame, heard>>
  BY DEF ExecuteEnds
<1> HIDE DEF record
<1>5. Honest(record)
  BY <1>1, <1>2, <1>3 DEF Honest, Acted
<1>6. \A good, verdict : Placed(record, "verify", 0, good, verdict)
  BY <1>2 DEF Placed
<1>7. QED
  BY <1>2, <1>4, <1>5, <1>6, LoopOthers, SaveVerdict DEF Place

LEMMA StepVerdict == TypeOK /\ VerdictInv /\ [Next]_vars => VerdictInv'
<1> SUFFICES ASSUME TypeOK, VerdictInv, [Next]_vars PROVE VerdictInv'
  OBVIOUS
<1>1. CASE UNCHANGED vars
  BY <1>1, QuietVerdict DEF vars, workerVars, runFrame, VerdictInv
<1>2. CASE Retry
  <2>1. run \in Run /\ Honest(run)
    BY DEF TypeOK, VerdictInv
  <2>2. run' = [run EXCEPT !.status = "QUEUED", !.error = "none"]
    BY <1>2 DEF Retry
  <2>3. Honest(run')
    BY <2>1, <2>2 DEF Honest, Acted, Run
  <2>4. UNCHANGED <<runFrame, copy, pc, at, ok, heard>>
    BY <1>2 DEF Retry, workerVars
  <2>5. QED
    BY <2>3, <2>4, QuietVerdict DEF VerdictInv
<1>3. CASE LateArrival
  BY <1>3, LateVerdict
<1>4. ASSUME NEW w \in Worker, WorkerStep(w) PROVE VerdictInv'
  <2>1. copy[w] \in Run /\ Honest(copy[w]) /\ Placed(copy[w], pc[w], at[w], ok[w], heard[w])
    BY DEF TypeOK, VerdictInv
  <2>2. CASE Begin(w)
    BY <2>2, BeginVerdict
  <2>3. CASE Crash(w)
    BY <2>3, LeaveVerdict DEF Crash, VerdictInv
  <2>4. ASSUME NEW record \in Run, Honest(record), SaveAndLeave(w, record), UNCHANGED runFrame
        PROVE  VerdictInv'
    BY <2>4, SaveAndLeaveVerdict
  <2>5. CASE NodeFails(w) \/ ActFailed(w)
    BY <2>1, <2>4, <2>5, HonestRecord, RecordTypes DEF NodeFails, ActFailed, Error
  <2>6. CASE ActUnknown(w) \/ PreconditionChanged(w)
    BY <2>1, <2>4, <2>6, HonestRecord, RecordTypes DEF ActUnknown, PreconditionChanged
  <2>7. CASE \/ \E s \in Steps : CallAct(w, s)
             \/ \E s \in Step : CallCheck(w, s) \/ CallUndo(w, s) \/ CallConfirm(w, s)
    BY <2>7, CallsVerdict, PlanSteps
  <2>8. ASSUME NEW step \in Place, UNCHANGED <<at, ok, heard>>, Goto(w, step), Save(w, copy[w]),
               UNCHANGED runFrame, Placed(copy[w], step, at[w], ok[w], heard[w])
        PROVE  VerdictInv'
    <3>1. pc'[w] = step /\ \A v \in Worker : v # w => pc'[v] = pc[v]
      BY <2>8 DEF Goto, TypeOK
    <3>2. QED
      BY <2>1, <2>8, <3>1, SaveVerdict
  <2>9. CASE RecordAct(w)
    <3>1. Placed(copy[w], "execute", at[w], ok[w], heard[w])
      BY DEF Placed
    <3>2. QED
      BY <2>8, <2>9, <3>1 DEF RecordAct, Place
  <2>10. CASE RecordUndo(w)
    <3>1. Placed(copy[w], "confirm", at[w], ok[w], heard[w])
      BY <2>1, <2>10 DEF RecordUndo, Succeeded, Placed
    <3>2. QED
      BY <2>8, <2>10, <3>1 DEF RecordUndo, Place
  <2>11. CASE RecordReading(w)
    <3>1. Placed(copy[w], "verify", at[w] + 1, ok[w] /\ Succeeded(heard[w]), heard[w])
      BY <2>1, <2>11 DEF RecordReading, Succeeded, Placed
    <3>2. QED
      BY <2>11, <3>1, NextTurnVerdict DEF RecordReading, Succeeded, Place
  <2>12. CASE UndoFailed(w)
    <3>1. Placed(copy[w], "compensate", at[w] + 1, ok[w] /\ FALSE, heard[w])
      BY <2>1, <2>12 DEF UndoFailed, Placed
    <3>2. QED
      BY <2>12, <3>1, NextTurnVerdict DEF UndoFailed, Place
  <2>13. CASE RecordConfirmation(w)
    <3>1. Placed(copy[w], "compensate", at[w] + 1, ok[w] /\ Succeeded(heard[w]), heard[w])
      BY <2>1, <2>13 DEF RecordConfirmation, Placed
    <3>2. QED
      BY <2>13, <3>1, NextTurnVerdict DEF RecordConfirmation, Succeeded, Place
  <2>14. QED
    BY <1>4, <2>2, <2>3, <2>5, <2>6, <2>7, <2>9, <2>10, <2>11, <2>12, <2>13, ExecuteVerdict,
       VerifyVerdict, CompensationVerdict, FinalizeVerdict DEF WorkerStep
<1>5. QED
  BY <1>1, <1>2, <1>3, <1>4 DEF Next

LEMMA VerdictInvariant == Spec => [](TypeOK /\ VerdictInv)
<1>1. Init => TypeOK /\ VerdictInv
  BY InitTypes, InitVerdict
<1>2. TypeOK /\ VerdictInv /\ [Next]_vars => (TypeOK /\ VerdictInv)'
  BY StepTypes, StepVerdict
<1>3. QED
  BY <1>1, <1>2, PTL DEF Spec

(* _finalize is reached through a verification of every step that passed,  *)
(* and no reading passes under a plan without a cure: whatever is lost,    *)
(* late, repeated or retried, no run of such a plan ever completes.        *)
THEOREM PlanNoPseudoSuccess == Spec => []NoPseudoSuccess
<1>1. VerdictInv => NoPseudoSuccess
  BY DEF VerdictInv, Honest, Hopeless, NoPseudoSuccess
<1>2. QED
  BY <1>1, VerdictInvariant, PTL

(* The error code of a failed verification says that the plan was rolled   *)
(* back only when nothing it did is in force, and no step that arrives     *)
(* late makes that wrong.                                                  *)
THEOREM PlanRolledBackIsRestored == Spec => []RolledBackIsRestored
<1>1. VerdictInv => RolledBackIsRestored
  BY DEF VerdictInv, Honest, Settled, Irreversible, RolledBackIsRestored
<1>2. QED
  BY <1>1, VerdictInvariant, PTL
=============================================================================
