------------------------------ MODULE AtomicRun ------------------------------
(***************************************************************************)
(* What the durable store promises its callers, without saying how: every  *)
(* accepted save of a run is one atomic read-modify-write of the latest    *)
(* record, a job is granted to one worker after another, and a save made   *)
(* under a job belongs to the newest grant of that job.                    *)
(***************************************************************************)
EXTENDS Naturals

CONSTANTS
  Run,      \* run ids
  Job,      \* job ids
  RunOf     \* the run each job works on

VARIABLES
  version,  \* number of accepted saves of each run
  content,  \* the saves whose changes the latest record contains
  epoch,    \* how often each job was granted
  author,   \* the epoch of the last accepted save made under each job
  closed    \* jobs that ended

vars == <<version, content, epoch, author, closed>>

Init ==
  /\ version = [r \in Run |-> 0]
  /\ content = [r \in Run |-> {}]
  /\ epoch = [j \in Job |-> 0]
  /\ author = [j \in Job |-> 0]
  /\ closed = {}

(* The new record is the latest one plus the change made by this save. *)
Extend(r) ==
  /\ version' = [version EXCEPT ![r] = @ + 1]
  /\ content' = [content EXCEPT ![r] = @ \union {version[r] + 1}]

Commit(r) ==
  /\ Extend(r)
  /\ UNCHANGED <<epoch, author, closed>>

LeasedCommit(j) ==
  /\ j \notin closed
  /\ Extend(RunOf[j])
  /\ author' = [author EXCEPT ![j] = epoch[j]]
  /\ UNCHANGED <<epoch, closed>>

Grant(j) ==
  /\ j \notin closed
  /\ epoch' = [epoch EXCEPT ![j] = @ + 1]
  /\ UNCHANGED <<version, content, author, closed>>

Close(j) ==
  /\ closed' = closed \union {j}
  /\ UNCHANGED <<version, content, epoch, author>>

Next ==
  \/ \E r \in Run : Commit(r)
  \/ \E j \in Job : LeasedCommit(j) \/ Grant(j) \/ Close(j)

Spec == Init /\ [][Next]_vars
==============================================================================
