------------------------------ MODULE JobTable ------------------------------
(***************************************************************************)
(* The rows of the store's two tables and the statements that change them: *)
(* agent_jobs, the lease queue, and the version column of agent_runs.      *)
(* Each operator is one SQL transaction of store.py; the SQLite and the    *)
(* PostgreSQL store implement the same statements.                         *)
(*                                                                         *)
(* Time is counted down, not up: `lease` is the number of ticks for which  *)
(* lease_until > now still holds, `delay` the number of ticks until        *)
(* available_at <= now.                                                    *)
(***************************************************************************)
EXTENDS Integers

CONSTANTS
  Worker,       \* worker identities (stable across a worker's restart)
  None,         \* SQL NULL
  LeaseTerm,    \* ticks of a fresh lease
  Backoff,      \* attempts -> ticks before a requeued job is available
  MaxAttempts   \* claims after which an exception ends the job (3)

ASSUME NoneAssumption == None \notin Worker
ASSUME TermAssumption == LeaseTerm \in Nat \ {0}
ASSUME AttemptsAssumption == MaxAttempts \in Nat \ {0}
ASSUME BackoffAssumption == Backoff \in [1..MaxAttempts -> Nat]

Ended == {"SUCCEEDED", "FAILED"}
JobStatus == {"ABSENT", "QUEUED", "CLAIMED"} \union Ended

Row == [status: JobStatus, owner: Worker \union {None},
        token: Nat, attempts: Nat, lease: Nat, delay: Nat]

(* No row with this id yet. *)
AbsentRow == [status |-> "ABSENT", owner |-> None,
              token |-> 0, attempts |-> 0, lease |-> 0, delay |-> 0]

EnqueuedRow == [AbsentRow EXCEPT !.status = "QUEUED"]

(* Mutant: the job of a dead worker is never taken up again. *)
NeverLapsed(row) == FALSE

(* claim_job's WHERE clause. *)
Lapsed(row) == row.status = "CLAIMED" /\ row.lease = 0
Available(row) == row.status = "QUEUED" /\ row.delay = 0

ClaimedRow(row, w) ==
  [row EXCEPT !.status = "CLAIMED", !.owner = w, !.token = @ + 1,
              !.attempts = @ + 1, !.lease = LeaseTerm]

(* The fence of finish_job and requeue_job: this grant is still the newest,*)
(* whether or not its lease has run out.                                   *)
Owns(row, w, token) ==
  row.status = "CLAIMED" /\ row.owner = w /\ row.token = token

(* Mutant: a lease without a fence, anybody's will do. *)
LeasedUnfenced(row, w, token) == row.status = "CLAIMED" /\ row.lease > 0

(* The fence of heartbeat_job and save_run_with_lease: the lease also runs.*)
Leased(row, w, token) == Owns(row, w, token) /\ row.lease > 0

RenewedRow(row) == [row EXCEPT !.lease = LeaseTerm]

(* finish_job keeps the owner, requeue_job clears it. *)
FinishedRow(row, status) == [row EXCEPT !.status = status, !.lease = 0]

RequeuedRow(row, wait) ==
  [row EXCEPT !.status = "QUEUED", !.owner = None, !.lease = 0,
              !.delay = wait]

(* One tick of the wall clock, for one row. *)
DownPastZero(n) == n - 1   \* mutant: a deadline in the past keeps counting

Down(n) == IF n > 0 THEN n - 1 ELSE 0
AgedRow(row) == [row EXCEPT !.lease = Down(@), !.delay = Down(@)]
=============================================================================
