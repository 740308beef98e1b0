------------------------------ MODULE JobQueue ------------------------------
(***************************************************************************)
(* A BullMQ 5 queue as this system uses it: attempts with backoff,         *)
(* removeOnComplete TRUE, removeOnFail FALSE.  BullMQ is a library: this   *)
(* module is what the code relies on, not a translation of it.             *)
(*                                                                         *)
(* A worker holds a job by a lock it must renew.  When it does not (it     *)
(* died, or its event loop or its connection hung), the job is handed out  *)
(* again, and the old run, if it still exists, can neither complete nor    *)
(* fail the job any more.                                                  *)
(***************************************************************************)
EXTENDS Naturals

CONSTANTS
  Jobs,         \* job ids
  Workers,      \* worker slots, over all processes
  None,         \* no worker
  MaxAttempts,  \* defaultJobOptions.attempts
  MaxStalls     \* maxStalledCount: hand-outs after a lost lock

VARIABLE jobs

Job == [state: {"none", "waiting", "active", "delayed", "removed", "failed"},
        made: 0..MaxAttempts, stalls: 0..MaxStalls + 1, lock: Workers \cup {None}]

NoJob  == [state |-> "none", made |-> 0, stalls |-> 0, lock |-> None]
NewJob == [NoJob EXCEPT !.state = "waiting"]

QueueTypeOK == jobs \in [Jobs -> Job]
QueueInit   == jobs = [j \in Jobs |-> NoJob]

Locked(j, w) == jobs[j].state = "active" /\ jobs[j].lock = w

\* add() of an id the queue still has, also as a failed job, changes nothing
Add(j) ==
  jobs' = IF jobs[j].state \in {"none", "removed"}
          THEN [jobs EXCEPT ![j] = NewJob] ELSE jobs

\* A job that lost its lock too often is failed by the worker that would
\* take it, without a run.
StalledOut(j) == jobs[j].stalls > MaxStalls

Discard(j) ==
  /\ jobs[j].state = "waiting" /\ StalledOut(j)
  /\ jobs' = [jobs EXCEPT ![j].state = "failed", ![j].made = @ + 1]

Take(j, w) ==
  /\ jobs[j].state = "waiting" /\ ~StalledOut(j)
  /\ jobs' = [jobs EXCEPT ![j].state = "active", ![j].lock = w]

Complete(j, w) ==
  jobs' = IF Locked(j, w)
          THEN [jobs EXCEPT ![j].state = "removed", ![j].lock = None] ELSE jobs

\* Seeded fault: the limit counts retries instead of attempts
LastRetry(j) == jobs[j].made >= MaxAttempts

LastAttempt(j) == jobs[j].made + 1 >= MaxAttempts

Fail(j, w) ==
  jobs' = IF Locked(j, w)
          THEN [jobs EXCEPT ![j].state = IF LastAttempt(j) THEN "failed" ELSE "delayed",
                            ![j].made = @ + 1,
                            ![j].lock = None]
          ELSE jobs

\* The backoff delay is over
Promote(j) ==
  /\ jobs[j].state = "delayed"
  /\ jobs' = [jobs EXCEPT ![j].state = "waiting"]

\* The lock was not renewed and the stalled-job check hands the job out again
Stall(j) ==
  /\ jobs[j].state = "active"
  /\ jobs' = [jobs EXCEPT ![j].state = "waiting",
                          ![j].stalls = @ + 1,
                          ![j].lock = None]

=============================================================================
