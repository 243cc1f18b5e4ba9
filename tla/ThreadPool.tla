----------------------------- MODULE ThreadPool -----------------------------
(***************************************************************************)
(* ThreadPool: workers that wait on a condition variable for jobs.  A      *)
(* worker takes a job, or falls asleep, in one critical section; addJob    *)
(* leaves the critical section before it notifies.  stop() has no caller   *)
(* in the program, so "running" stays true and is left out.                *)
(***************************************************************************)
EXTENDS Naturals, Sequences, FiniteSets

CONSTANT Worker             \* threads of the pool

ASSUME WorkerAssumption == IsFiniteSet(Worker)

VARIABLES worker,           \* where each thread is
          jobQueue,
          owed              \* notifications due by callers past their push

poolVars == <<worker, jobQueue, owed>>

Workers(state) == {w \in Worker : worker[w] = state}

PoolInit ==
    /\ worker = [w \in Worker |-> "ready"]
    /\ jobQueue = <<>>
    /\ owed = 0

\* Fault: the notification comes before the push, when it wakes nobody.
FaultyAddJob(job) ==
    /\ jobQueue' = Append(jobQueue, job)
    /\ UNCHANGED <<worker, owed>>

\* addJob up to the unlocking of queueMutex.
AddJob(job) ==
    /\ jobQueue' = Append(jobQueue, job)
    /\ owed' = owed + 1
    /\ UNCHANGED worker

\* notify_one: wakes one of those asleep, if any.
Notify ==
    /\ owed > 0
    /\ owed' = owed - 1
    /\ IF Workers("asleep") = {}
       THEN UNCHANGED worker
       ELSE \E w \in Workers("asleep") : worker' = [worker EXCEPT ![w] = "ready"]
    /\ UNCHANGED jobQueue

\* The critical section of loop(), at its beginning or after a wake-up.
TakeOrSleep(w) ==
    /\ worker[w] = "ready"
    /\ IF jobQueue = <<>>
       THEN /\ worker' = [worker EXCEPT ![w] = "asleep"]
            /\ UNCHANGED jobQueue
       ELSE /\ worker' = [worker EXCEPT ![w] = "job"]
            /\ jobQueue' = Tail(jobQueue)
    /\ UNCHANGED owed

\* A condition variable may wake its waiters for no reason.
WakeUp(w) ==
    /\ worker[w] = "asleep"
    /\ worker' = [worker EXCEPT ![w] = "ready"]
    /\ UNCHANGED <<jobQueue, owed>>

\* job() returns and the loop begins anew.
JobEnd(w) ==
    /\ worker[w] = "job"
    /\ worker' = [worker EXCEPT ![w] = "ready"]
    /\ UNCHANGED <<jobQueue, owed>>

\* No wake-up is lost: while a thread sleeps, every job in the queue is going
\* to be seen by a thread that is awake or about to be woken.
NoLostWakeup ==
    Workers("asleep") # {} => Len(jobQueue) <= owed + Cardinality(Workers("ready"))

=============================================================================
