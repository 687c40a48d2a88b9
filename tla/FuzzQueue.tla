----------------------------- MODULE FuzzQueue -----------------------------
(***************************************************************************)
(* The background fuzz queue of the service: recalls whose answer is       *)
(* uncertain nominate an audit, at most one per question and snapshot and  *)
(* not again within a cooldown; one worker runs the audits when no recall  *)
(* is active.                                                              *)
(*                                                                         *)
(* The dedup table and the counters are guarded by one mutex; the channel, *)
(* the clock, the count of active recalls and the snapshot are read        *)
(* outside it, so each access is a step.  An audit is abstracted to its    *)
(* verdict.  Every mutation of the store advances the runtime version, so  *)
(* snapshots are compared by it.                                           *)
(***************************************************************************)
EXTENDS Naturals, Sequences, FiniteSets

CONSTANTS
  Callers,      \* goroutines that serve recall requests
  Questions,    \* query digest and frontier of a recall
  Capacity,     \* QueueCapacity
  Cooldown,     \* Cooldown
  MaxRecalls,   \* bound: recalls served
  MaxVersion,   \* bound: mutations of the store
  MaxClock      \* bound: clock ticks

ASSUME FuzzAssumption ==
  /\ Capacity \in Nat \ {0} /\ Cooldown \in Nat
  /\ MaxRecalls \in Nat /\ MaxVersion \in Nat /\ MaxClock \in Nat

VARIABLES
  clock,    \* wall clock
  version,  \* runtime version of the store
  active,   \* activeRecalls
  callers,  \* recalls in progress
  marks,    \* dedup: job -> until when it is suppressed
  jobs,     \* the channel
  worker,   \* the worker goroutine
  closed,   \* the queue's context is cancelled
  total     \* the counters of Status

fuzzVars == <<clock, version, active, callers, marks, jobs, worker, closed, total>>

\* The zero time: suppressed until the audit is over.
Zero == [open |-> TRUE, at |-> 0]
Until(t) == [open |-> FALSE, at |-> t]

NoJob == [question |-> "none", version |-> 0]

Verdicts == {"completed", "failed", "stale"}
Totals == Verdicts \cup {"recalls", "enqueued", "dropped", "deduplicated"}

Idle == [at |-> "idle", job |-> NoJob, now |-> 0]
Waiting == [at |-> "wait", job |-> NoJob, seen |-> 0, verdict |-> "completed",
            completedAt |-> 0]

Without(f, x) == [y \in DOMAIN f \ {x} |-> f[y]]
With(f, x, v) == [y \in DOMAIN f \cup {x} |-> IF y = x THEN v ELSE f[y]]
Counted(t) == [total EXCEPT ![t] = @ + 1]

-----------------------------------------------------------------------------
(* A recall: Recall, nominateBackgroundFuzz and Enqueue. *)

Begin(c) ==
  /\ callers[c].at = "idle" /\ total["recalls"] < MaxRecalls
  /\ active' = active + 1
  /\ callers' = [callers EXCEPT ![c].at = "recall"]
  /\ total' = Counted("recalls")
  /\ UNCHANGED <<clock, version, marks, jobs, worker, closed>>

\* backgroundFuzzDedupKey: a job is the question it repeats (tenant, query and
\* frontier) and the snapshot the recall captured.
Job(q) == [question |-> q, version |-> version]

\* The recall captures its snapshot; its packet turns out uncertain.
CaptureJob(c, q) ==
  /\ callers[c].at = "recall"
  /\ callers' = [callers EXCEPT ![c].at = "nominate",
                   ![c].job = Job(q)]
  /\ UNCHANGED <<clock, version, active, marks, jobs, worker, closed, total>>

\* The packet is certain enough, or the recall failed.
Certain(c) ==
  /\ callers[c].at = "recall"
  /\ callers' = [callers EXCEPT ![c].at = "return"]
  /\ UNCHANGED <<clock, version, active, marks, jobs, worker, closed, total>>

\* Enqueue reads the clock before it takes the lock.
ReadClock(c) ==
  /\ callers[c].at = "nominate"
  /\ callers' = [callers EXCEPT ![c].at = "lock", ![c].now = clock]
  /\ UNCHANGED <<clock, version, active, marks, jobs, worker, closed, total>>

\* Fault: marks without a time are purged too.
PurgedAll(now) ==
  [j \in {k \in DOMAIN marks : now < marks[k].at} |-> marks[j]]

\* The table without the marks that have run out.
Purged(now) ==
  [j \in {k \in DOMAIN marks : marks[k].open \/ now < marks[k].at} |-> marks[j]]

Mark(c) ==
  LET job == callers[c].job
      purged == Purged(callers[c].now)
      known == job \in DOMAIN purged
  IN /\ callers[c].at = "lock"
     /\ marks' = IF known THEN purged ELSE With(purged, job, Zero)
     /\ total' = IF known THEN Counted("deduplicated") ELSE total
     /\ callers' = [callers EXCEPT ![c].at = IF known THEN "return" ELSE "send"]
     /\ UNCHANGED <<clock, version, active, jobs, worker, closed>>

\* The channel takes the job, or is full.
Send(c) ==
  LET fits == Len(jobs) < Capacity
  IN /\ callers[c].at = "send"
     /\ jobs' = IF fits THEN Append(jobs, callers[c].job) ELSE jobs
     /\ callers' = [callers EXCEPT ![c].at = IF fits THEN "sent" ELSE "full"]
     /\ UNCHANGED <<clock, version, active, marks, worker, closed, total>>

CountSent(c) ==
  /\ callers[c].at = "sent"
  /\ total' = Counted("enqueued")
  /\ callers' = [callers EXCEPT ![c].at = "return"]
  /\ UNCHANGED <<clock, version, active, marks, jobs, worker, closed>>

Drop(c) ==
  /\ callers[c].at = "full"
  /\ marks' = Without(marks, callers[c].job)
  /\ total' = Counted("dropped")
  /\ callers' = [callers EXCEPT ![c].at = "return"]
  /\ UNCHANGED <<clock, version, active, jobs, worker, closed>>

\* Fault: a recall that nominated nothing stays counted as active.
ReturnLeaking(c) ==
  /\ callers[c].at = "return"
  /\ active' = IF callers[c].job = NoJob THEN active ELSE active - 1
  /\ callers' = [callers EXCEPT ![c] = Idle]
  /\ UNCHANGED <<clock, version, marks, jobs, worker, closed, total>>

\* The deferred decrement of Recall.
Return(c) ==
  /\ callers[c].at = "return"
  /\ active' = active - 1
  /\ callers' = [callers EXCEPT ![c] = Idle]
  /\ UNCHANGED <<clock, version, marks, jobs, worker, closed, total>>

-----------------------------------------------------------------------------
(* The worker: run, execute and executeBackgroundFuzz. *)

\* A tick while no recall is active takes the oldest job.
Tick ==
  /\ worker.at = "wait" /\ active = 0 /\ jobs # <<>>
  /\ jobs' = Tail(jobs)
  /\ worker' = [Waiting EXCEPT !.at = "check", !.job = Head(jobs)]
  /\ UNCHANGED <<clock, version, active, callers, marks, closed, total>>

\* The audit is over; the time of the result is read before the lock.
Decide(verdict) ==
  /\ worker' = [worker EXCEPT !.at = "finish", !.verdict = verdict,
                  !.completedAt = clock]
  /\ UNCHANGED <<clock, version, active, callers, marks, jobs, closed, total>>

CheckSnapshot ==
  /\ worker.at = "check"
  /\ IF version = worker.job.version
     THEN /\ worker' = [worker EXCEPT !.at = "read"]
          /\ UNCHANGED <<clock, version, active, callers, marks, jobs, closed,
                         total>>
     ELSE Decide("stale")

\* getEventsForAnalysis
ReadEvents ==
  /\ worker.at = "read"
  /\ worker' = [worker EXCEPT !.at = "recheck", !.seen = version]
  /\ UNCHANGED <<clock, version, active, callers, marks, jobs, closed, total>>

\* An error of the store or the evaluation, a timeout, or a cancelled context.
AuditFails ==
  /\ worker.at \in {"read", "recheck"}
  /\ Decide("failed")

\* Fault: the snapshot is compared only before the events are read.
RecheckNothing == worker.at = "recheck" /\ Decide("completed")

\* The evaluation succeeded; the snapshot is compared once more.
Recheck ==
  /\ worker.at = "recheck"
  /\ Decide(IF version = worker.job.version THEN "completed" ELSE "stale")

Finish ==
  /\ worker.at = "finish"
  /\ marks' = With(marks, worker.job, Until(worker.completedAt + Cooldown))
  /\ total' = Counted(worker.verdict)
  /\ worker' = Waiting
  /\ UNCHANGED <<clock, version, active, callers, jobs, closed>>

\* The worker leaves; jobs still in the channel are not served.
Stop ==
  /\ worker.at = "wait" /\ closed
  /\ worker' = [Waiting EXCEPT !.at = "stopped"]
  /\ UNCHANGED <<clock, version, active, callers, marks, jobs, closed, total>>

-----------------------------------------------------------------------------
(* The environment. *)

\* Close cancels the context of the queue; recalls may still be in progress.
Close ==
  /\ ~closed /\ closed' = TRUE
  /\ UNCHANGED <<clock, version, active, callers, marks, jobs, worker, total>>

\* Any mutation of the store.
Mutate ==
  /\ version < MaxVersion /\ version' = version + 1
  /\ UNCHANGED <<clock, active, callers, marks, jobs, worker, closed, total>>

TimePasses ==
  /\ clock < MaxClock /\ clock' = clock + 1
  /\ UNCHANGED <<version, active, callers, marks, jobs, worker, closed, total>>

-----------------------------------------------------------------------------
FuzzInit ==
  /\ clock = 0 /\ version = 0 /\ active = 0
  /\ callers = [c \in Callers |-> Idle]
  /\ marks = [j \in {} |-> Zero]
  /\ jobs = <<>>
  /\ worker = Waiting
  /\ closed = FALSE
  /\ total = [t \in Totals |-> 0]

CallerStep(c) ==
  \/ \E q \in Questions : CaptureJob(c, q)
  \/ Certain(c) \/ ReadClock(c) \/ Mark(c) \/ Send(c) \/ CountSent(c) \/ Drop(c)
  \/ Return(c)

WorkerStep ==
  Tick \/ CheckSnapshot \/ ReadEvents \/ AuditFails \/ Recheck \/ Finish \/ Stop

FuzzNext ==
  \/ \E c \in Callers : Begin(c) \/ CallerStep(c)
  \/ WorkerStep \/ Close \/ Mutate \/ TimePasses

FuzzSpec == FuzzInit /\ [][FuzzNext]_fuzzVars

-----------------------------------------------------------------------------
(* Properties. *)

Queued(j) == {i \in DOMAIN jobs : jobs[i] = j}
Held(j) == worker.at \in {"check", "read", "recheck", "finish"} /\ worker.job = j
Sending(j) == {c \in Callers : callers[c].at \in {"send", "full"} /\ callers[c].job = j}

Copies(j) ==
  Cardinality(Queued(j)) + Cardinality(Sending(j)) + (IF Held(j) THEN 1 ELSE 0)

\* The bookkeeping of Enqueue and execute: an audit is marked without a time
\* exactly while one job for it is being sent, queued, run or dropped, so no
\* audit is suppressed for ever and none is in the system twice.
MarkedAlive ==
  \A j \in DOMAIN marks \cup {jobs[i] : i \in DOMAIN jobs} \cup {worker.job} :
    Copies(j) = IF j \in DOMAIN marks /\ marks[j].open THEN 1 ELSE 0

\* executeBackgroundFuzz: a completed audit read its events under the very
\* snapshot that nominated them.
AuditConsistent ==
  worker.at = "finish" /\ worker.verdict = "completed"
    => worker.seen = worker.job.version

\* Once recalls stop coming, every queued job is taken, unless the queue is
\* closed first.
JobsServed == (jobs # <<>>) ~> (jobs = <<>> \/ closed)
=============================================================================
