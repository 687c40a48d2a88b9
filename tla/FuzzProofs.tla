----------------------------- MODULE FuzzProofs -----------------------------
(***************************************************************************)
(* Theorems about FuzzQueue, for any callers, questions, capacity and      *)
(* cooldown: an audit is suppressed without a time exactly while one job   *)
(* for it is under way, and a completed audit is of one snapshot.          *)
(*                                                                         *)
(* The argument: a job is with a caller that sends it or is about to drop  *)
(* it, in the channel, or with the worker.  Wherever it is, its mark is    *)
(* open; no two places hold the same job; and an open mark has its job     *)
(* somewhere.                                                              *)
(***************************************************************************)
EXTENDS FuzzQueue, FiniteSetTheorems, TLAPS

AnyJob == [question : Questions \cup {"none"}, version : Nat]

CallerAt == {"idle", "recall", "nominate", "lock", "send", "sent", "full", "return"}
WorkerAt == {"wait", "check", "read", "recheck", "finish", "stopped"}

FuzzTypeOK ==
  /\ version \in Nat
  /\ callers \in [Callers -> [at : CallerAt, job : AnyJob, now : Nat]]
  /\ jobs \in Seq(AnyJob)
  /\ worker \in [at : WorkerAt, job : AnyJob, seen : Nat, verdict : Verdicts, completedAt : Nat]
  /\ clock \in Nat

\* The places of a job.
Sends(c) == callers[c].at \in {"send", "full"}
Busy == worker.at \in {"check", "read", "recheck", "finish"}

Opened(j) == j \in DOMAIN marks /\ marks[j].open

\* A job under way is marked without a time.
JobsMarked ==
  /\ \A c \in Callers : Sends(c) => Opened(callers[c].job)
  /\ \A i \in 1..Len(jobs) : Opened(jobs[i])
  /\ Busy => Opened(worker.job)

\* No two places hold the same job.
JobsApart ==
  /\ \A c, d \in Callers : Sends(c) /\ Sends(d) /\ callers[c].job = callers[d].job => c = d
  /\ \A i, k \in 1..Len(jobs) : jobs[i] = jobs[k] => i = k
  /\ \A c \in Callers : Sends(c) => \A i \in 1..Len(jobs) : callers[c].job # jobs[i]
  /\ \A c \in Callers : Sends(c) /\ Busy => callers[c].job # worker.job
  /\ Busy => \A i \in 1..Len(jobs) : jobs[i] # worker.job

\* A job is somewhere.
Somewhere(j) ==
  \/ \E c \in Callers : Sends(c) /\ callers[c].job = j
  \/ \E i \in 1..Len(jobs) : jobs[i] = j
  \/ Busy /\ worker.job = j

\* An open mark has its job.
MarksUsed == \A j \in DOMAIN marks : Opened(j) => Somewhere(j)

FuzzInv == FuzzTypeOK /\ JobsMarked /\ JobsApart /\ MarksUsed

-----------------------------------------------------------------------------

\* The invariant holds before the first recall.
LEMMA FuzzStarts == FuzzInit => FuzzInv
<1> SUFFICES ASSUME FuzzInit PROVE FuzzInv
  OBVIOUS
<1>1. FuzzTypeOK
  BY DEF FuzzInit, FuzzTypeOK, Idle, Waiting, NoJob, AnyJob, CallerAt, WorkerAt, Verdicts
<1>2. (\A c \in Callers : ~Sends(c)) /\ ~Busy /\ Len(jobs) = 0 /\ DOMAIN marks = {}
  BY DEF FuzzInit, Sends, Busy, Idle, Waiting
<1> QED BY <1>1, <1>2 DEF FuzzInv, JobsMarked, JobsApart, MarksUsed

\* A step of a caller that is at none of the places, before and after, and
\* touches no open mark.
LEMMA CallerElsewhere ==
  ASSUME FuzzInv, NEW c \in Callers, ~Sends(c), ~Sends(c)', FuzzTypeOK',
         \A d \in Callers \ {c} : callers'[d] = callers[d],
         UNCHANGED <<jobs, worker>>,
         \A j : Opened(j)' <=> Opened(j)
  PROVE  FuzzInv'
<1>1. \A d \in Callers : /\ Sends(d)' <=> Sends(d)
                         /\ Sends(d) => callers'[d] = callers[d]
  BY DEF Sends
<1>2. Busy' <=> Busy
  BY DEF Busy
<1>3. JobsMarked'
  BY <1>1, <1>2 DEF FuzzInv, JobsMarked
<1>4. JobsApart'
  BY <1>1, <1>2 DEF FuzzInv, JobsApart
<1>5. \A j : Somewhere(j) => Somewhere(j)'
  BY <1>1, <1>2 DEF Somewhere
<1>6. MarksUsed'
  BY <1>5 DEF FuzzInv, MarksUsed, Opened
<1> QED BY <1>3, <1>4, <1>6 DEF FuzzInv

CallersType == [Callers -> [at : CallerAt, job : AnyJob, now : Nat]]

\* A caller goes on with the job it has.
LEMMA CallerMoves ==
  ASSUME FuzzTypeOK, NEW c \in Callers, NEW at \in CallerAt,
         callers' = [callers EXCEPT ![c].at = at]
  PROVE  /\ callers' \in CallersType
         /\ callers'[c].at = at /\ callers'[c].job = callers[c].job
         /\ \A d \in Callers \ {c} : callers'[d] = callers[d]
BY DEF FuzzTypeOK, CallersType

\* The steps of a recall outside the queue.
LEMMA RecallStepsKeep ==
  ASSUME FuzzInv, NEW c \in Callers,
         \/ Begin(c) \/ (\E q \in Questions : CaptureJob(c, q)) \/ Certain(c)
         \/ ReadClock(c) \/ CountSent(c) \/ Return(c)
  PROVE  FuzzInv'
<1>0. FuzzTypeOK /\ UNCHANGED <<clock, version, marks, jobs, worker>>
  BY DEF FuzzInv, Begin, CaptureJob, Certain, ReadClock, CountSent, Return
<1>1. ASSUME callers' \in CallersType, \A d \in Callers \ {c} : callers'[d] = callers[d],
             ~Sends(c), ~Sends(c)'
      PROVE  FuzzInv'
  <2>1. FuzzTypeOK'
    BY <1>0, <1>1 DEF FuzzTypeOK, CallersType
  <2>2. \A j : Opened(j)' <=> Opened(j)
    BY <1>0 DEF Opened
  <2> QED BY <1>0, <1>1, <2>1, <2>2, CallerElsewhere
<1>2. ASSUME NEW at \in CallerAt \ {"send", "full"}, callers' = [callers EXCEPT ![c].at = at],
             ~Sends(c)
      PROVE  FuzzInv'
  <2>1. /\ callers' \in CallersType /\ callers'[c].at = at
        /\ \A d \in Callers \ {c} : callers'[d] = callers[d]
    BY <1>0, <1>2, CallerMoves
  <2> QED BY <1>1, <1>2, <2>1 DEF Sends
<1>3. CASE Begin(c)
  BY <1>2, <1>3 DEF Begin, Sends, CallerAt
<1>4. ASSUME NEW q \in Questions, CaptureJob(c, q) PROVE FuzzInv'
  <2>1. Job(q) \in AnyJob
    BY <1>0 DEF Job, AnyJob, FuzzTypeOK
  <2>2. /\ callers' \in CallersType /\ callers'[c].at = "nominate"
        /\ \A d \in Callers \ {c} : callers'[d] = callers[d]
    BY <1>0, <1>4, <2>1 DEF CaptureJob, FuzzTypeOK, CallersType, CallerAt
  <2> QED BY <1>1, <1>4, <2>2 DEF CaptureJob, Sends
<1>5. CASE Certain(c)
  BY <1>2, <1>5 DEF Certain, Sends, CallerAt
<1>6. CASE ReadClock(c)
  <2>1. /\ callers' \in CallersType /\ callers'[c].at = "lock"
        /\ \A d \in Callers \ {c} : callers'[d] = callers[d]
    BY <1>0, <1>6 DEF ReadClock, FuzzTypeOK, CallersType, CallerAt
  <2> QED BY <1>1, <1>6, <2>1 DEF ReadClock, Sends
<1>7. CASE CountSent(c)
  BY <1>2, <1>7 DEF CountSent, Sends, CallerAt
<1>8. CASE Return(c)
  <2>1. Idle \in [at : CallerAt, job : AnyJob, now : Nat] /\ Idle.at = "idle"
    BY DEF Idle, NoJob, AnyJob, CallerAt
  <2>2. /\ callers' \in CallersType /\ callers'[c].at = "idle"
        /\ \A d \in Callers \ {c} : callers'[d] = callers[d]
    BY <1>0, <1>8, <2>1 DEF Return, FuzzTypeOK, CallersType
  <2> QED BY <1>1, <1>8, <2>2 DEF Return, Sends
<1> QED BY <1>3, <1>4, <1>5, <1>6, <1>7, <1>8

\* Enqueue's table: a new mark is for a job that is nowhere.
LEMMA MarkKeeps ==
  ASSUME FuzzInv, NEW c \in Callers, Mark(c)
  PROVE  FuzzInv'
<1> DEFINE job == callers[c].job
           purged == Purged(callers[c].now)
<1>0. FuzzTypeOK /\ callers[c].at = "lock" /\ ~Sends(c)
      /\ UNCHANGED <<clock, version, jobs, worker>>
  BY DEF FuzzInv, Mark, Sends
<1>1. /\ \A j : Opened(j) <=> j \in DOMAIN purged /\ purged[j].open
  BY DEF Opened, Purged
<1>2. CASE job \in DOMAIN purged
  <2>1. marks' = purged /\ callers' = [callers EXCEPT ![c].at = "return"]
    BY <1>2 DEF Mark
  <2>2. /\ callers' \in CallersType /\ callers'[c].at = "return"
        /\ \A d \in Callers \ {c} : callers'[d] = callers[d]
    BY <1>0, <2>1, CallerMoves DEF CallerAt
  <2>4. FuzzTypeOK' /\ ~Sends(c)'
    BY <1>0, <2>2 DEF FuzzTypeOK, CallersType, Sends
  <2>5. \A j : Opened(j)' <=> Opened(j)
    BY <1>1, <2>1 DEF Opened
  <2> QED BY <1>0, <2>2, <2>4, <2>5, CallerElsewhere
<1>3. CASE job \notin DOMAIN purged
  <2>1. marks' = With(purged, job, Zero) /\ callers' = [callers EXCEPT ![c].at = "send"]
    BY <1>3 DEF Mark
  <2>2. /\ callers' \in CallersType /\ callers'[c].at = "send" /\ callers'[c].job = job
        /\ \A d \in Callers \ {c} : callers'[d] = callers[d]
    BY <1>0, <2>1, CallerMoves DEF CallerAt
  <2>4. /\ FuzzTypeOK' /\ callers'[c].at = "send" /\ callers'[c].job = job
        /\ \A d \in Callers \ {c} : callers'[d] = callers[d]
    BY <1>0, <2>2 DEF FuzzTypeOK, CallersType
  <2>5. /\ ~Opened(job)
        /\ \A j : Opened(j)' <=> j = job \/ Opened(j)
    BY <1>1, <1>3, <2>1 DEF Opened, With, Zero
  <2> HIDE DEF job, purged
  <2>6. /\ Sends(c)' /\ (Busy' <=> Busy)
        /\ \A d \in Callers \ {c} : Sends(d)' <=> Sends(d)
    BY <1>0, <2>4 DEF Sends, Busy
  <2>7. JobsMarked'
    BY <1>0, <2>4, <2>5, <2>6 DEF FuzzInv, JobsMarked
  <2>8. JobsApart'
    BY <1>0, <2>4, <2>5, <2>6 DEF FuzzInv, JobsMarked, JobsApart
  <2>9. \A j : Somewhere(j) => Somewhere(j)'
    BY <1>0, <2>4, <2>6 DEF Somewhere
  <2>10. \A j : j = job => Somewhere(j)'
    BY <2>4, <2>6 DEF Somewhere
  <2>11. MarksUsed'
    BY <2>5, <2>9, <2>10 DEF FuzzInv, MarksUsed, Opened
  <2> QED BY <2>4, <2>7, <2>8, <2>11 DEF FuzzInv
<1> QED BY <1>2, <1>3

\* The channel: the job moves there, or stays with the caller that drops it.
LEMMA SendKeeps ==
  ASSUME FuzzInv, NEW c \in Callers, Send(c)
  PROVE  FuzzInv'
<1> DEFINE job == callers[c].job
<1>0. /\ FuzzTypeOK /\ Sends(c) /\ UNCHANGED <<clock, version, marks, worker>>
      /\ (Busy' <=> Busy) /\ jobs \in Seq(AnyJob) /\ Len(jobs) \in Nat /\ job \in AnyJob
  BY DEF FuzzInv, FuzzTypeOK, Send, Sends, Busy
<1>1. \A j : Opened(j)' <=> Opened(j)
  BY <1>0 DEF Opened
<1>2. CASE Len(jobs) < Capacity
  <2>1. jobs' = Append(jobs, job) /\ callers' = [callers EXCEPT ![c].at = "sent"]
    BY <1>2 DEF Send
  <2>2. /\ callers' \in CallersType /\ callers'[c].at = "sent"
        /\ \A d \in Callers \ {c} : callers'[d] = callers[d]
    BY <1>0, <2>1, CallerMoves DEF CallerAt
  <2>3. /\ jobs' \in Seq(AnyJob) /\ Len(jobs') = Len(jobs) + 1
        /\ jobs'[Len(jobs) + 1] = job /\ \A i \in 1..Len(jobs) : jobs'[i] = jobs[i]
    BY <1>0, <2>1
  <2>4. FuzzTypeOK'
    BY <1>0, <2>2, <2>3 DEF FuzzTypeOK, CallersType
  <2>5. ~Sends(c)' /\ \A d \in Callers \ {c} : Sends(d)' <=> Sends(d)
    BY <2>2 DEF Sends
  <2>6. \A i \in 1..Len(jobs') : \/ i = Len(jobs) + 1 /\ jobs'[i] = job
                                 \/ i \in 1..Len(jobs) /\ jobs'[i] = jobs[i]
    BY <1>0, <2>3
  <2>7. JobsMarked'
    BY <1>0, <1>1, <2>2, <2>5, <2>6 DEF FuzzInv, JobsMarked
  <2>8. JobsApart'
    <3>1. \A d \in Callers \ {c} : Sends(d) => callers[d].job # job
      BY <1>0 DEF FuzzInv, JobsApart
    <3>2. /\ \A i \in 1..Len(jobs) : jobs[i] # job
          /\ Busy => worker.job # job
      BY <1>0 DEF FuzzInv, JobsApart
    <3>3. \A i, k \in 1..Len(jobs') : jobs'[i] = jobs'[k] => i = k
      BY <2>6, <3>2 DEF FuzzInv, JobsApart
    <3>4. \A d, e \in Callers : (Sends(d) /\ Sends(e))' /\ callers'[d].job = callers'[e].job => d = e
      BY <2>2, <2>5 DEF FuzzInv, JobsApart
    <3>5. \A d \in Callers : Sends(d)' => \A i \in 1..Len(jobs') : callers'[d].job # jobs'[i]
      BY <2>2, <2>5, <2>6, <3>1 DEF FuzzInv, JobsApart
    <3>6. \A d \in Callers : Sends(d)' /\ Busy' => callers'[d].job # worker'.job
      BY <1>0, <2>2, <2>5 DEF FuzzInv, JobsApart
    <3>7. Busy' => \A i \in 1..Len(jobs') : jobs'[i] # worker'.job
      BY <1>0, <2>6, <3>2 DEF FuzzInv, JobsApart
    <3> QED BY <3>3, <3>4, <3>5, <3>6, <3>7 DEF JobsApart
  <2>9. ASSUME NEW j, Somewhere(j) PROVE Somewhere(j)'
    <3>1. CASE j = job
      <4>1. Len(jobs) + 1 \in 1..Len(jobs')
        BY <1>0, <2>3
      <4> QED BY <2>3, <3>1, <4>1 DEF Somewhere
    <3>2. CASE j # job /\ \E d \in Callers : Sends(d) /\ callers[d].job = j
      <4>1. PICK d \in Callers \ {c} : Sends(d) /\ callers[d].job = j
        BY <3>2
      <4> QED BY <2>2, <2>5, <4>1 DEF Somewhere
    <3>3. CASE \E i \in 1..Len(jobs) : jobs[i] = j
      <4>1. PICK i \in 1..Len(jobs) : jobs[i] = j
        BY <3>3
      <4>2. i \in 1..Len(jobs') /\ jobs'[i] = j
        BY <1>0, <2>3, <4>1
      <4> QED BY <4>2 DEF Somewhere
    <3>4. CASE Busy /\ worker.job = j
      BY <1>0, <3>4 DEF Somewhere
    <3> QED BY <2>9, <3>1, <3>2, <3>3, <3>4 DEF Somewhere
  <2>10. MarksUsed'
    BY <1>0, <1>1, <2>9 DEF FuzzInv, MarksUsed
  <2> QED BY <2>4, <2>7, <2>8, <2>10 DEF FuzzInv
<1>3. CASE ~(Len(jobs) < Capacity)
  <2>1. UNCHANGED jobs /\ callers' = [callers EXCEPT ![c].at = "full"]
    BY <1>3 DEF Send
  <2>2. /\ callers' \in CallersType /\ callers'[c].at = "full" /\ callers'[c].job = job
        /\ \A d \in Callers \ {c} : callers'[d] = callers[d]
    BY <1>0, <2>1, CallerMoves DEF CallerAt
  <2>3. FuzzTypeOK'
    BY <1>0, <2>1, <2>2 DEF FuzzTypeOK, CallersType
  <2>4. \A d \in Callers : (Sends(d)' <=> Sends(d)) /\ callers'[d].job = callers[d].job
    BY <1>0, <2>2 DEF Sends
  <2>5. JobsMarked' /\ JobsApart'
    BY <1>0, <1>1, <2>1, <2>4 DEF FuzzInv, JobsMarked, JobsApart
  <2>6. \A j : Somewhere(j) => Somewhere(j)'
    BY <1>0, <2>1, <2>4 DEF Somewhere
  <2>7. MarksUsed'
    BY <1>0, <1>1, <2>6 DEF FuzzInv, MarksUsed
  <2> QED BY <2>3, <2>5, <2>7 DEF FuzzInv
<1> QED BY <1>2, <1>3

\* A dropped job leaves no mark and no copy.
LEMMA DropKeeps ==
  ASSUME FuzzInv, NEW c \in Callers, Drop(c)
  PROVE  FuzzInv'
<1> DEFINE job == callers[c].job
<1>0. /\ FuzzTypeOK /\ Sends(c) /\ UNCHANGED <<clock, version, jobs, worker>>
      /\ (Busy' <=> Busy) /\ marks' = Without(marks, job)
      /\ callers' = [callers EXCEPT ![c].at = "return"]
  BY DEF FuzzInv, Drop, Sends, Busy
<1>1. /\ callers' \in CallersType /\ callers'[c].at = "return"
      /\ \A d \in Callers \ {c} : callers'[d] = callers[d]
  BY <1>0, CallerMoves DEF CallerAt
<1>2. FuzzTypeOK'
  BY <1>0, <1>1 DEF FuzzTypeOK, CallersType
<1>3. ~Sends(c)' /\ \A d \in Callers \ {c} : Sends(d)' <=> Sends(d)
  BY <1>1 DEF Sends
<1>4. \A j : Opened(j)' <=> Opened(j) /\ j # job
  BY <1>0 DEF Opened, Without
<1>5. /\ \A d \in Callers \ {c} : Sends(d) => callers[d].job # job
      /\ \A i \in 1..Len(jobs) : jobs[i] # job
      /\ Busy => worker.job # job
  BY <1>0 DEF FuzzInv, JobsApart
<1>6. JobsMarked'
  BY <1>0, <1>1, <1>3, <1>4, <1>5 DEF FuzzInv, JobsMarked
<1>7. JobsApart'
  BY <1>0, <1>1, <1>3 DEF FuzzInv, JobsApart
<1>8. \A j : j # job /\ Somewhere(j) => Somewhere(j)'
  BY <1>0, <1>1, <1>3 DEF Somewhere
<1>9. MarksUsed'
  BY <1>4, <1>8 DEF FuzzInv, MarksUsed, Opened
<1> QED BY <1>2, <1>6, <1>7, <1>9 DEF FuzzInv

\* The worker takes the oldest job.
LEMMA TickKeeps ==
  ASSUME FuzzInv, Tick
  PROVE  FuzzInv'
<1>0. /\ FuzzTypeOK /\ ~Busy /\ UNCHANGED <<clock, version, callers, marks>>
      /\ jobs \in Seq(AnyJob) /\ jobs # <<>> /\ jobs' = Tail(jobs)
      /\ worker' = [Waiting EXCEPT !.at = "check", !.job = Head(jobs)]
  BY DEF FuzzInv, FuzzTypeOK, Tick, Busy
<1>1. /\ Len(jobs) \in Nat \ {0} /\ Head(jobs) = jobs[1] /\ jobs[1] \in AnyJob
      /\ jobs' \in Seq(AnyJob) /\ Len(jobs') = Len(jobs) - 1
      /\ \A i \in 1..Len(jobs') : i + 1 \in 1..Len(jobs) /\ i + 1 # 1 /\ jobs'[i] = jobs[i + 1]
  BY <1>0
<1>2. Busy' /\ worker'.job = jobs[1]
      /\ worker' \in [at : WorkerAt, job : AnyJob, seen : Nat, verdict : Verdicts, completedAt : Nat]
  BY <1>0, <1>1 DEF Waiting, Busy, WorkerAt, Verdicts
<1>3. FuzzTypeOK'
  BY <1>0, <1>1, <1>2 DEF FuzzTypeOK
<1>4. (\A j : Opened(j)' <=> Opened(j)) /\ (\A c \in Callers : Sends(c)' <=> Sends(c))
  BY <1>0 DEF Opened, Sends
<1>5. 1 \in 1..Len(jobs)
  BY <1>1
<1>6. JobsMarked'
  BY <1>0, <1>1, <1>2, <1>4, <1>5 DEF FuzzInv, JobsMarked
<1>7. JobsApart'
  <2>1. \A i, k \in 1..Len(jobs') : jobs'[i] = jobs'[k] => i = k
    BY <1>1, SMTT(30) DEF FuzzInv, JobsApart
  <2>2. \A c, d \in Callers : Sends(c)' /\ Sends(d)' /\ callers'[c].job = callers'[d].job => c = d
    BY <1>0, <1>4 DEF FuzzInv, JobsApart
  <2>3. \A c \in Callers : Sends(c)' => \A i \in 1..Len(jobs') : callers'[c].job # jobs'[i]
    BY <1>0, <1>1, <1>4 DEF FuzzInv, JobsApart
  <2>4. \A c \in Callers : Sends(c)' => callers'[c].job # worker'.job
    BY <1>0, <1>2, <1>4, <1>5 DEF FuzzInv, JobsApart
  <2>5. \A i \in 1..Len(jobs') : jobs'[i] # worker'.job
    BY <1>1, <1>2, <1>5 DEF FuzzInv, JobsApart
  <2> QED BY <2>1, <2>2, <2>3, <2>4, <2>5 DEF JobsApart
<1>8. ASSUME NEW j, Somewhere(j) PROVE Somewhere(j)'
  <2>1. CASE \E c \in Callers : Sends(c) /\ callers[c].job = j
    BY <1>0, <1>4, <2>1 DEF Somewhere
  <2>2. ASSUME NEW i \in 1..Len(jobs), jobs[i] = j PROVE Somewhere(j)'
    <3>1. CASE i = 1
      BY <1>2, <2>2, <3>1 DEF Somewhere
    <3>2. CASE i # 1
      <4>1. i - 1 \in 1..Len(jobs') /\ jobs'[i - 1] = j
        BY <1>1, <2>2, <3>2
      <4> QED BY <4>1 DEF Somewhere
    <3> QED BY <3>1, <3>2
  <2> QED BY <1>0, <1>8, <2>1, <2>2 DEF Somewhere
<1>9. MarksUsed'
  BY <1>0, <1>4, <1>8 DEF FuzzInv, MarksUsed
<1> QED BY <1>3, <1>6, <1>7, <1>9 DEF FuzzInv

\* Steps that move no job: the worker goes on with the one it has, or has none.
LEMMA StillKeeps ==
  ASSUME FuzzInv, FuzzTypeOK', UNCHANGED <<callers, marks, jobs>>,
         Busy' <=> Busy, Busy => worker'.job = worker.job
  PROVE  FuzzInv'
<1>1. (\A j : Opened(j)' <=> Opened(j)) /\ (\A c \in Callers : Sends(c)' <=> Sends(c))
  BY DEF Opened, Sends
<1>2. JobsMarked' /\ JobsApart'
  BY <1>1 DEF FuzzInv, JobsMarked, JobsApart
<1>3. \A j : Somewhere(j) => Somewhere(j)'
  BY <1>1 DEF Somewhere
<1> QED BY <1>1, <1>2, <1>3 DEF FuzzInv, MarksUsed

\* The worker's audit, up to its result.
LEMMA AuditKeeps ==
  ASSUME FuzzInv, CheckSnapshot \/ ReadEvents \/ AuditFails \/ Recheck \/ Stop
  PROVE  FuzzInv'
<1>0. /\ FuzzTypeOK /\ UNCHANGED <<callers, marks, jobs, clock, version>>
  BY DEF FuzzInv, CheckSnapshot, ReadEvents, AuditFails, Recheck, Stop, Decide
<1>1. ASSUME NEW v \in Verdicts, Decide(v), Busy PROVE FuzzInv'
  <2>1. FuzzTypeOK' /\ worker'.job = worker.job /\ worker'.at = "finish"
    BY <1>0, <1>1 DEF Decide, FuzzTypeOK, WorkerAt
  <2> QED BY <1>0, <1>1, <2>1, StillKeeps DEF Busy
<1>2. ASSUME NEW at \in {"read", "recheck"}, Busy, NEW n \in Nat,
             worker' = [worker EXCEPT !.at = at] \/ worker' = [worker EXCEPT !.at = at, !.seen = n]
      PROVE  FuzzInv'
  <2>1. FuzzTypeOK' /\ worker'.job = worker.job /\ worker'.at = at
    BY <1>0, <1>2 DEF FuzzTypeOK, WorkerAt
  <2> QED BY <1>0, <1>2, <2>1, StillKeeps DEF Busy
<1>3. CASE CheckSnapshot
  <2>1. Busy
    BY <1>3 DEF CheckSnapshot, Busy
  <2>2. CASE version = worker.job.version
    BY <1>2, <1>3, <2>1, <2>2 DEF CheckSnapshot
  <2>3. CASE version # worker.job.version
    BY <1>1, <1>3, <2>1, <2>3 DEF CheckSnapshot, Verdicts
  <2> QED BY <2>2, <2>3
<1>4. CASE ReadEvents
  BY <1>0, <1>2, <1>4 DEF ReadEvents, Busy, FuzzTypeOK
<1>5. CASE AuditFails
  BY <1>1, <1>5 DEF AuditFails, Busy, Verdicts
<1>6. CASE Recheck
  BY <1>1, <1>6 DEF Recheck, Busy, Verdicts
<1>7. CASE Stop
  <2>1. FuzzTypeOK' /\ ~Busy /\ ~Busy'
    BY <1>0, <1>7 DEF Stop, FuzzTypeOK, Busy, Waiting, WorkerAt, Verdicts, NoJob, AnyJob
  <2> QED BY <1>0, <2>1, StillKeeps
<1> QED BY <1>3, <1>4, <1>5, <1>6, <1>7

\* The result: the mark gets its time, and the job is nowhere any more.
LEMMA FinishKeeps ==
  ASSUME FuzzInv, Finish
  PROVE  FuzzInv'
<1>0. /\ FuzzTypeOK /\ Busy /\ UNCHANGED <<clock, version, callers, jobs>>
      /\ marks' = With(marks, worker.job, Until(worker.completedAt + Cooldown))
      /\ worker' = Waiting
  BY DEF FuzzInv, Finish, Busy
<1>1. FuzzTypeOK' /\ ~Busy'
  BY <1>0 DEF FuzzTypeOK, Busy, Waiting, WorkerAt, Verdicts, NoJob, AnyJob
<1>2. \A j : Opened(j)' <=> Opened(j) /\ j # worker.job
  BY <1>0 DEF Opened, With, Until
<1>3. \A c \in Callers : Sends(c)' <=> Sends(c)
  BY <1>0 DEF Sends
<1>4. JobsMarked'
  BY <1>0, <1>1, <1>2, <1>3 DEF FuzzInv, JobsMarked, JobsApart
<1>5. JobsApart'
  BY <1>0, <1>1, <1>3 DEF FuzzInv, JobsApart
<1>6. \A j : j # worker.job /\ Somewhere(j) => Somewhere(j)'
  BY <1>0, <1>3 DEF Somewhere
<1>7. MarksUsed'
  BY <1>2, <1>6 DEF FuzzInv, MarksUsed, Opened
<1> QED BY <1>1, <1>4, <1>5, <1>7 DEF FuzzInv

\* Every step keeps the invariant.
LEMMA FuzzKeeps == FuzzInv /\ [FuzzNext]_fuzzVars => FuzzInv'
<1> SUFFICES ASSUME FuzzInv, [FuzzNext]_fuzzVars PROVE FuzzInv'
  OBVIOUS
<1>1. ASSUME NEW c \in Callers, Begin(c) \/ CallerStep(c) PROVE FuzzInv'
  BY <1>1, RecallStepsKeep, MarkKeeps, SendKeeps, DropKeeps DEF CallerStep
<1>2. CASE WorkerStep
  BY <1>2, TickKeeps, AuditKeeps, FinishKeeps DEF WorkerStep
<1>3. CASE Close \/ Mutate \/ TimePasses \/ UNCHANGED fuzzVars
  <2>1. FuzzTypeOK' /\ UNCHANGED <<callers, marks, jobs, worker>>
    BY <1>3 DEF Close, Mutate, TimePasses, fuzzVars, FuzzInv, FuzzTypeOK
  <2>2. Busy' <=> Busy
    BY <2>1 DEF Busy
  <2> QED BY <2>1, <2>2, StillKeeps
<1> QED BY <1>1, <1>2, <1>3 DEF FuzzNext

\* The invariant holds throughout.
THEOREM FuzzInvariant == FuzzSpec => []FuzzInv
BY FuzzStarts, FuzzKeeps, PTL DEF FuzzSpec

-----------------------------------------------------------------------------

\* The size of a set without two elements.
LEMMA AtMostOne ==
  ASSUME NEW S, \A x, y \in S : x = y
  PROVE  Cardinality(S) = IF S = {} THEN 0 ELSE 1
<1>1. CASE S = {}
  BY <1>1, FS_EmptySet
<1>2. CASE S # {}
  <2>1. PICK x \in S : TRUE
    BY <1>2
  <2>2. S = {x}
    BY <2>1
  <2> QED BY <1>2, <2>2, FS_Singleton
<1> QED BY <1>1, <1>2

\* What the places hold of a job, in numbers.
LEMMA OneCopy ==
  ASSUME FuzzInv, NEW j
  PROVE  Copies(j) = IF Opened(j) THEN 1 ELSE 0
<1> DEFINE Q == Queued(j)
           S == Sending(j)
<1>0. DOMAIN jobs = 1..Len(jobs)
  BY DEF FuzzInv, FuzzTypeOK
<1>1. Q = {i \in 1..Len(jobs) : jobs[i] = j} /\ S = {c \in Callers : Sends(c) /\ callers[c].job = j}
  BY <1>0 DEF Queued, Sending, Sends
<1>2. Held(j) <=> Busy /\ worker.job = j
  BY DEF Held, Busy
<1>3. \A x, y \in Q : x = y
  BY <1>1 DEF FuzzInv, JobsApart
<1>4. \A x, y \in S : x = y
  BY <1>1 DEF FuzzInv, JobsApart
<1>5. (Q # {} => S = {} /\ ~Held(j)) /\ (S # {} => ~Held(j))
  BY <1>1, <1>2 DEF FuzzInv, JobsApart
<1>6. Opened(j) <=> Q # {} \/ S # {} \/ Held(j)
  <2>1. Somewhere(j) <=> Q # {} \/ S # {} \/ Held(j)
    BY <1>1, <1>2 DEF Somewhere
  <2>2. Opened(j) => Somewhere(j)
    BY DEF FuzzInv, MarksUsed, Opened
  <2>3. Somewhere(j) => Opened(j)
    BY DEF FuzzInv, JobsMarked, Somewhere
  <2> QED BY <2>1, <2>2, <2>3
<1>7. Copies(j) = Cardinality(Q) + Cardinality(S) + (IF Held(j) THEN 1 ELSE 0)
  BY DEF Copies
<1> HIDE DEF Q, S
<1>8. Cardinality(Q) = IF Q = {} THEN 0 ELSE 1
  BY <1>3, AtMostOne
<1>9. Cardinality(S) = IF S = {} THEN 0 ELSE 1
  BY <1>4, AtMostOne
<1> QED BY <1>5, <1>6, <1>7, <1>8, <1>9

\* An audit is marked without a time exactly while one job for it is being
\* sent, queued, run or dropped: Enqueue and execute never suppress an audit
\* for ever, and never run one twice at a time.
THEOREM MarksAreAlive == FuzzSpec => []MarkedAlive
<1>1. FuzzInv => MarkedAlive
  BY OneCopy DEF MarkedAlive, Opened
<1> QED BY <1>1, FuzzInvariant, PTL

-----------------------------------------------------------------------------
\* Every job is of a snapshot that was current once, and the events of an
\* audit were read between that snapshot and the current one.
JobsPast ==
  /\ \A c \in Callers : callers[c].job.version <= version
  /\ \A i \in 1..Len(jobs) : jobs[i].version <= version
  /\ worker.job.version <= version
  /\ worker.at = "recheck" => worker.job.version <= worker.seen /\ worker.seen <= version

AuditInv == FuzzInv /\ JobsPast /\ AuditConsistent

\* Versions of jobs are numbers.
LEMMA JobVersions ==
  ASSUME FuzzTypeOK
  PROVE  /\ version \in Nat /\ Len(jobs) \in Nat
         /\ worker.job.version \in Nat /\ worker.seen \in Nat
         /\ \A c \in Callers : callers[c].job.version \in Nat
         /\ \A i \in 1..Len(jobs) : jobs[i].version \in Nat
<1>1. \A j \in AnyJob : j.version \in Nat
  BY DEF AnyJob
<1>2. version \in Nat /\ Len(jobs) \in Nat /\ worker.job \in AnyJob /\ worker.seen \in Nat
  BY DEF FuzzTypeOK
<1>3. \A c \in Callers : callers[c].job \in AnyJob
  BY DEF FuzzTypeOK
<1>4. \A i \in 1..Len(jobs) : jobs[i] \in AnyJob
  BY DEF FuzzTypeOK
<1> QED BY <1>1, <1>2, <1>3, <1>4

\* Every step keeps the invariant: the version only grows, the worker reads
\* its events under the current one, and Recheck compares it with the job's.
LEMMA AuditStepsKeep == AuditInv /\ [FuzzNext]_fuzzVars => AuditInv'
<1> SUFFICES ASSUME AuditInv, [FuzzNext]_fuzzVars PROVE AuditInv'
  OBVIOUS
<1>0. FuzzInv /\ FuzzInv' /\ FuzzTypeOK /\ FuzzTypeOK'
  BY FuzzKeeps DEF AuditInv, FuzzInv
<1> SUFFICES JobsPast' /\ AuditConsistent'
  BY <1>0 DEF AuditInv
<1> USE <1>0, JobVersions DEF AuditInv, JobsPast, AuditConsistent
<1>1. ASSUME NEW c \in Callers, Begin(c) \/ CallerStep(c) PROVE JobsPast' /\ AuditConsistent'
  <2>0. UNCHANGED <<version, worker>>
    BY <1>1 DEF Begin, CallerStep, CaptureJob, Certain, ReadClock, Mark, Send, CountSent, Drop, Return
  <2>1. \A d \in Callers : callers'[d].job.version <= version
    <3>1. CASE \E q \in Questions : CaptureJob(c, q)
      BY <3>1 DEF CaptureJob, Job, FuzzTypeOK
    <3>2. CASE Return(c)
      BY <3>2 DEF Return, Idle, NoJob, FuzzTypeOK
    <3>3. CASE Mark(c)
      BY <3>3 DEF Mark, FuzzTypeOK
    <3>4. CASE Send(c)
      BY <3>4 DEF Send, FuzzTypeOK
    <3>5. CASE Begin(c) \/ Certain(c) \/ CountSent(c) \/ Drop(c)
      <4>1. PICK at \in CallerAt : callers' = [callers EXCEPT ![c].at = at]
        BY <3>5 DEF Begin, Certain, CountSent, Drop, CallerAt
      <4>2. \A d \in Callers : callers'[d].job = callers[d].job
        BY <4>1, CallerMoves
      <4> QED BY <4>2
    <3>6. CASE ReadClock(c)
      BY <3>6 DEF ReadClock, FuzzTypeOK
    <3> QED BY <1>1, <3>1, <3>2, <3>3, <3>4, <3>5, <3>6 DEF CallerStep
  <2>2. jobs' = jobs \/ jobs' = Append(jobs, callers[c].job)
    BY <1>1 DEF Begin, CallerStep, CaptureJob, Certain, ReadClock, Mark, Send, CountSent, Drop, Return
  <2>3. \A i \in 1..Len(jobs') : jobs'[i].version <= version
    <3>1. CASE jobs' = jobs
      BY <3>1
    <3>2. CASE jobs' = Append(jobs, callers[c].job)
      <4>1. jobs \in Seq(AnyJob) /\ callers[c].job \in AnyJob
        BY DEF FuzzTypeOK
      <4>2. \A i \in 1..Len(jobs') : \/ i \in 1..Len(jobs) /\ jobs'[i] = jobs[i]
                                     \/ jobs'[i] = callers[c].job
        BY <3>2, <4>1
      <4> QED BY <4>2
    <3> QED BY <2>2, <3>1, <3>2
  <2> QED BY <2>0, <2>1, <2>3
<1>2. CASE WorkerStep
  <2>0. UNCHANGED <<version, callers>>
    BY <1>2 DEF WorkerStep, Tick, CheckSnapshot, ReadEvents, AuditFails, Recheck, Finish, Stop, Decide
  <2>1. CASE Tick
    <3>1. /\ jobs \in Seq(AnyJob) /\ jobs # <<>> /\ jobs' = Tail(jobs)
          /\ worker' = [Waiting EXCEPT !.at = "check", !.job = Head(jobs)]
      BY <2>1 DEF Tick, FuzzTypeOK
    <3>2. /\ 1 \in 1..Len(jobs) /\ Head(jobs) = jobs[1] /\ Len(jobs') = Len(jobs) - 1
          /\ \A i \in 1..Len(jobs') : i + 1 \in 1..Len(jobs) /\ jobs'[i] = jobs[i + 1]
      BY <3>1
    <3>3. worker'.at = "check" /\ worker'.job = jobs[1]
      BY <3>1, <3>2 DEF Waiting
    <3> QED BY <2>0, <3>2, <3>3
  <2>2. CASE UNCHANGED jobs /\ \E v \in Verdicts : Decide(v) /\ v # "completed"
    <3>1. worker'.job = worker.job /\ worker'.at = "finish" /\ worker'.verdict # "completed"
      BY <2>2 DEF Decide, FuzzTypeOK
    <3> QED BY <2>0, <2>2, <3>1
  <2>3. CASE CheckSnapshot
    <3>1. CASE version = worker.job.version
      <4>1. worker'.job = worker.job /\ worker'.at = "read" /\ UNCHANGED jobs
        BY <2>3, <3>1 DEF CheckSnapshot, FuzzTypeOK
      <4> QED BY <2>0, <4>1
    <3>2. CASE version # worker.job.version
      BY <2>2, <2>3, <3>2 DEF CheckSnapshot, Decide, Verdicts
    <3> QED BY <3>1, <3>2
  <2>4. CASE ReadEvents
    <3>1. worker'.job = worker.job /\ worker'.at = "recheck" /\ worker'.seen = version /\ UNCHANGED jobs
      BY <2>4 DEF ReadEvents, FuzzTypeOK
    <3> QED BY <2>0, <3>1
  <2>5. CASE AuditFails
    BY <2>2, <2>5 DEF AuditFails, Decide, Verdicts
  <2>6. CASE Recheck
    <3>1. CASE version = worker.job.version
      <4>1. /\ worker.at = "recheck" /\ UNCHANGED jobs /\ worker'.at = "finish"
            /\ worker'.job = worker.job /\ worker'.seen = worker.seen
        BY <2>6, <3>1 DEF Recheck, Decide, FuzzTypeOK
      <4>2. worker.seen = worker.job.version
        BY <3>1, <4>1
      <4> QED BY <2>0, <4>1, <4>2
    <3>2. CASE version # worker.job.version
      BY <2>2, <2>6, <3>2 DEF Recheck, Decide, Verdicts
    <3> QED BY <3>1, <3>2
  <2>7. CASE Finish \/ Stop
    <3>1. worker'.job = NoJob /\ worker'.at \in {"wait", "stopped"} /\ UNCHANGED jobs
      BY <2>7 DEF Finish, Stop, Waiting
    <3> QED BY <2>0, <3>1 DEF NoJob
  <2> QED BY <1>2, <2>1, <2>3, <2>4, <2>5, <2>6, <2>7 DEF WorkerStep
<1>3. CASE Close \/ Mutate \/ TimePasses \/ UNCHANGED fuzzVars
  <2>1. UNCHANGED <<callers, jobs, worker>> /\ version' >= version
    BY <1>3 DEF Close, Mutate, TimePasses, fuzzVars
  <2>2. version' \in Nat
    BY DEF FuzzTypeOK
  <2>3. \A n \in Nat : n <= version => n <= version'
    BY <2>1, <2>2
  <2> QED BY <2>1, <2>3
<1> QED BY <1>1, <1>2, <1>3 DEF FuzzNext

\* executeBackgroundFuzz: a completed audit read its events under the very
\* snapshot that nominated them, whatever the store did meanwhile.
THEOREM AuditsAreConsistent == FuzzSpec => []AuditConsistent
<1>1. FuzzInit => AuditInv
  <2> SUFFICES ASSUME FuzzInit PROVE JobsPast /\ AuditConsistent
    BY FuzzStarts DEF AuditInv
  <2> QED BY DEF FuzzInit, JobsPast, AuditConsistent, Idle, Waiting, NoJob
<1> QED BY <1>1, AuditStepsKeep, PTL DEF FuzzSpec, AuditInv

=============================================================================
