-------------------------- MODULE AuthorityProofs --------------------------
(***************************************************************************)
(* Theorems about AgencyAuthority, for any number of workers, proposals    *)
(* and jobs: the adapter and the queue together do nothing the queue alone *)
(* does not do; a turn is cancelled only while its record stays reserved,  *)
(* and cleared only when it can no longer run; and no scheduled turn is    *)
(* forgotten as long as no worker dies and no report is lost.              *)
(***************************************************************************)
EXTENDS AgencyAuthority, AgencyQueueProofs, FiniteSetTheorems, TLAPS

Attempts ==
  [at : Points, p : Proposals \cup {NoProposal}, ref : JobIds \cup {NoRef},
   found : SUBSET JobIds, listed : BOOLEAN, todo : SUBSET Proposals]

WorkType ==
  /\ work \in [Workers -> Attempts]
  /\ created \in Nat /\ created <= MaxJobs
  /\ DOMAIN jobs \subseteq 1..created
  /\ \A j \in DOMAIN jobs : jobs[j].p \in Proposals /\ jobs[j].by \in Workers

\* Where an attempt has a handle of the job it created.
Handling == {"halt", "approve", "retry", "read", "reserve", "cancel", "acknowledge", "report"}

\* A worker has a proposal exactly while it is in an attempt.
AttemptHasProposal ==
  \A w \in Workers : IF work[w].at = "idle" THEN work[w].p = NoProposal /\ work[w].ref = NoRef
                     ELSE work[w].p \in Proposals

\* Handles are handed out once: no two attempts hold the same.
HandlesApart ==
  \A w \in Workers :
    /\ work[w].at \in Handling => work[w].ref # NoRef
    /\ work[w].ref # NoRef
       => /\ work[w].ref \in 1..created
          /\ \A v \in Workers \ {w} : work[v].ref # work[w].ref
          /\ work[w].ref \in DOMAIN jobs
             => jobs[work[w].ref].p = work[w].p /\ jobs[work[w].ref].by = w

\* The inventory of a tag finds the attempt's own job, and an attempt that
\* acknowledges a cancellation has no job left.
CleanupSound ==
  \A w \in Workers :
    /\ work[w].at \in Cleanups /\ work[w].listed /\ work[w].ref \in DOMAIN jobs
       => work[w].ref \in work[w].found
    /\ work[w].at = "acknowledge" => work[w].ref \notin DOMAIN jobs
    /\ work[w].listed => work[w].at \in Cleanups

AInv ==
  /\ IInv /\ WorkType /\ AttemptHasProposal /\ HandlesApart /\ CleanupSound
  /\ CompensationReserved

\* The attempt that created a job still has to do with it: by its handle, or
\* by the tag when the reply that named it was lost.
JobOwned(j) ==
  LET w == jobs[j].by
  IN /\ work[w].p = jobs[j].p
     /\ \/ work[w].ref = j /\ work[w].at \in Handling
        \/ work[w].at = "undo" /\ (work[w].listed => j \in work[w].found)
        \/ work[w].at = "reportTag"

\* The durable record names a job.
JobRecorded(j) ==
  LET rec == agency[jobs[j].p]
  IN \/ rec.status = "approved" /\ rec.ref = j
     \/ rec.status = "uncertain" /\ rec.refs \cap {j, TagRef} # {}

JobsHeld == \A j \in DOMAIN jobs : JobOwned(j) \/ JobRecorded(j)

-----------------------------------------------------------------------------
(* The steps of an attempt. *)

\* The references of the store are the job identifiers and the tag.
LEMMA RefFacts ==
  /\ JobIds \subseteq Refs /\ TagRef \in Refs /\ NoRef \notin JobIds /\ TagRef \notin JobIds
  /\ NoProposal \notin Proposals
BY ConstantsAssumption, AuthorityAssumption

\* What Goto does to the attempts.
LEMMA GotoStep ==
  ASSUME WorkType, NEW w \in Workers, NEW at \in Points, Goto(w, at)
  PROVE  /\ work' \in [Workers -> Attempts]
         /\ \A v \in Workers \ {w} : work'[v] = work[v]
         /\ work'[w].at = at /\ ~work'[w].listed /\ work'[w].todo = work[w].todo
         /\ IF at = "idle" THEN work'[w].p = NoProposal /\ work'[w].ref = NoRef
            ELSE work'[w].p = work[w].p /\ work'[w].ref = work[w].ref
<1>1. work[w] \in Attempts /\ work \in [Workers -> Attempts]
  BY DEF WorkType
<1>2. CASE at = "idle"
  <2>1. work' = [work EXCEPT ![w] = Idle(work[w].todo)]
    BY <1>2 DEF Goto
  <2>2. /\ Idle(work[w].todo) \in Attempts
        /\ Idle(work[w].todo).at = "idle" /\ Idle(work[w].todo).p = NoProposal
        /\ Idle(work[w].todo).ref = NoRef /\ ~Idle(work[w].todo).listed
        /\ Idle(work[w].todo).todo = work[w].todo
    BY <1>1 DEF Idle, Attempts, Points
  <2> QED BY <1>1, <1>2, <2>1, <2>2
<1>3. CASE at # "idle"
  <2> DEFINE a == [work[w] EXCEPT !.at = at, !.found = {}, !.listed = FALSE]
  <2>1. work' = [work EXCEPT ![w] = a]
    BY <1>3 DEF Goto
  <2>2. /\ a \in Attempts /\ a.at = at /\ a.p = work[w].p /\ a.ref = work[w].ref
        /\ ~a.listed /\ a.todo = work[w].todo
    BY <1>1 DEF Attempts
  <2> HIDE DEF a
  <2> QED BY <1>1, <1>3, <2>1, <2>2
<1> QED BY <1>2, <1>3

WorkInv == WorkType /\ AttemptHasProposal /\ HandlesApart /\ CleanupSound

\* An attempt goes on while jobs are only removed.
LEMMA MoveKeeps ==
  ASSUME WorkInv, NEW w \in Workers, NEW at \in Points, Goto(w, at), work[w].at # "idle",
         created' = created, DOMAIN jobs' \subseteq DOMAIN jobs,
         \A j \in DOMAIN jobs' : jobs'[j] = jobs[j],
         at \in Handling => work[w].at \in Handling,
         at = "acknowledge" => work[w].ref \notin DOMAIN jobs'
  PROVE  WorkInv'
<1>1. /\ work' \in [Workers -> Attempts]
      /\ \A v \in Workers \ {w} : work'[v] = work[v]
      /\ work'[w].at = at /\ ~work'[w].listed
      /\ IF at = "idle" THEN work'[w].p = NoProposal /\ work'[w].ref = NoRef
         ELSE work'[w].p = work[w].p /\ work'[w].ref = work[w].ref
  BY GotoStep DEF WorkInv
<1>2. WorkType'
  BY <1>1 DEF WorkInv, WorkType
<1>3. AttemptHasProposal'
  BY <1>1 DEF WorkInv, AttemptHasProposal
<1>4. HandlesApart'
  <2>1. \A v \in Workers : work'[v].ref # NoRef
                           => work'[v].ref = work[v].ref /\ work'[v].p = work[v].p
    BY <1>1
  <2>2. \A v \in Workers : work'[v].at \in Handling => work'[v].ref # NoRef
    BY <1>1 DEF WorkInv, HandlesApart, Handling
  <2>3. ASSUME NEW v \in Workers, work'[v].ref # NoRef
        PROVE  /\ work'[v].ref \in 1..created'
               /\ work'[v].ref \in DOMAIN jobs'
                  => jobs'[work'[v].ref].p = work'[v].p /\ jobs'[work'[v].ref].by = v
    BY <2>1, <2>3 DEF WorkInv, HandlesApart
  <2>4. ASSUME NEW v \in Workers, work'[v].ref # NoRef, NEW u \in Workers \ {v}
        PROVE  work'[u].ref # work'[v].ref
    BY <2>1, <2>4 DEF WorkInv, HandlesApart
  <2> QED BY <2>2, <2>3, <2>4 DEF HandlesApart
<1>5. CleanupSound'
  <2>1. ASSUME NEW v \in Workers \ {w}
        PROVE  /\ work'[v].at \in Cleanups /\ work'[v].listed /\ work'[v].ref \in DOMAIN jobs'
                  => work'[v].ref \in work'[v].found
               /\ work'[v].at = "acknowledge" => work'[v].ref \notin DOMAIN jobs'
               /\ work'[v].listed => work'[v].at \in Cleanups
    BY <1>1, <2>1 DEF WorkInv, CleanupSound
  <2>2. work'[w].at = "acknowledge" => work'[w].ref \notin DOMAIN jobs'
    BY <1>1
  <2> QED BY <1>1, <2>1, <2>2 DEF CleanupSound
<1> QED BY <1>2, <1>3, <1>4, <1>5 DEF WorkInv

\* The host, the clock and the store leave the attempts alone.
LEMMA StillWork ==
  ASSUME WorkInv, UNCHANGED <<work, created>>, DOMAIN jobs' \subseteq DOMAIN jobs,
         \A j \in DOMAIN jobs' : jobs'[j] = jobs[j]
  PROVE  WorkInv'
<1>1. WorkType' /\ AttemptHasProposal'
  BY DEF WorkInv, WorkType, AttemptHasProposal
<1>2. HandlesApart'
  BY DEF WorkInv, HandlesApart
<1>3. CleanupSound'
  BY DEF WorkInv, CleanupSound
<1> QED BY <1>1, <1>2, <1>3 DEF WorkInv

\* A call to the daemon: the attempt goes on with a handle only if it had
\* one, cancels only after its reservation, and acknowledges only after a
\* cancellation.
LEMMA CallTransitions ==
  ASSUME WorkInv, NEW w \in Workers, NEW now \in RequestTimes,
         ApproveCall(w, now) \/ ReportCall(w, now) \/ ReserveCall(w, now)
           \/ AcknowledgeCall(w, now) \/ RejectCall(w, now) \/ ReadCall(w)
  PROVE  /\ UNCHANGED <<jobs, created>> /\ work[w].at # "idle"
         /\ \E at \in {"idle", "retry", "read", "report", "reserve", "cancel"} :
              /\ Goto(w, at)
              /\ at \in Handling => work[w].at \in Handling
              /\ at = "cancel" => /\ ReportUncertain(work[w].p, work[w].ref, now)
                                  /\ agency'[work[w].p].refs = {work[w].ref}
                                  /\ work[w].at = "reserve"
<1> USE DEF Handling
<1>1. CASE ApproveCall(w, now)
  BY <1>1 DEF ApproveCall, Replied, RequestLost, Others
<1>2. CASE ReportCall(w, now)
  BY <1>2 DEF ReportCall, RequestLost, Others
<1>3. CASE ReserveCall(w, now)
  BY <1>3 DEF ReserveCall, Replied, RequestLost, Others
<1>4. CASE AcknowledgeCall(w, now) \/ RejectCall(w, now)
  BY <1>4 DEF AcknowledgeCall, RejectCall, Others
<1>5. CASE ReadCall(w)
  BY <1>5 DEF ReadCall, RequestLost, Others
<1> QED BY <1>1, <1>2, <1>3, <1>4, <1>5

\* A call to the daemon keeps the attempts in order.
LEMMA CallKeeps ==
  ASSUME WorkInv, NEW w \in Workers, NEW now \in RequestTimes,
         ApproveCall(w, now) \/ ReportCall(w, now) \/ ReserveCall(w, now)
           \/ AcknowledgeCall(w, now) \/ RejectCall(w, now) \/ ReadCall(w)
  PROVE  WorkInv'
<1>1. PICK at \in {"idle", "retry", "read", "report", "reserve", "cancel"} :
        Goto(w, at) /\ (at \in Handling => work[w].at \in Handling)
  BY CallTransitions
<1>2. UNCHANGED <<jobs, created>> /\ work[w].at # "idle"
  BY CallTransitions
<1>3. at \in Points /\ at # "acknowledge"
  BY DEF Points
<1> QED BY <1>1, <1>2, <1>3, MoveKeeps

\* A step of one attempt that gives it no handle it did not have.
LEMMA LocalKeeps ==
  ASSUME WorkInv, NEW w \in Workers, NEW a \in Attempts, work' = [work EXCEPT ![w] = a],
         UNCHANGED <<jobs, created>>,
         IF a.at = "idle" THEN a.p = NoProposal /\ a.ref = NoRef ELSE a.p \in Proposals,
         a.at \notin Handling /\ a.ref = NoRef /\ ~a.listed
  PROVE  WorkInv'
<1>0. work \in [Workers -> Attempts] /\ DOMAIN jobs \subseteq 1..created
  BY DEF WorkInv, WorkType
<1>1. /\ work' \in [Workers -> Attempts] /\ work'[w] = a
      /\ \A v \in Workers \ {w} : work'[v] = work[v]
  BY <1>0
<1>2. WorkType' /\ AttemptHasProposal'
  BY <1>1 DEF WorkInv, WorkType, AttemptHasProposal
<1>3. HandlesApart'
  BY <1>1 DEF WorkInv, HandlesApart
<1>4. NoRef \notin DOMAIN jobs
  <2>1. DOMAIN jobs \subseteq JobIds
    BY <1>0, AuthorityAssumption DEF WorkInv, WorkType, JobIds
  <2> QED BY <2>1, RefFacts
<1>5. a.at # "acknowledge"
  BY DEF Handling
<1>6. CleanupSound'
  BY <1>1, <1>4, <1>5 DEF WorkInv, CleanupSound
<1> QED BY <1>2, <1>3, <1>6 DEF WorkInv

\* The poll, the start and the end of an attempt.
LEMMA AttemptKeeps ==
  ASSUME WorkInv, TypeOK, NEW w \in Workers,
         \/ \E now \in RequestTimes : Poll(w, now)
         \/ \E p \in Proposals : Begin(w, p)
         \/ Drop(w) \/ Crash(w)
  PROVE  WorkInv'
<1>0. work \in [Workers -> Attempts] /\ work[w] \in Attempts
  BY DEF WorkInv, WorkType
<1>1. ASSUME NEW todo \in SUBSET Proposals
      PROVE  /\ Idle(todo) \in Attempts /\ Idle(todo).at = "idle" /\ Idle(todo).at \notin Handling
             /\ Idle(todo).p = NoProposal /\ Idle(todo).ref = NoRef /\ ~Idle(todo).listed
  BY <1>1 DEF Idle, Attempts, Points, Handling
<1>2. ASSUME NEW now \in RequestTimes, Poll(w, now) PROVE WorkInv'
  <2>1. CASE UNCHANGED work
    BY <1>2, <2>1, StillWork DEF Poll
  <2>2. CASE work' = [work EXCEPT ![w].todo = Chosen(now)]
    <3>1. Chosen(now) \in SUBSET Proposals
      BY DEF Chosen, Eligible
    <3> DEFINE a == [work[w] EXCEPT !.todo = Chosen(now)]
    <3>2. work[w].at = "idle" /\ work[w].p = NoProposal /\ work[w].ref = NoRef /\ ~work[w].listed
      BY <1>1, <1>2 DEF Poll
    <3>3. a \in Attempts /\ a.at = "idle" /\ a.p = NoProposal /\ a.ref = NoRef /\ ~a.listed
      BY <1>0, <3>1, <3>2 DEF Attempts
    <3>4. work' = [work EXCEPT ![w] = a]
      BY <2>2
    <3> HIDE DEF a
    <3> QED BY <1>2, <3>3, <3>4, LocalKeeps DEF Poll, Handling
  <2> QED BY <1>2, <2>1, <2>2 DEF Poll
<1>3. ASSUME NEW p \in Proposals, Begin(w, p) PROVE WorkInv'
  <2> DEFINE at == IF Gate(p, clock) THEN "clean" ELSE "reject"
             todo == work[w].todo \ {p}
             a == [Idle(todo) EXCEPT !.p = p, !.at = at]
  <2>1. at \in {"clean", "reject"}
    OBVIOUS
  <2>2. todo \in SUBSET Proposals
    BY <1>0 DEF Attempts
  <2>3. work' = [work EXCEPT ![w] = a] /\ UNCHANGED <<jobs, created>>
    BY <1>3 DEF Begin
  <2> HIDE DEF at, todo
  <2>4. a \in Attempts /\ a.at = at /\ a.p = p /\ a.ref = NoRef /\ ~a.listed
    BY <2>1, <2>2 DEF Idle, Attempts, Points
  <2> HIDE DEF a
  <2> QED BY <2>1, <2>3, <2>4, LocalKeeps DEF Handling
<1>4. CASE Drop(w) \/ Crash(w)
  <2>1. work' = [work EXCEPT ![w] = Idle({})] /\ UNCHANGED <<jobs, created>>
    BY <1>4 DEF Drop, Crash
  <2> QED BY <1>1, <2>1, LocalKeeps
<1> QED BY <1>2, <1>3, <1>4

\* The inventory of the tag holds the attempt's own job.
LEMMA ListKeeps ==
  ASSUME WorkInv, NEW w \in Workers, ListTag(w)
  PROVE  WorkInv'
<1> DEFINE found == {j \in DOMAIN jobs : jobs[j].p = work[w].p}
<1>0. work \in [Workers -> Attempts] /\ work[w] \in Attempts /\ DOMAIN jobs \subseteq JobIds
  BY AuthorityAssumption DEF WorkInv, WorkType, JobIds
<1>1. /\ work' = [work EXCEPT ![w].listed = TRUE, ![w].found = found]
      /\ UNCHANGED <<jobs, created>>
  BY DEF ListTag
<1>2. found \subseteq JobIds
  BY <1>0
<1>3. work[w].ref \in DOMAIN jobs => work[w].ref \in found
  <2>1. work[w].ref \in DOMAIN jobs => work[w].ref # NoRef
    BY <1>0, RefFacts
  <2> QED BY <2>1 DEF WorkInv, HandlesApart
<1> HIDE DEF found
<1>4. /\ work' \in [Workers -> Attempts] /\ work'[w].found = found
      /\ work'[w].at = work[w].at /\ work'[w].p = work[w].p /\ work'[w].ref = work[w].ref
      /\ \A v \in Workers \ {w} : work'[v] = work[v]
  BY <1>0, <1>1, <1>2 DEF Attempts
<1>5. WorkType' /\ AttemptHasProposal'
  BY <1>1, <1>4 DEF WorkInv, WorkType, AttemptHasProposal
<1>6. HandlesApart'
  BY <1>1, <1>4 DEF WorkInv, HandlesApart
<1>7. CleanupSound'
  <2>1. work[w].at \in Cleanups
    BY DEF ListTag
  <2> QED BY <1>1, <1>3, <1>4, <2>1 DEF WorkInv, CleanupSound
<1> QED BY <1>5, <1>6, <1>7 DEF WorkInv

\* A removal: what it leaves is what it found not, or failed at.
LEMMA RemoveStep ==
  ASSUME WorkInv, NEW w \in Workers, RemoveListed(w) \/ ListFails(w)
  PROVE  /\ work[w].at \in Cleanups /\ created' = created
         /\ DOMAIN jobs' \subseteq DOMAIN jobs /\ \A j \in DOMAIN jobs' : jobs'[j] = jobs[j]
         /\ \/ /\ Goto(w, AfterCleanup[work[w].at]) /\ work[w].listed
               /\ DOMAIN jobs' = DOMAIN jobs \ work[w].found
            \/ Goto(w, AfterFailedCleanup[work[w].at])
<1>1. CASE ListFails(w)
  BY <1>1 DEF ListFails
<1>2. CASE RemoveListed(w)
  BY <1>2 DEF RemoveListed
<1> QED BY <1>1, <1>2

\* The call after a cleanup has a handle only if the cleanup had.
LEMMA CleanupTable ==
  ASSUME NEW at \in Cleanups
  PROVE  /\ AfterCleanup[at] \in Points \ {"idle", "cancel"}
         /\ AfterFailedCleanup[at] \in Points \ {"idle", "acknowledge", "cancel"}
         /\ AfterCleanup[at] \in Handling => at = "cancel" /\ AfterCleanup[at] = "acknowledge"
         /\ AfterFailedCleanup[at] \in Handling
            => at \in {"halt", "cancel"} /\ AfterFailedCleanup[at] = "report"
         /\ at # "idle"
BY DEF AfterCleanup, AfterFailedCleanup, Cleanups, Points, Handling

\* The end of a cleanup.
LEMMA RemoveKeeps ==
  ASSUME WorkInv, NEW w \in Workers, RemoveListed(w) \/ ListFails(w)
  PROVE  WorkInv'
<1>0. /\ work[w].at \in Cleanups /\ created' = created
      /\ DOMAIN jobs' \subseteq DOMAIN jobs /\ \A j \in DOMAIN jobs' : jobs'[j] = jobs[j]
  BY RemoveStep
<1>1. CASE /\ Goto(w, AfterCleanup[work[w].at]) /\ work[w].listed
           /\ DOMAIN jobs' = DOMAIN jobs \ work[w].found
  <2>1. work[w].ref \notin DOMAIN jobs'
    BY <1>0, <1>1 DEF WorkInv, CleanupSound
  <2> QED BY <1>0, <1>1, <2>1, CleanupTable, MoveKeeps DEF Handling
<1>2. CASE Goto(w, AfterFailedCleanup[work[w].at])
  BY <1>0, <1>2, CleanupTable, MoveKeeps DEF Handling
<1> QED BY <1>1, <1>2, RemoveStep

\* A new job: its identifier is new, and so is the handle.
LEMMA NewJob ==
  ASSUME WorkInv, NEW w \in Workers, ScheduleTurn(w)
  PROVE  /\ created' = created + 1 /\ created' \in JobIds /\ created' \notin 1..created
         /\ DOMAIN jobs' = DOMAIN jobs \cup {created'}
         /\ jobs'[created'].p = work[w].p /\ jobs'[created'].by = w
         /\ \A j \in DOMAIN jobs : jobs'[j] = jobs[j]
         /\ work[w].at = "schedule" /\ work[w].p \in Proposals
         /\ UNCHANGED vars
<1>1. /\ created \in Nat /\ created < MaxJobs /\ created' = created + 1 /\ MaxJobs \in Nat
      /\ work[w].at = "schedule" /\ UNCHANGED vars /\ DOMAIN jobs \subseteq 1..created
  BY AuthorityAssumption DEF ScheduleTurn, WorkInv, WorkType
<1>2. created' \in JobIds /\ created' \notin 1..created
  BY <1>1 DEF JobIds
<1>3. jobs' = [j \in DOMAIN jobs \cup {created'} |->
                 IF j = created'
                 THEN [p |-> work[w].p, due |-> DeliverAt(work[w].p, clock), by |-> w]
                 ELSE jobs[j]]
  BY DEF ScheduleTurn
<1>4. work[w].p \in Proposals
  BY <1>1 DEF WorkInv, AttemptHasProposal
<1> QED BY <1>1, <1>2, <1>3, <1>4

\* What the scheduling does to the attempt.
LEMMA ScheduleWork ==
  ASSUME WorkInv, NEW w \in Workers, ScheduleTurn(w)
  PROVE  /\ work' \in [Workers -> Attempts]
         /\ \A v \in Workers \ {w} : work'[v] = work[v]
         /\ work'[w].p = work[w].p /\ ~work'[w].listed
         /\ \/ work'[w].ref = created' /\ work'[w].at \in {"approve", "halt"}
            \/ work'[w].ref = work[w].ref /\ work'[w].at = "undo"
<1>0. work \in [Workers -> Attempts] /\ work[w] \in Attempts /\ created' \in JobIds
  BY NewJob DEF WorkInv, WorkType
<1>1. CASE Goto(w, "undo")
  <2>1. "undo" \in Points /\ "undo" # "idle"
    BY DEF Points
  <2> QED BY <1>1, <2>1, GotoStep DEF WorkInv
<1>2. CASE work' = [work EXCEPT ![w].ref = created',
                      ![w].at = IF running[w] THEN "approve" ELSE "halt"]
  <2> DEFINE at == IF running[w] THEN "approve" ELSE "halt"
  <2>1. at \in {"approve", "halt"} /\ {"approve", "halt"} \subseteq Points
    BY DEF Points
  <2>2. work' = [work EXCEPT ![w].ref = created', ![w].at = at]
    BY <1>2
  <2> HIDE DEF at
  <2>3. /\ work' \in [Workers -> Attempts] /\ work'[w].at = at /\ work'[w].ref = created'
        /\ work'[w].p = work[w].p /\ (work'[w].listed <=> work[w].listed)
        /\ \A v \in Workers \ {w} : work'[v] = work[v]
    BY <1>0, <2>1, <2>2 DEF Attempts
  <2>4. ~work[w].listed
    BY NewJob DEF WorkInv, CleanupSound, Cleanups
  <2> QED BY <2>1, <2>3, <2>4
<1> QED BY <1>1, <1>2 DEF ScheduleTurn

\* Scheduling keeps the attempts in order.
LEMMA ScheduleKeeps ==
  ASSUME WorkInv, NEW w \in Workers, ScheduleTurn(w)
  PROVE  WorkInv'
<1>1. /\ created' = created + 1 /\ created' \in JobIds /\ created' \notin 1..created
      /\ DOMAIN jobs' = DOMAIN jobs \cup {created'}
      /\ jobs'[created'].p = work[w].p /\ jobs'[created'].by = w
      /\ \A j \in DOMAIN jobs : jobs'[j] = jobs[j]
      /\ work[w].at = "schedule" /\ work[w].p \in Proposals
  BY NewJob
<1>2. /\ work' \in [Workers -> Attempts]
      /\ \A v \in Workers \ {w} : work'[v] = work[v]
      /\ work'[w].p = work[w].p /\ ~work'[w].listed
      /\ \/ work'[w].ref = created' /\ work'[w].at \in {"approve", "halt"}
         \/ work'[w].ref = work[w].ref /\ work'[w].at = "undo"
  BY ScheduleWork
<1>3. created \in Nat /\ DOMAIN jobs \subseteq 1..created /\ 1..created \subseteq 1..created'
      /\ created' \in 1..created' /\ created' # NoRef
  BY <1>1, RefFacts DEF WorkInv, WorkType, JobIds
<1>4. WorkType'
  <2>1. created' \in Nat /\ created' <= MaxJobs /\ DOMAIN jobs' \subseteq 1..created'
    BY <1>1, <1>3, AuthorityAssumption DEF JobIds
  <2>2. \A j \in DOMAIN jobs' : jobs'[j].p \in Proposals /\ jobs'[j].by \in Workers
    BY <1>1 DEF WorkInv, WorkType
  <2> QED BY <1>2, <2>1, <2>2 DEF WorkType
<1>5. AttemptHasProposal'
  BY <1>1, <1>2 DEF WorkInv, AttemptHasProposal
<1>6. HandlesApart'
  <2>1. \A v \in Workers : work'[v].ref # NoRef
          => \/ work'[v].ref = work[v].ref /\ work'[v].ref \in 1..created
             \/ v = w /\ work'[v].ref = created'
    BY <1>2 DEF WorkInv, HandlesApart
  <2>2. \A v \in Workers : work'[v].at \in Handling => work'[v].ref # NoRef
    BY <1>2, <1>3 DEF WorkInv, HandlesApart, Handling
  <2>3. ASSUME NEW v \in Workers, work'[v].ref # NoRef
        PROVE  /\ work'[v].ref \in 1..created'
               /\ work'[v].ref \in DOMAIN jobs'
                  => jobs'[work'[v].ref].p = work'[v].p /\ jobs'[work'[v].ref].by = v
    <3>1. CASE v = w /\ work'[v].ref = created'
      BY <1>1, <1>2, <1>3, <3>1
    <3>2. CASE work'[v].ref = work[v].ref /\ work'[v].ref \in 1..created
      <4>1. work'[v].ref \in DOMAIN jobs' => work'[v].ref \in DOMAIN jobs
        BY <1>1, <3>2
      <4>2. work'[v].p = work[v].p
        BY <1>2
      <4> QED BY <1>1, <1>3, <2>3, <3>2, <4>1, <4>2 DEF WorkInv, HandlesApart
    <3> QED BY <2>1, <2>3, <3>1, <3>2
  <2>4. ASSUME NEW v \in Workers, work'[v].ref # NoRef, NEW u \in Workers \ {v}
        PROVE  work'[u].ref # work'[v].ref
    BY <1>1, <2>1, <2>4 DEF WorkInv, HandlesApart
  <2> QED BY <2>2, <2>3, <2>4 DEF HandlesApart
<1>7. CleanupSound'
  <2>1. \A v \in Workers \ {w} : work'[v].ref \in DOMAIN jobs' => work[v].ref \in DOMAIN jobs
    BY <1>1, <1>2, <1>3 DEF WorkInv, HandlesApart
  <2>2. work'[w].at # "acknowledge"
    BY <1>2
  <2> QED BY <1>2, <2>1, <2>2 DEF WorkInv, CleanupSound
<1> QED BY <1>4, <1>5, <1>6, <1>7 DEF WorkInv

\* The refreshed gate or the scheduler refuses.
LEMMA RefusedKeeps ==
  ASSUME WorkInv, NEW w \in Workers, ScheduleFails(w)
  PROVE  WorkInv'
<1>1. /\ work[w].at = "schedule" /\ Goto(w, "undo") /\ UNCHANGED <<jobs, created>>
      /\ "undo" \in Points /\ "undo" \notin Handling /\ "undo" # "acknowledge"
  BY DEF ScheduleFails, Points, Handling
<1> QED BY <1>1, MoveKeeps

-----------------------------------------------------------------------------
(* The queue under its workers. *)

\* A call to the daemon is a step of the queue.
LEMMA CallIsQueueStep ==
  ASSUME WorkInv, NEW w \in Workers, NEW now \in RequestTimes,
         ApproveCall(w, now) \/ ReportCall(w, now) \/ ReserveCall(w, now)
           \/ AcknowledgeCall(w, now) \/ RejectCall(w, now) \/ ReadCall(w)
  PROVE  [Next]_vars
<1>0. work[w].at # "idle" /\ work[w].p \in Proposals
  BY CallTransitions DEF WorkInv, AttemptHasProposal
<1>1. work[w].at \in Handling => work[w].ref \in Refs
  <2>1. work[w].ref \in JobIds \cup {NoRef}
    BY DEF WorkInv, WorkType, Attempts
  <2> QED BY <2>1, RefFacts DEF WorkInv, HandlesApart
<1>2. ConsumerOf[w] \in Consumers
  BY AuthorityAssumption
<1>3. CASE ApproveCall(w, now)
  BY <1>0, <1>1, <1>2, <1>3 DEF ApproveCall, RequestLost, Handling, Next, Resolve
<1>4. CASE ReportCall(w, now)
  BY <1>0, <1>1, <1>4, RefFacts DEF ReportCall, RequestLost, Handling, Next, Resolve
<1>5. CASE ReserveCall(w, now)
  BY <1>0, <1>1, <1>5 DEF ReserveCall, RequestLost, Handling, Next, Resolve
<1>6. CASE AcknowledgeCall(w, now)
  <2>1. {work[w].ref} \in SUBSET Refs
    BY <1>1, <1>6 DEF AcknowledgeCall, Handling
  <2> QED BY <1>0, <1>6, <2>1 DEF AcknowledgeCall, Next, Resolve
<1>7. CASE RejectCall(w, now)
  BY <1>0, <1>2, <1>7 DEF RejectCall, Next, Resolve
<1>8. CASE ReadCall(w)
  BY <1>8 DEF ReadCall, RequestLost
<1> QED BY <1>3, <1>4, <1>5, <1>6, <1>7, <1>8

\* Everything the workers, the host and the store do is a step of the queue.
LEMMA QueueStep == WorkInv /\ [AuthorityNext]_allVars => [Next]_vars
<1> SUFFICES ASSUME WorkInv, [AuthorityNext]_allVars PROVE [Next]_vars
  OBVIOUS
<1>1. ASSUME NEW w \in Workers, WorkerStep(w) PROVE [Next]_vars
  <2>1. CASE UNCHANGED vars
    BY <2>1
  <2>2. CASE ReadCall(w)
    BY <2>2 DEF ReadCall, RequestLost
  <2>3. ASSUME NEW now \in RequestTimes,
               \/ ApproveCall(w, now) \/ ReportCall(w, now) \/ ReserveCall(w, now)
               \/ AcknowledgeCall(w, now) \/ RejectCall(w, now)
        PROVE  [Next]_vars
    BY <2>3, CallIsQueueStep
  <2> QED BY <1>1, <2>1, <2>2, <2>3
          DEF WorkerStep, Begin, Drop, ListTag, RemoveListed, ListFails, ScheduleTurn, ScheduleFails
<1>2. ASSUME NEW w \in Workers, NEW now \in RequestTimes, Poll(w, now) PROVE [Next]_vars
  BY <1>2, AuthorityAssumption DEF Poll, Next
<1>3. ASSUME NEW w \in Workers, Crash(w) \/ StopStart(w) PROVE [Next]_vars
  BY <1>3 DEF Crash, StopStart
<1>4. ASSUME NEW j \in JobIds, RunJob(j) PROVE [Next]_vars
  BY <1>4 DEF RunJob
<1>5. CASE Issue \/ Store \/ ReadHealth \/ Tick
  BY <1>5 DEF Next
<1>6. CASE UNCHANGED allVars
  BY <1>6 DEF allVars
<1> QED BY <1>1, <1>2, <1>3, <1>4, <1>5, <1>6 DEF AuthorityNext

\* Every step keeps the attempts in order.
LEMMA WorkKeeps == TypeOK /\ WorkInv /\ [AuthorityNext]_allVars => WorkInv'
<1> SUFFICES ASSUME TypeOK, WorkInv, [AuthorityNext]_allVars PROVE WorkInv'
  OBVIOUS
<1>1. ASSUME NEW w \in Workers, WorkerStep(w) PROVE WorkInv'
  <2>1. clock \in RequestTimes
    BY ConstantsAssumption DEF RequestTimes, TypeOK
  <2>2. CASE ReadCall(w)
    BY <2>1, <2>2, CallKeeps
  <2>3. ASSUME NEW now \in RequestTimes,
               \/ ApproveCall(w, now) \/ ReportCall(w, now) \/ ReserveCall(w, now)
               \/ AcknowledgeCall(w, now) \/ RejectCall(w, now)
        PROVE  WorkInv'
    BY <2>3, CallKeeps
  <2> QED BY <1>1, <2>2, <2>3, AttemptKeeps, ListKeeps, RemoveKeeps, ScheduleKeeps, RefusedKeeps
          DEF WorkerStep
<1>2. ASSUME NEW w \in Workers, (\E now \in RequestTimes : Poll(w, now)) \/ Crash(w) PROVE WorkInv'
  BY <1>2, AttemptKeeps
<1>3. ASSUME NEW j \in JobIds, RunJob(j) PROVE WorkInv'
  BY <1>3, StillWork DEF RunJob
<1>4. CASE UNCHANGED <<work, jobs, created>>
  BY <1>4, StillWork
<1> QED BY <1>1, <1>2, <1>3, <1>4 DEF AuthorityNext, StopStart, authority, allVars

\* An unresolved record keeps its handles, unless the only one is acknowledged
\* by the attempt that cancelled it.
UncertainKept(p) == agency'[p].status = "uncertain" /\ agency[p].refs \subseteq agency'[p].refs

Acknowledging(w, p) ==
  /\ work[w].at = "acknowledge" /\ work[w].p = p /\ agency[p].refs = {work[w].ref}
  /\ Goto(w, "idle")

\* The handles of a report hold the earlier ones and the reported one.
LEMMA ReportedRecord ==
  ASSUME TypeOK, NEW p \in Proposals, NEW ref \in Refs, NEW now \in RequestTimes,
         ReportUncertain(p, ref, now)
  PROVE  /\ agency'[p].status = "uncertain"
         /\ agency'[p].refs = HandlesWith(p, ref) /\ ref \in agency'[p].refs
         /\ agency[p].refs \subseteq agency'[p].refs
         /\ agency[p].ref \in agency'[p].refs \cup {NoRef}
         /\ \A q \in Proposals \ {p} : agency'[q] = agency[q]
<1> DEFINE refs == HandlesWith(p, ref)
           rec == [Closed(agency[p], "uncertain", now) EXCEPT !.ref = ref, !.refs = refs]
<1>0. agency[p] \in Records /\ ref # NoRef /\ agency \in [Proposals -> Records]
  BY ConstantsAssumption DEF TypeOK
<1>1. refs = agency[p].refs \cup ({agency[p].ref, ref} \ {NoRef})
  BY DEF HandlesWith
<1>2. agency' = [agency EXCEPT ![p] = rec]
  BY DEF ReportUncertain, Persist
<1> HIDE DEF refs
<1>3. rec.status = "uncertain" /\ rec.refs = refs
  BY <1>0 DEF Closed, Records
<1> HIDE DEF rec
<1>4. agency'[p] = rec /\ \A q \in Proposals \ {p} : agency'[q] = agency[q]
  BY <1>0, <1>2
<1> QED BY <1>0, <1>1, <1>3, <1>4 DEF refs

\* Decisions about a lease touch leased records only.
LEMMA LeasedOnly ==
  ASSUME TypeOK, NEW p \in Proposals, NEW q \in Proposals, NEW c, NEW ref, NEW now,
         Approve(q, c, ref, now) \/ Reject(q, c, now) \/ ResolveExpired(q, c, now),
         agency[p].status # "claimed"
  PROVE  agency'[p] = agency[p]
<1>1. q # p
  BY DEF Approve, Reject, ResolveExpired, Approvable, LeaseLive, HoldsClaim
<1>2. \A rec : Persist(q, rec) => agency'[p] = agency[p]
  BY <1>1 DEF Persist, TypeOK
<1> QED BY <1>2 DEF Approve, Reject, ResolveExpired

\* The store itself never touches a record that is no longer open.
LEMMA StoreLeavesSettled ==
  ASSUME IInv, NEW p \in Proposals, agency[p].status \in {"uncertain", "approved"},
         \/ Issue \/ Store \/ ReadHealth \/ Tick
         \/ \E c \in Consumers, now \in RequestTimes : Claim(c, now)
  PROVE  agency'[p] = agency[p]
<1>0. TypeOK /\ ActiveProjection
  BY DEF IInv
<1>1. ASSUME NEW q \in Proposals, NEW now \in RequestTimes, PutAgencyProposal(q, now)
      PROVE  agency'[p] = agency[p]
  <2>1. q # p
    BY <1>1 DEF PutAgencyProposal
  <2> QED BY <1>0, <1>1, <2>1, IssuedRecord
<1>2. ASSUME NEW c \in Consumers, NEW now \in RequestTimes, Claim(c, now)
      PROVE  agency'[p] = agency[p]
  <2>1. now \in Nat
    BY <1>0 DEF RequestTimes, TypeOK
  <2>2. p \notin SweptRejected \cup SweptExpired(now) \cup Chosen(now)
    BY <1>0, <2>1, SweptOpen DEF Open
  <2> QED BY <1>2, <2>2 DEF Claim
<1>3. ASSUME NEW removed, DeleteEvents(removed) PROVE agency'[p] = agency[p]
  <2>1. active[p].status \notin Open
    BY <1>0, NoRecordType DEF ActiveProjection, Open
  <2>2. p \notin Citing(removed)
    BY <2>1 DEF Citing
  <2> QED BY <1>3, <2>2 DEF DeleteEvents
<1>4. CASE UNCHANGED agency
  BY <1>4
<1> QED BY <1>1, <1>2, <1>3, <1>4
        DEF Issue, PutDuplicate, Store, Put, Delete, DeleteBefore, OtherMutation, ReadHealth, Tick

\* The handle of a call is a reference of the store.
LEMMA CallRef ==
  ASSUME WorkInv, NEW w \in Workers, work[w].at \in Handling
  PROVE  work[w].ref \in Refs /\ work[w].ref \in JobIds
<1>1. work[w].ref \in JobIds \cup {NoRef}
  BY DEF WorkInv, WorkType, Attempts
<1> QED BY <1>1, RefFacts DEF WorkInv, HandlesApart

\* An approved or unresolved record is left alone, reported, or cleared by the
\* attempt that cancelled its only handle.
Reported(p) == \E ref \in Refs, now \in RequestTimes : ReportUncertain(p, ref, now)

SettledStep(p) ==
  \/ agency'[p] = agency[p]
  \/ Reported(p)
  \/ agency[p].status = "uncertain" /\ \E w \in Workers : Acknowledging(w, p)

\* Calls to the daemon do this.
LEMMA CallSettled ==
  ASSUME TypeOK, WorkInv, NEW w \in Workers, NEW now \in RequestTimes,
         ApproveCall(w, now) \/ ReportCall(w, now) \/ ReserveCall(w, now)
           \/ AcknowledgeCall(w, now) \/ RejectCall(w, now) \/ ReadCall(w),
         NEW p \in Proposals, agency[p].status \in {"uncertain", "approved"}
  PROVE  SettledStep(p)
<1>1. work[w].p \in Proposals
  BY CallTransitions DEF WorkInv, AttemptHasProposal
<1>2. CASE UNCHANGED vars
  BY <1>2 DEF SettledStep, vars
<1>3. ASSUME NEW ref \in Refs, ReportUncertain(work[w].p, ref, now) PROVE SettledStep(p)
  BY <1>1, <1>3, ReportedRecord DEF SettledStep, Reported
<1>4. CASE ApproveCall(w, now) \/ RejectCall(w, now)
  BY <1>1, <1>2, <1>4, LeasedOnly DEF ApproveCall, RejectCall, RequestLost, SettledStep
<1>5. CASE ReportCall(w, now)
  BY <1>2, <1>3, <1>5, CallRef, RefFacts DEF ReportCall, RequestLost, Handling
<1>6. CASE ReserveCall(w, now)
  BY <1>2, <1>3, <1>6, CallRef DEF ReserveCall, RequestLost, Handling
<1>7. CASE AcknowledgeCall(w, now)
  <2>1. CASE AcknowledgeCancellation(work[w].p, {work[w].ref}, now) /\ work[w].p = p
    BY <1>7, <2>1 DEF AcknowledgeCall, AcknowledgeCancellation, Acknowledging, SettledStep
  <2>2. CASE AcknowledgeCancellation(work[w].p, {work[w].ref}, now) /\ work[w].p # p
    <3>1. \A rec : Persist(work[w].p, rec) => agency'[p] = agency[p]
      BY <1>1, <2>2 DEF Persist, TypeOK
    <3> QED BY <2>2, <3>1 DEF AcknowledgeCancellation, SettledStep
  <2> QED BY <1>2, <1>7, <2>1, <2>2 DEF AcknowledgeCall
<1>8. CASE ReadCall(w)
  BY <1>2, <1>8 DEF ReadCall, RequestLost
<1> QED BY <1>4, <1>5, <1>6, <1>7, <1>8

\* Every step does.
LEMMA NextSettled ==
  ASSUME IInv, WorkInv, [AuthorityNext]_allVars,
         NEW p \in Proposals, agency[p].status \in {"uncertain", "approved"}
  PROVE  SettledStep(p)
<1>0. TypeOK
  BY DEF IInv
<1>1. CASE UNCHANGED agency
  BY <1>1 DEF SettledStep
<1>2. clock \in RequestTimes
  BY <1>0, ConstantsAssumption DEF RequestTimes, TypeOK
<1>3. ASSUME NEW w \in Workers, WorkerStep(w) PROVE SettledStep(p)
  BY <1>0, <1>1, <1>2, <1>3, CallSettled
  DEF WorkerStep, Begin, Drop, ListTag, RemoveListed, ListFails, ScheduleTurn, ScheduleFails, vars
<1>4. ASSUME NEW w \in Workers, NEW now \in RequestTimes, Poll(w, now) PROVE SettledStep(p)
  BY <1>4, StoreLeavesSettled, AuthorityAssumption DEF Poll, SettledStep
<1>5. CASE Issue \/ Store \/ ReadHealth \/ Tick
  BY <1>5, StoreLeavesSettled DEF SettledStep
<1> QED BY <1>1, <1>3, <1>4, <1>5
        DEF AuthorityNext, Crash, StopStart, RunJob, allVars, vars

\* What a step does to an unresolved record.
LEMMA UncertainStep ==
  ASSUME IInv, WorkInv, [AuthorityNext]_allVars, NEW p \in Proposals, agency[p].status = "uncertain"
  PROVE  UncertainKept(p) \/ \E w \in Workers : Acknowledging(w, p)
<1>1. TypeOK
  BY DEF IInv
<1>2. Reported(p) => UncertainKept(p)
  BY <1>1, ReportedRecord DEF Reported, UncertainKept
<1> QED BY <1>2, NextSettled DEF SettledStep, UncertainKept

-----------------------------------------------------------------------------
(* Compensation. *)

Compensating(v) == work[v].at \in {"cancel", "acknowledge"}

\* An attempt compensates because it did before, or because its reservation
\* has just been recorded.
CompensationStep(v) ==
  Compensating(v)'
  => \/ Compensating(v) /\ work'[v].p = work[v].p /\ work'[v].ref = work[v].ref
     \/ /\ agency'[work'[v].p].status = "uncertain"
        /\ work'[v].ref \in agency'[work'[v].p].refs

\* Calls to the daemon.
LEMMA CallCompensates ==
  ASSUME TypeOK, WorkInv, NEW w \in Workers, NEW now \in RequestTimes,
         ApproveCall(w, now) \/ ReportCall(w, now) \/ ReserveCall(w, now)
           \/ AcknowledgeCall(w, now) \/ RejectCall(w, now) \/ ReadCall(w),
         NEW v \in Workers
  PROVE  CompensationStep(v)
<1>1. PICK at \in {"idle", "retry", "read", "report", "reserve", "cancel"} :
        /\ Goto(w, at)
        /\ at = "cancel" => /\ ReportUncertain(work[w].p, work[w].ref, now)
                            /\ work[w].at = "reserve"
  BY CallTransitions
<1>2. at \in Points
  BY DEF Points
<1>3. CASE v # w
  <2>1. work'[v] = work[v]
    BY <1>1, <1>2, <1>3, GotoStep DEF WorkInv
  <2> QED BY <2>1 DEF CompensationStep, Compensating
<1>4. CASE v = w
  <2>1. work'[w].at = at /\ (at # "idle" => work'[w].p = work[w].p /\ work'[w].ref = work[w].ref)
    BY <1>1, <1>2, GotoStep DEF WorkInv
  <2>2. ASSUME at = "cancel"
        PROVE  /\ agency'[work[w].p].status = "uncertain"
               /\ work[w].ref \in agency'[work[w].p].refs
    <3>1. work[w].at = "reserve" /\ work[w].p \in Proposals
      BY <1>1, <2>2 DEF WorkInv, AttemptHasProposal
    <3>2. work[w].ref \in Refs
      <4>1. work[w].ref \in JobIds \cup {NoRef}
        BY DEF WorkInv, WorkType, Attempts
      <4> QED BY <3>1, <4>1, RefFacts DEF WorkInv, HandlesApart, Handling
    <3> QED BY <1>1, <2>2, <3>1, <3>2, ReportedRecord
  <2> QED BY <1>4, <2>1, <2>2 DEF CompensationStep, Compensating
<1> QED BY <1>3, <1>4

\* Calls to the scheduler, and the start and end of an attempt.
LEMMA OtherCompensates ==
  ASSUME WorkInv, NEW w \in Workers,
         \/ \E now \in RequestTimes : Poll(w, now)
         \/ \E p \in Proposals : Begin(w, p)
         \/ Drop(w) \/ Crash(w) \/ ListTag(w) \/ RemoveListed(w) \/ ListFails(w)
         \/ ScheduleTurn(w) \/ ScheduleFails(w),
         NEW v \in Workers
  PROVE  CompensationStep(v)
<1>0. work \in [Workers -> Attempts] /\ work[w] \in Attempts
  BY DEF WorkInv, WorkType
<1>1. ASSUME work'[v].at \in {"idle", "clean", "reject", "approve", "halt", "undo"}
      PROVE  CompensationStep(v)
  BY <1>1 DEF CompensationStep, Compensating
<1>2. ASSUME work'[v].at = work[v].at, work'[v].p = work[v].p, work'[v].ref = work[v].ref
      PROVE  CompensationStep(v)
  BY <1>2 DEF CompensationStep, Compensating
<1>3. CASE \E now \in RequestTimes : Poll(w, now)
  BY <1>0, <1>2, <1>3 DEF Poll, Attempts
<1>4. CASE (\E p \in Proposals : Begin(w, p)) \/ Drop(w) \/ Crash(w)
  <2>1. \A todo : Idle(todo).at = "idle"
    BY DEF Idle
  <2>2. v # w => work'[v] = work[v]
    BY <1>0, <1>4 DEF Begin, Drop, Crash
  <2>3. work'[w].at \in {"idle", "clean", "reject"}
    <3>1. CASE Drop(w) \/ Crash(w)
      BY <1>0, <2>1, <3>1 DEF Drop, Crash
    <3>2. CASE \E p \in Proposals : Begin(w, p)
      <4>1. PICK p \in Proposals : Begin(w, p)
        BY <3>2
      <4> DEFINE at == IF Gate(p, clock) THEN "clean" ELSE "reject"
                 a == [Idle(work[w].todo \ {p}) EXCEPT !.p = p, !.at = at]
      <4>2. work' = [work EXCEPT ![w] = a]
        BY <4>1 DEF Begin
      <4>3. a.at = at /\ at \in {"clean", "reject"}
        BY DEF Idle
      <4> HIDE DEF a, at
      <4> QED BY <1>0, <4>2, <4>3
    <3> QED BY <1>4, <3>1, <3>2
  <2> QED BY <1>1, <1>2, <2>2, <2>3
<1>5. CASE ListTag(w)
  BY <1>0, <1>2, <1>5 DEF ListTag, Attempts
<1>6. CASE RemoveListed(w) \/ ListFails(w)
  <2>1. PICK at \in Points : /\ Goto(w, at) /\ at # "cancel" /\ at # "idle"
                             /\ at = "acknowledge" => work[w].at = "cancel"
    BY <1>6, RemoveStep, CleanupTable DEF Handling
  <2>2. /\ work'[w].at = at /\ work'[w].p = work[w].p /\ work'[w].ref = work[w].ref
        /\ \A u \in Workers \ {w} : work'[u] = work[u]
    BY <2>1, GotoStep DEF WorkInv
  <2> QED BY <2>1, <2>2 DEF CompensationStep, Compensating
<1>7. CASE ScheduleTurn(w)
  BY <1>1, <1>2, <1>7, ScheduleWork
<1>8. CASE ScheduleFails(w)
  <2>1. Goto(w, "undo") /\ "undo" \in Points
    BY <1>8 DEF ScheduleFails, Points
  <2>2. work'[w].at = "undo" /\ \A u \in Workers \ {w} : work'[u] = work[u]
    BY <2>1, GotoStep DEF WorkInv
  <2> QED BY <1>1, <1>2, <2>2
<1> QED BY <1>3, <1>4, <1>5, <1>6, <1>7, <1>8

\* Every step.
LEMMA NextCompensates ==
  ASSUME TypeOK, WorkInv, [AuthorityNext]_allVars, NEW v \in Workers
  PROVE  CompensationStep(v)
<1>1. CASE UNCHANGED work
  BY <1>1 DEF CompensationStep, Compensating
<1>2. clock \in RequestTimes
  BY ConstantsAssumption DEF RequestTimes, TypeOK
<1>3. ASSUME NEW w \in Workers, WorkerStep(w) PROVE CompensationStep(v)
  BY <1>2, <1>3, CallCompensates, OtherCompensates DEF WorkerStep
<1>4. ASSUME NEW w \in Workers, (\E now \in RequestTimes : Poll(w, now)) \/ Crash(w)
      PROVE  CompensationStep(v)
  BY <1>4, OtherCompensates
<1> QED BY <1>1, <1>3, <1>4 DEF AuthorityNext, StopStart, RunJob, authority, allVars

\* A turn under compensation stays reserved: the only step that clears its
\* record is the attempt's own acknowledgement, which ends it.
LEMMA CompensationKeeps ==
  ASSUME AInv, [AuthorityNext]_allVars
  PROVE  CompensationReserved'
<1>0. IInv /\ TypeOK /\ WorkInv /\ WorkInv'
  BY WorkKeeps DEF AInv, IInv, WorkInv
<1> SUFFICES ASSUME NEW v \in Workers, Compensating(v)'
             PROVE  /\ agency'[work'[v].p].status = "uncertain"
                    /\ work'[v].ref \in agency'[work'[v].p].refs
  BY DEF CompensationReserved, Compensating
<1> DEFINE p == work[v].p
<1>1. CASE Compensating(v) /\ work'[v].p = p /\ work'[v].ref = work[v].ref
  <2>1. /\ agency[p].status = "uncertain" /\ work[v].ref \in agency[p].refs
        /\ p \in Proposals /\ work[v].ref # NoRef
    BY <1>0, <1>1 DEF AInv, CompensationReserved, Compensating, WorkInv, AttemptHasProposal,
                      HandlesApart, Handling
  <2>2. CASE UncertainKept(p)
    BY <1>1, <2>1, <2>2 DEF UncertainKept
  <2>3. ASSUME NEW w \in Workers, Acknowledging(w, p) PROVE FALSE
    <3>1. work[w].ref = work[v].ref /\ Goto(w, "idle") /\ "idle" \in Points
      BY <2>1, <2>3 DEF Acknowledging, Points
    <3>2. w = v
      BY <1>0, <2>1, <3>1 DEF WorkInv, HandlesApart
    <3>3. work'[v].at = "idle"
      BY <1>0, <3>1, <3>2, GotoStep DEF WorkInv
    <3> QED BY <3>3 DEF Compensating
  <2> QED BY <1>0, <2>1, <2>2, <2>3, UncertainStep
<1> QED BY <1>0, <1>1, NextCompensates DEF CompensationStep

\* The inductive invariant holds throughout.
THEOREM AuthorityInvariant == AuthoritySpec => []AInv
<1>1. AuthorityInit => AInv
  <2> SUFFICES ASSUME AuthorityInit PROVE AInv
    OBVIOUS
  <2>1. IInv
    BY InitInv DEF AuthorityInit
  <2>2. \A w \in Workers : work[w] = Idle({})
    BY DEF AuthorityInit
  <2>3. /\ Idle({}) \in Attempts /\ Idle({}).at = "idle" /\ Idle({}).p = NoProposal
        /\ Idle({}).ref = NoRef /\ ~Idle({}).listed
    BY DEF Idle, Attempts, Points
  <2>4. WorkType
    BY <2>3, AuthorityAssumption DEF AuthorityInit, WorkType
  <2>5. AttemptHasProposal /\ HandlesApart /\ CleanupSound /\ CompensationReserved
    BY <2>2, <2>3 DEF AttemptHasProposal, HandlesApart, CleanupSound, CompensationReserved,
                      Handling, Cleanups
  <2> QED BY <2>1, <2>4, <2>5 DEF AInv
<1>2. AInv /\ [AuthorityNext]_allVars => AInv'
  <2> SUFFICES ASSUME AInv, [AuthorityNext]_allVars PROVE AInv'
    OBVIOUS
  <2>1. WorkInv /\ WorkInv' /\ [Next]_vars
    BY WorkKeeps, QueueStep DEF AInv, IInv, WorkInv
  <2>2. IInv'
    BY <2>1, NextInv DEF AInv
  <2> QED BY <2>1, <2>2, CompensationKeeps DEF AInv, WorkInv
<1> QED BY <1>1, <1>2, PTL DEF AuthoritySpec

\* A turn whose approval failed is cancelled only while its record is reserved
\* as uncertain and names it.
THEOREM CompensationsReserved == AuthoritySpec => []CompensationReserved
<1>1. AInv => CompensationReserved
  BY DEF AInv
<1> QED BY <1>1, AuthorityInvariant, PTL

\* With its workers, failing calls and crashes, the queue still behaves as
\* AgencyQueue says: what is proved about the queue holds for the system.
THEOREM AuthorityImplementsQueue == AuthoritySpec => Spec
<1>1. AuthorityInit => Init
  BY DEF AuthorityInit
<1>2. AInv /\ [AuthorityNext]_allVars => [Next]_vars
  BY QueueStep DEF AInv, WorkInv
<1> QED BY <1>1, <1>2, AuthorityInvariant, PTL DEF AuthoritySpec, Spec

\* An uncertain record is cleared only when none of its handles can run: by
\* the attempt that holds the only one and found its job gone.
THEOREM ClearedCannotRun == AuthoritySpec => ClearedMeansCancelled
<1>1. AInv /\ [AuthorityNext]_allVars
      => [\A p \in Proposals :
            agency[p].status = "uncertain" /\ agency'[p].status # "uncertain"
            => agency[p].refs \cap DOMAIN jobs = {}]_allVars
  <2> SUFFICES ASSUME AInv, [AuthorityNext]_allVars, NEW p \in Proposals,
                      agency[p].status = "uncertain", agency'[p].status # "uncertain"
               PROVE  agency[p].refs \cap DOMAIN jobs = {}
    OBVIOUS
  <2>1. PICK w \in Workers : Acknowledging(w, p)
    BY UncertainStep DEF AInv, WorkInv, UncertainKept
  <2> QED BY <2>1 DEF Acknowledging, AInv, CleanupSound
<1> QED BY <1>1, AuthorityInvariant, PTL DEF AuthoritySpec, ClearedMeansCancelled

-----------------------------------------------------------------------------
(* No scheduled turn is forgotten.  A dying worker forgets its attempt, and  *)
(* a report that never reaches the store is not repeated: without these      *)
(* two, and with room for every handle on a record, a job is always held     *)
(* by its attempt or named by its record.                                    *)

NothingForgotten == Faults \cap {"crash", "request"} = {} /\ MaxRefs >= MaxJobs + 1

\* Then no report is refused.
LEMMA NeverFull ==
  ASSUME TypeOK, NothingForgotten, NEW p \in Proposals, NEW ref \in Refs
  PROVE  ~HandlesFull(p, ref)
<1>1. MaxJobs \in Nat /\ MaxRefs \in Nat /\ Refs = (1..MaxJobs) \cup {TagRef}
      /\ TagRef \notin 1..MaxJobs
  BY ConstantsAssumption, AuthorityAssumption DEF JobIds
<1>2. IsFiniteSet(1..MaxJobs) /\ Cardinality(1..MaxJobs) = MaxJobs
  BY <1>1, FS_Interval
<1>3. IsFiniteSet(Refs) /\ Cardinality(Refs) = MaxJobs + 1
  BY <1>1, <1>2, FS_AddElement
<1>4. agency[p] \in Records
  BY DEF TypeOK
<1>5. HandlesWith(p, ref) \in SUBSET Refs
  <2>1. agency[p].refs \in SUBSET Refs /\ agency[p].ref \in Refs \cup {NoRef}
    BY <1>4 DEF Records
  <2> QED BY <2>1 DEF HandlesWith
<1>6. /\ Cardinality(HandlesWith(p, ref)) <= Cardinality(Refs)
      /\ IsFiniteSet(HandlesWith(p, ref))
  BY <1>3, <1>5, FS_Subset
<1>7. Cardinality(HandlesWith(p, ref)) \in Nat
  BY <1>6, FS_CardinalityType
<1> QED BY <1>1, <1>3, <1>6, <1>7 DEF HandlesFull, NothingForgotten

\* A job the record names stays named.
LEMMA RecordedKept ==
  ASSUME AInv, [AuthorityNext]_allVars, NEW j \in DOMAIN jobs, JobRecorded(j),
         j \in DOMAIN jobs', jobs'[j] = jobs[j]
  PROVE  JobRecorded(j)'
<1> DEFINE p == jobs[j].p
<1>0. /\ IInv /\ WorkInv /\ TypeOK /\ p \in Proposals /\ j \in JobIds
  BY AuthorityAssumption DEF AInv, IInv, WorkInv, WorkType, JobIds
<1> SUFFICES \/ agency'[p].status = "approved" /\ agency'[p].ref = j
             \/ agency'[p].status = "uncertain" /\ agency'[p].refs \cap {j, TagRef} # {}
  BY DEF JobRecorded
<1>1. CASE agency[p].status = "uncertain"
  <2>1. agency[p].refs \cap {j, TagRef} # {}
    BY <1>1 DEF JobRecorded
  <2>2. ASSUME NEW w \in Workers, Acknowledging(w, p) PROVE FALSE
    <3>1. work[w].at = "acknowledge" /\ agency[p].refs = {work[w].ref}
      BY <2>2 DEF Acknowledging
    <3>2. work[w].ref \in JobIds /\ work[w].ref \notin DOMAIN jobs
      BY <1>0, <3>1, CallRef DEF Handling, WorkInv, CleanupSound
    <3> QED BY <2>1, <3>1, <3>2, RefFacts
  <2> QED BY <1>0, <1>1, <2>1, <2>2, UncertainStep DEF UncertainKept
<1>2. CASE agency[p].status = "approved"
  <2>1. agency[p].ref = j /\ j # NoRef
    BY <1>0, <1>2, RefFacts DEF JobRecorded
  <2>2. CASE Reported(p)
    BY <1>0, <2>1, <2>2, ReportedRecord DEF Reported
  <2>3. CASE agency'[p] = agency[p]
    BY <1>2, <2>1, <2>3
  <2> QED BY <1>0, <1>2, <2>2, <2>3, NextSettled DEF SettledStep
<1> QED BY <1>1, <1>2 DEF JobRecorded

\* The approval of a job names it.
LEMMA ApprovedNames ==
  ASSUME TypeOK, NEW p \in Proposals, NEW c, NEW ref, NEW now, Approve(p, c, ref, now)
  PROVE  agency'[p].status = "approved" /\ agency'[p].ref = ref
<1> DEFINE rec == [Closed(agency[p], "approved", now) EXCEPT !.ref = ref]
<1>1. agency[p] \in Records /\ agency' = [agency EXCEPT ![p] = rec]
  BY DEF Approve, Persist, TypeOK
<1>2. rec.status = "approved" /\ rec.ref = ref
  BY <1>1 DEF Closed, Records
<1> HIDE DEF rec
<1> QED BY <1>1, <1>2 DEF TypeOK

\* A call to the daemon names the job or goes on holding it.
LEMMA CallHolds ==
  ASSUME AInv, NothingForgotten, NEW j \in DOMAIN jobs, JobOwned(j), NEW w \in Workers,
         w = jobs[j].by, NEW now \in RequestTimes,
         ApproveCall(w, now) \/ ReportCall(w, now) \/ ReserveCall(w, now)
           \/ AcknowledgeCall(w, now) \/ RejectCall(w, now) \/ ReadCall(w)
  PROVE  JobOwned(j)' \/ JobRecorded(j)'
<1> DEFINE p == jobs[j].p
<1>0. /\ IInv /\ WorkInv /\ TypeOK /\ p \in Proposals /\ work[w].p = p
      /\ UNCHANGED jobs /\ "request" \notin Faults
  BY CallTransitions DEF AInv, IInv, WorkInv, WorkType, JobOwned, NothingForgotten
<1>1. ASSUME NEW at \in {"retry", "read", "report", "reserve"}, Goto(w, at), work[w].ref = j
      PROVE  JobOwned(j)'
  <2>1. at \in Points /\ at # "idle" /\ at \in Handling
    BY DEF Points, Handling
  <2>2. work'[w].at = at /\ work'[w].p = work[w].p /\ work'[w].ref = work[w].ref
    BY <1>0, <1>1, <2>1, GotoStep DEF WorkInv
  <2> QED BY <1>0, <1>1, <2>1, <2>2 DEF JobOwned
<1>2. ASSUME \/ agency'[p].status = "approved" /\ agency'[p].ref = j
             \/ agency'[p].status = "uncertain" /\ agency'[p].refs \cap {j, TagRef} # {}
      PROVE  JobRecorded(j)'
  BY <1>0, <1>2 DEF JobRecorded
<1>3. ASSUME NEW ref \in Refs \cap {j, TagRef}, ReportUncertain(p, ref, now) PROVE JobRecorded(j)'
  BY <1>0, <1>2, <1>3, ReportedRecord
<1>4. work[w].at \in Handling => work[w].ref = j /\ j \in Refs
  BY <1>0, CallRef DEF JobOwned, Handling
<1>5. CASE ApproveDuplicate(w) /\ UNCHANGED vars /\ work[w].at \in Handling
  BY <1>0, <1>2, <1>4, <1>5 DEF ApproveDuplicate, vars
<1>6. CASE ApproveCall(w, now)
  <2>1. work[w].at \in Handling
    BY <1>6 DEF ApproveCall, Handling
  <2>2. CASE Approve(p, ConsumerOf[w], work[w].ref, now)
    BY <1>0, <1>2, <1>4, <2>1, <2>2, ApprovedNames
  <2> QED BY <1>0, <1>1, <1>4, <1>5, <1>6, <2>1, <2>2 DEF ApproveCall, RequestLost
<1>7. CASE ReadCall(w)
  BY <1>0, <1>1, <1>4, <1>5, <1>7 DEF ReadCall, RequestLost, Handling
<1>8. CASE ReserveCall(w, now)
  <2>1. work[w].at \in Handling
    BY <1>8 DEF ReserveCall, Handling
  <2>2. ~HandlesFull(p, j)
    BY <1>0, <1>4, <2>1, NeverFull
  <2> QED BY <1>0, <1>3, <1>4, <1>8, <2>1, <2>2 DEF ReserveCall, RequestLost
<1>9. CASE ReportCall(w, now)
  <2> DEFINE ref == IF work[w].at = "report" THEN work[w].ref ELSE TagRef
  <2>1. ref \in Refs \cap {j, TagRef}
    BY <1>4, <1>9, RefFacts DEF ReportCall, Handling
  <2>2. ~HandlesFull(p, ref)
    BY <1>0, <2>1, NeverFull
  <2>3. ReportDuplicate(p, ref) /\ UNCHANGED vars => JobRecorded(j)'
    <3>1. agency[p].status = "uncertain" => agency[p].ref \in agency[p].refs
      BY <1>0 DEF IInv, NoApprovalAfterUncertainty
    <3> QED BY <1>2, <2>1, <3>1 DEF ReportDuplicate, vars
  <2>4. \/ ReportUncertain(p, ref, now) \/ (ReportDuplicate(p, ref) /\ UNCHANGED vars)
        \/ HandlesFull(p, ref)
    BY <1>0, <1>9 DEF ReportCall, RequestLost
  <2> HIDE DEF ref
  <2> QED BY <1>3, <2>1, <2>2, <2>3, <2>4
<1>10. CASE AcknowledgeCall(w, now) \/ RejectCall(w, now)
  <2>1. work[w].at \in {"acknowledge", "reject"}
    BY <1>10 DEF AcknowledgeCall, RejectCall
  <2>2. work[w].at = "acknowledge" /\ work[w].ref = j
    BY <2>1 DEF JobOwned, Handling
  <2> QED BY <1>0, <2>2 DEF WorkInv, CleanupSound
<1> QED BY <1>6, <1>7, <1>8, <1>9, <1>10

\* A call to the scheduler removes the job or goes on holding it.
LEMMA SchedulerHolds ==
  ASSUME AInv, NEW j \in DOMAIN jobs, JobOwned(j), j \in DOMAIN jobs', jobs'[j] = jobs[j],
         NEW w \in Workers, w = jobs[j].by,
         ListTag(w) \/ RemoveListed(w) \/ ListFails(w)
  PROVE  JobOwned(j)'
<1>0. WorkInv /\ work[w].p = jobs[j].p /\ work[w].at \in Cleanups /\ work[w] \in Attempts
      /\ work \in [Workers -> Attempts]
  BY DEF AInv, WorkInv, WorkType, JobOwned, ListTag, RemoveListed, ListFails
<1>1. CASE ListTag(w)
  <2> DEFINE found == {k \in DOMAIN jobs : jobs[k].p = work[w].p}
  <2>1. work' = [work EXCEPT ![w].listed = TRUE, ![w].found = found] /\ j \in found
    BY <1>0, <1>1 DEF ListTag
  <2> HIDE DEF found
  <2>2. /\ work'[w].found = found /\ work'[w].at = work[w].at /\ work'[w].p = work[w].p
        /\ work'[w].ref = work[w].ref
    BY <1>0, <2>1 DEF Attempts
  <2> QED BY <2>1, <2>2 DEF JobOwned
<1>2. CASE RemoveListed(w) \/ ListFails(w)
  <2>1. CASE work[w].listed /\ DOMAIN jobs' = DOMAIN jobs \ work[w].found
    <3>1. j \in work[w].found
      BY <1>0, <2>1 DEF JobOwned, WorkInv, CleanupSound, Cleanups
    <3> QED BY <2>1, <3>1
  <2>2. CASE Goto(w, AfterFailedCleanup[work[w].at])
    <3>1. work[w].at \in {"undo", "halt", "cancel"}
      BY <1>0 DEF JobOwned, Cleanups, Handling
    <3>2. \/ work[w].at = "undo" /\ AfterFailedCleanup[work[w].at] = "reportTag"
          \/ work[w].ref = j /\ AfterFailedCleanup[work[w].at] = "report"
      BY <3>1 DEF AfterFailedCleanup, JobOwned
    <3>3. AfterFailedCleanup[work[w].at] \in Points \ {"idle"}
      BY <1>0, CleanupTable
    <3>4. /\ work'[w].at = AfterFailedCleanup[work[w].at]
          /\ work'[w].p = work[w].p /\ work'[w].ref = work[w].ref
      BY <1>0, <2>2, <3>3, GotoStep DEF WorkInv
    <3> QED BY <1>0, <3>2, <3>4 DEF JobOwned, Handling
  <2> QED BY <1>0, <1>2, <2>1, <2>2, RemoveStep
<1> QED BY <1>1, <1>2

\* An attempt that makes another step holds no job.
LEMMA HoldsNone ==
  ASSUME NEW j \in DOMAIN jobs, JobOwned(j), NEW w, w = jobs[j].by
  PROVE  work[w].at \notin {"idle", "schedule"}
BY DEF JobOwned, Handling

\* The attempts of other workers stand still.
LEMMA OthersStand ==
  ASSUME TypeOK, WorkInv, NEW w \in Workers, WorkerStep(w) \/ \E now \in RequestTimes : Poll(w, now),
         NEW v \in Workers \ {w}
  PROVE  work'[v] = work[v]
<1>0. work \in [Workers -> Attempts]
  BY DEF WorkInv, WorkType
<1>1. ASSUME NEW at \in Points, Goto(w, at) PROVE work'[v] = work[v]
  BY <1>1, GotoStep DEF WorkInv
<1>2. CASE (\E p \in Proposals : Begin(w, p)) \/ Drop(w) \/ ListTag(w)
           \/ \E now \in RequestTimes : Poll(w, now)
  BY <1>0, <1>2 DEF Begin, Drop, ListTag, Poll
<1>3. CASE RemoveListed(w) \/ ListFails(w)
  BY <1>1, <1>3, RemoveStep, CleanupTable
<1>4. CASE ScheduleTurn(w)
  BY <1>4, ScheduleWork
<1>5. CASE ScheduleFails(w)
  BY <1>1, <1>5 DEF ScheduleFails, Points
<1>6. ASSUME NEW now \in RequestTimes,
             ApproveCall(w, now) \/ ReportCall(w, now) \/ ReserveCall(w, now)
               \/ AcknowledgeCall(w, now) \/ RejectCall(w, now) \/ ReadCall(w)
      PROVE  work'[v] = work[v]
  <2>1. PICK at \in {"idle", "retry", "read", "report", "reserve", "cancel"} : Goto(w, at)
    BY <1>6, CallTransitions
  <2> QED BY <1>1, <2>1 DEF Points
<1>7. clock \in RequestTimes
  BY ConstantsAssumption DEF RequestTimes, TypeOK
<1> QED BY <1>2, <1>3, <1>4, <1>5, <1>6, <1>7 DEF WorkerStep

\* A job that stays is held or named after every step.
LEMMA HeldKept ==
  ASSUME AInv, JobsHeld, NothingForgotten, [AuthorityNext]_allVars,
         NEW j \in DOMAIN jobs, j \in DOMAIN jobs', jobs'[j] = jobs[j]
  PROVE  JobOwned(j)' \/ JobRecorded(j)'
<1>0. TypeOK /\ WorkInv /\ jobs[j].by \in Workers
  BY DEF AInv, IInv, WorkInv, WorkType
<1>1. CASE JobRecorded(j)
  BY <1>1, RecordedKept
<1>2. CASE JobOwned(j)
  <2> DEFINE b == jobs[j].by
  <2>1. CASE work'[b] = work[b]
    BY <1>2, <2>1 DEF JobOwned
  <2>2. ASSUME NEW w \in Workers, WorkerStep(w) \/ \E now \in RequestTimes : Poll(w, now)
        PROVE  JobOwned(j)' \/ JobRecorded(j)'
    <3>1. CASE w # b
      BY <1>0, <2>1, <2>2, <3>1, OthersStand
    <3>2. CASE w = b
      <4>1. work[w].at \notin {"idle", "schedule"}
        BY <1>2, <3>2, HoldsNone
      <4>2. work[w] # Idle({})
        BY <4>1 DEF Idle
      <4>3. ASSUME NEW now \in RequestTimes,
                   ApproveCall(w, now) \/ ReportCall(w, now) \/ ReserveCall(w, now)
                     \/ AcknowledgeCall(w, now) \/ RejectCall(w, now) \/ ReadCall(w)
            PROVE  JobOwned(j)' \/ JobRecorded(j)'
        BY <1>2, <3>2, <4>3, CallHolds
      <4>4. CASE ListTag(w) \/ RemoveListed(w) \/ ListFails(w)
        BY <1>2, <3>2, <4>4, SchedulerHolds
      <4>5. clock \in RequestTimes
        BY <1>0, ConstantsAssumption DEF RequestTimes, TypeOK
      <4> QED BY <2>2, <4>1, <4>2, <4>3, <4>4, <4>5
              DEF WorkerStep, Begin, Drop, ScheduleTurn, ScheduleFails, Poll
    <3> QED BY <3>1, <3>2
  <2>3. CASE UNCHANGED work
    BY <2>1, <2>3
  <2>4. ASSUME NEW w \in Workers, Crash(w) PROVE FALSE
    BY <2>4 DEF Crash, NothingForgotten
  <2> QED BY <2>2, <2>3, <2>4 DEF AuthorityNext, StopStart, RunJob, authority, allVars
<1> QED BY <1>1, <1>2 DEF JobsHeld

\* Jobs are changed by scheduling and by removals only.
LEMMA JobsStep ==
  ASSUME TypeOK, WorkInv, [AuthorityNext]_allVars
  PROVE  \/ DOMAIN jobs' \subseteq DOMAIN jobs /\ \A j \in DOMAIN jobs' : jobs'[j] = jobs[j]
         \/ \E w \in Workers : ScheduleTurn(w)
<1>1. CASE UNCHANGED jobs
  BY <1>1
<1>2. ASSUME NEW w \in Workers, WorkerStep(w)
      PROVE  \/ DOMAIN jobs' \subseteq DOMAIN jobs /\ \A j \in DOMAIN jobs' : jobs'[j] = jobs[j]
             \/ ScheduleTurn(w)
  <2>1. ASSUME NEW now \in RequestTimes,
               ApproveCall(w, now) \/ ReportCall(w, now) \/ ReserveCall(w, now)
                 \/ AcknowledgeCall(w, now) \/ RejectCall(w, now) \/ ReadCall(w)
        PROVE  UNCHANGED jobs
    BY <2>1, CallTransitions
  <2>2. clock \in RequestTimes
    BY ConstantsAssumption DEF RequestTimes, TypeOK
  <2>3. CASE RemoveListed(w) \/ ListFails(w)
    BY <2>3, RemoveStep
  <2> QED BY <1>2, <2>1, <2>2, <2>3 DEF WorkerStep, Begin, Drop, ListTag, ScheduleFails
<1>3. ASSUME NEW j \in JobIds, RunJob(j)
      PROVE  DOMAIN jobs' \subseteq DOMAIN jobs /\ \A k \in DOMAIN jobs' : jobs'[k] = jobs[k]
  BY <1>3 DEF RunJob
<1> QED BY <1>1, <1>2, <1>3 DEF AuthorityNext, Poll, Crash, StopStart, authority, allVars

\* Every step keeps every job held or named.
LEMMA HeldKeeps ==
  ASSUME AInv, JobsHeld, NothingForgotten, [AuthorityNext]_allVars
  PROVE  JobsHeld'
<1>0. TypeOK /\ WorkInv
  BY DEF AInv, IInv, WorkInv
<1>1. CASE DOMAIN jobs' \subseteq DOMAIN jobs /\ \A j \in DOMAIN jobs' : jobs'[j] = jobs[j]
  BY <1>1, HeldKept DEF JobsHeld
<1>2. ASSUME NEW w \in Workers, ScheduleTurn(w) PROVE JobsHeld'
  <2>1. /\ DOMAIN jobs' = DOMAIN jobs \cup {created'}
        /\ jobs'[created'].p = work[w].p /\ jobs'[created'].by = w
        /\ \A j \in DOMAIN jobs : jobs'[j] = jobs[j]
    BY <1>0, <1>2, NewJob
  <2>2. /\ work'[w].p = work[w].p /\ ~work'[w].listed
        /\ \/ work'[w].ref = created' /\ work'[w].at \in {"approve", "halt"}
           \/ work'[w].at = "undo"
    BY <1>0, <1>2, ScheduleWork
  <2>3. \A j : j = created' => JobOwned(j)'
    BY <2>1, <2>2 DEF JobOwned, Handling
  <2>4. \A j \in DOMAIN jobs : JobOwned(j)' \/ JobRecorded(j)'
    BY <2>1, HeldKept
  <2> QED BY <2>1, <2>3, <2>4 DEF JobsHeld
<1> QED BY <1>0, <1>1, <1>2, JobsStep

\* No scheduled turn is forgotten: it belongs to an attempt still under way,
\* or the durable record names it.
THEOREM JobsAlwaysAccounted ==
  ASSUME NothingForgotten
  PROVE  AuthoritySpec => []JobsAccounted
<1>1. AuthorityInit => JobsHeld
  BY DEF AuthorityInit, JobsHeld
<1>2. AInv /\ JobsHeld /\ [AuthorityNext]_allVars => JobsHeld'
  BY HeldKeeps
<1>3. JobsHeld => JobsAccounted
  BY DEF JobsHeld, JobsAccounted, JobOwned, JobRecorded
<1> QED BY <1>1, <1>2, <1>3, AuthorityInvariant, PTL DEF AuthoritySpec
=============================================================================
