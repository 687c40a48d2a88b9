-------------------------- MODULE AgencyAuthority --------------------------
(***************************************************************************)
(* The authority workers of the OpenClaw adapter, composed with the        *)
(* durable queue and the host's scheduler.                                 *)
(*                                                                         *)
(* A worker polls the daemon for leases and runs processAgencyClaim on     *)
(* each record.  Every await of that function is a point where other       *)
(* workers, the clock, the scheduler and the store may move: one step of a *)
(* worker here is one call, to the scheduler or to the daemon, with the    *)
(* code that follows its reply.  The scheduler and the store share no      *)
(* transaction; a call can fail before or after it took effect.            *)
(*                                                                         *)
(* The scheduler is the host's: its jobs are named by the proposal's       *)
(* deterministic tag, a job runs once at its time and is then gone, and    *)
(* unscheduling by tag lists the jobs first and removes them afterwards    *)
(* (operator-scheduler.ts).                                                *)
(***************************************************************************)
EXTENDS AgencyQueue

CONSTANTS
  Workers,        \* adapter processes
  ConsumerOf,     \* ConsumerOf[w]: agencyConsumerId of worker w
  Permitted,      \* proposals that pass signature, consent and scope checks
  ScheduledFor,   \* ScheduledFor[p]: requested time of a schedule action, or 0
  HandoffDelay,   \* the second added to the delivery time
  Quiet,          \* clock readings within the quiet hours
  Critical,       \* agencyCriticalThreshold
  TagRef,         \* the reference "tag:<tag>": every job of the tag
  NoProposal,
  MaxJobs,        \* bound: job identifiers the scheduler can hand out
  Faults          \* which failures occur

FaultKinds == {"crash", "stop", "request", "reply", "scheduler"}

JobIds == 1..MaxJobs

ASSUME AuthorityAssumption ==
  /\ ConsumerOf \in [Workers -> Consumers]
  /\ Permitted \subseteq Proposals /\ NoProposal \notin Proposals
  /\ ScheduledFor \in [Proposals -> Nat]
  /\ HandoffDelay \in Nat /\ Critical \in Nat /\ MaxJobs \in Nat
  /\ Quiet \subseteq Nat /\ IsFiniteSet(Quiet)
  /\ Refs = JobIds \cup {TagRef} /\ TagRef \notin JobIds
  /\ Faults \subseteq FaultKinds

VARIABLES
  work,      \* the attempt of each worker
  running,   \* authorityActive of each worker
  jobs,      \* scheduled turns: id -> proposal, delivery time, creator
  created,   \* identifiers handed out so far
  ran        \* jobs that were delivered

authority == <<work, running, jobs, created, ran>>
allVars == <<vars, authority>>

\* Where an attempt stands: the next call it makes.
Points == {"idle", "clean", "schedule", "undo", "halt", "approve", "retry",
           "read", "reserve", "cancel", "acknowledge", "report", "reportTag",
           "reject"}

Idle(todo) == [at |-> "idle", p |-> NoProposal, ref |-> NoRef, found |-> {},
               listed |-> FALSE, todo |-> todo]

\* The attempt goes on with its next call, or ends.
Goto(w, at) ==
  work' = [work EXCEPT ![w] = IF at = "idle" THEN Idle(@.todo)
                              ELSE [@ EXCEPT !.at = at, !.found = {},
                                             !.listed = FALSE]]

\* A call that took effect: its reply arrives or is lost.
Replied(w, ok, failed) ==
  \/ Goto(w, ok)
  \/ "reply" \in Faults /\ Goto(w, failed)

-----------------------------------------------------------------------------
(* The gate: evaluateAgencyProposal. *)

\* When the turn is asked for: at the requested time, a forecast no earlier
\* than the handoff takes, everything else as soon as it can be handed off.
DueAt(p, now) ==
  LET soonest == now + HandoffDelay
  IN IF ScheduledFor[p] > soonest \/ (ScheduledFor[p] > 0 /\ ~IsTau(p))
     THEN ScheduledFor[p] ELSE soonest

\* Delivery is deferred to the end of the quiet hours, unless critical.
DeliverAt(p, now) ==
  LET due == DueAt(p, now)
  IN IF Draft[p].priority < Critical /\ due \in Quiet
     THEN CHOOSE t \in due..(due + Cardinality(Quiet)) :
            t \notin Quiet /\ \A u \in due..(t - 1) : u \in Quiet
     ELSE due

Gate(p, now) ==
  /\ p \in Permitted
  /\ Draft[p].notBefore <= now /\ now < Draft[p].expiresAt
  /\ DeliverAt(p, now) < Draft[p].expiresAt

-----------------------------------------------------------------------------
(* The poll and the start of an attempt. *)

\* poll: claim a batch; a lost reply leaves the leases to run out.
Poll(w, now) ==
  /\ running[w] /\ work[w] = Idle({})
  /\ Claim(ConsumerOf[w], now)
  /\ \/ work' = [work EXCEPT ![w].todo = Chosen(now)]
     \/ "reply" \in Faults /\ UNCHANGED work
  /\ UNCHANGED <<running, jobs, created, ran>>

\* The next record of the batch passes the gate, or is rejected.
Begin(w, p) ==
  /\ running[w] /\ work[w].at = "idle" /\ p \in work[w].todo
  /\ work' = [work EXCEPT ![w] =
                [Idle(@.todo \ {p}) EXCEPT !.p = p,
                   !.at = IF Gate(p, clock) THEN "clean" ELSE "reject"]]
  /\ UNCHANGED <<vars, running, jobs, created, ran>>

\* A stopped worker drops the rest of its batch.
Drop(w) ==
  /\ ~running[w] /\ work[w].at = "idle" /\ work[w].todo # {}
  /\ work' = [work EXCEPT ![w] = Idle({})]
  /\ UNCHANGED <<vars, running, jobs, created, ran>>

-----------------------------------------------------------------------------
(* Calls to the scheduler. *)

Cleanups == {"clean", "undo", "halt", "cancel"}

AfterCleanup == [clean |-> "schedule", undo |-> "reject", halt |-> "reject",
                 cancel |-> "acknowledge"]

\* Fault: the rollback of a stopped worker is taken to have succeeded.
AfterFailedCleanupTrusting == [clean |-> "undo", undo |-> "reportTag",
                               halt |-> "reject", cancel |-> "report"]
AfterFailedCleanup == [clean |-> "undo", undo |-> "reportTag",
                       halt |-> "report", cancel |-> "report"]

\* unscheduleSessionTurnsByTag, first half: the inventory of the tag.
ListTag(w) ==
  /\ work[w].at \in Cleanups /\ ~work[w].listed
  /\ work' = [work EXCEPT ![w].listed = TRUE,
                ![w].found = {j \in DOMAIN jobs : jobs[j].p = work[w].p}]
  /\ UNCHANGED <<vars, running, jobs, created, ran>>

\* Second half: the listed jobs are removed one by one; a job that is gone,
\* or a scheduler error, ends the call with the rest still scheduled.
RemoveListed(w) ==
  /\ work[w].at \in Cleanups /\ work[w].listed
  /\ \/ /\ work[w].found \subseteq DOMAIN jobs
        /\ jobs' = [j \in DOMAIN jobs \ work[w].found |-> jobs[j]]
        /\ Goto(w, AfterCleanup[work[w].at])
     \/ /\ "scheduler" \in Faults \/ ~(work[w].found \subseteq DOMAIN jobs)
        /\ \E removed \in SUBSET (work[w].found \cap DOMAIN jobs) :
             jobs' = [j \in DOMAIN jobs \ removed |-> jobs[j]]
        /\ Goto(w, AfterFailedCleanup[work[w].at])
  /\ UNCHANGED <<vars, running, created, ran>>

\* The inventory itself fails: nothing is removed.
ListFails(w) ==
  /\ "scheduler" \in Faults
  /\ work[w].at \in Cleanups /\ ~work[w].listed
  /\ Goto(w, AfterFailedCleanup[work[w].at])
  /\ UNCHANGED <<vars, running, jobs, created, ran>>

\* scheduleSessionTurn under a clock read anew; then the stop check.
ScheduleTurn(w) ==
  LET p == work[w].p
      job == [p |-> p, due |-> DeliverAt(p, clock), by |-> w]
  IN /\ work[w].at = "schedule"
     /\ Gate(p, clock) /\ created < MaxJobs
     /\ created' = created + 1
     /\ jobs' = [j \in DOMAIN jobs \cup {created'} |->
                   IF j = created' THEN job ELSE jobs[j]]
     /\ \/ work' = [work EXCEPT ![w].ref = created',
                      ![w].at = IF running[w] THEN "approve" ELSE "halt"]
        \/ "scheduler" \in Faults /\ Goto(w, "undo")
     /\ UNCHANGED <<vars, running, ran>>

\* The refreshed gate refuses, or the scheduler does.
ScheduleFails(w) ==
  /\ work[w].at = "schedule"
  /\ ~Gate(work[w].p, clock) \/ "scheduler" \in Faults \/ created = MaxJobs
  /\ Goto(w, "undo")
  /\ UNCHANGED <<vars, running, jobs, created, ran>>

-----------------------------------------------------------------------------
(* Calls to the daemon. *)

Others == UNCHANGED <<running, jobs, created, ran>>

\* The request never reaches the store.
RequestLost(w, failed) ==
  "request" \in Faults /\ UNCHANGED vars /\ Goto(w, failed) /\ Others

ApproveDuplicate(w) == /\ agency[work[w].p].status = "approved"
                       /\ agency[work[w].p].ref = work[w].ref

\* Fault: the approval is repeated until it succeeds.
ApproveCallForever(w, now) ==
  LET p == work[w].p
      c == ConsumerOf[w]
  IN /\ work[w].at \in {"approve", "retry"}
     /\ \/ Approve(p, c, work[w].ref, now) /\ Replied(w, "idle", "retry") /\ Others
        \/ /\ ~Approvable(p, c, now)
           /\ UNCHANGED vars /\ Others
           /\ Goto(w, IF ApproveDuplicate(w) THEN "idle" ELSE "retry")
        \/ RequestLost(w, "retry")

\* decision = approved, once more on any error, then reconcile.
ApproveCall(w, now) ==
  LET p == work[w].p
      c == ConsumerOf[w]
      failed == IF work[w].at = "approve" THEN "retry" ELSE "read"
  IN /\ work[w].at \in {"approve", "retry"}
     /\ \/ Approve(p, c, work[w].ref, now) /\ Replied(w, "idle", failed) /\ Others
        \/ ResolveExpired(p, c, now) /\ Goto(w, failed) /\ Others
        \/ /\ ~(HoldsClaim(p, c) /\ now >= Draft[p].expiresAt)
           /\ ~Approvable(p, c, now)
           /\ UNCHANGED vars /\ Others
           /\ IF ApproveDuplicate(w) THEN Replied(w, "idle", failed)
              ELSE Goto(w, failed)
        \/ RequestLost(w, failed)

\* Fault: the turn is cancelled before the opportunity is reserved.
ReadCallUnreserved(w) ==
  LET found == agency[work[w].p]
  IN /\ work[w].at = "read"
     /\ \/ /\ Goto(w, IF ApproveDuplicate(w) THEN "idle"
                      ELSE IF found.status \in {"approved", "uncertain"}
                      THEN "report" ELSE "cancel")
           /\ UNCHANGED vars /\ Others
        \/ RequestLost(w, "report")

\* getAgency after a failed retry: is this handle, another, or none approved?
ReadCall(w) ==
  LET found == agency[work[w].p]
  IN /\ work[w].at = "read"
     /\ \/ /\ Goto(w, IF ApproveDuplicate(w) THEN "idle"
                      ELSE IF found.status \in {"approved", "uncertain"}
                      THEN "report" ELSE "reserve")
           /\ UNCHANGED vars /\ Others
        \/ RequestLost(w, "report")

\* The store refuses a report that would exceed the handle bound.
HandlesFull(p, ref) == Cardinality(HandlesWith(p, ref)) > MaxRefs

\* A report that repeats the last one, its reason included.
ReportDuplicate(p, ref) == agency[p].status = "uncertain" /\ agency[p].ref = ref

\* recordUncertain as the last word of an attempt.
ReportCall(w, now) ==
  LET ref == IF work[w].at = "report" THEN work[w].ref ELSE TagRef
  IN /\ work[w].at \in {"report", "reportTag"}
     /\ \/ Reportable /\ ReportUncertain(work[w].p, ref, now) /\ Goto(w, "idle") /\ Others
        \/ ReportDuplicate(work[w].p, ref) /\ UNCHANGED vars /\ Goto(w, "idle") /\ Others
        \/ HandlesFull(work[w].p, ref) /\ UNCHANGED vars /\ Goto(w, "idle") /\ Others
        \/ RequestLost(w, "idle")

\* recordUncertain before compensation: cancel only when this handle is the
\* only one on the record.
ReserveCall(w, now) ==
  LET p == work[w].p
  IN /\ work[w].at = "reserve"
     /\ \/ /\ Reportable /\ ReportUncertain(p, work[w].ref, now)
           /\ Replied(w, IF agency'[p].refs = {work[w].ref} THEN "cancel" ELSE "idle",
                      "idle")
           /\ Others
        \/ HandlesFull(p, work[w].ref) /\ UNCHANGED vars /\ Goto(w, "idle") /\ Others
        \/ RequestLost(w, "idle")

\* decision = rejected with the cancelled handle; every outcome ends the
\* attempt.
AcknowledgeCall(w, now) ==
  LET p == work[w].p
  IN /\ work[w].at = "acknowledge"
     /\ \/ AcknowledgeCancellation(p, {work[w].ref}, now)
        \/ /\ agency[p].status = "uncertain" => agency[p].refs # {work[w].ref}
           /\ UNCHANGED vars
        \/ "request" \in Faults /\ UNCHANGED vars
     /\ Goto(w, "idle") /\ Others

\* rejectClaim: every outcome ends the attempt.
RejectCall(w, now) ==
  LET p == work[w].p
      c == ConsumerOf[w]
  IN /\ work[w].at = "reject"
     /\ \/ Reject(p, c, now)
        \/ ResolveExpired(p, c, now)
        \/ /\ ~(HoldsClaim(p, c) /\ now >= Draft[p].expiresAt)
           /\ ~LeaseLive(p, c, now)
           /\ UNCHANGED vars
        \/ "request" \in Faults /\ UNCHANGED vars
     /\ Goto(w, "idle") /\ Others

-----------------------------------------------------------------------------
(* The environment. *)

\* The host delivers a due turn and deletes its job.
RunJob(j) ==
  /\ j \in DOMAIN jobs /\ clock >= jobs[j].due
  /\ jobs' = [k \in DOMAIN jobs \ {j} |-> jobs[k]]
  /\ ran' = ran \cup {j}
  /\ UNCHANGED <<vars, work, running, created>>

\* The worker process dies and is started again: its attempt is forgotten.
Crash(w) ==
  /\ "crash" \in Faults /\ work[w] # Idle({})
  /\ work' = [work EXCEPT ![w] = Idle({})]
  /\ UNCHANGED <<vars, running, jobs, created, ran>>

\* The service is stopped, or started again.
StopStart(w) ==
  /\ "stop" \in Faults
  /\ running' = [running EXCEPT ![w] = ~@]
  /\ UNCHANGED <<vars, work, jobs, created, ran>>

AuthorityInit ==
  /\ Init
  /\ work = [w \in Workers |-> Idle({})]
  /\ running = [w \in Workers |-> TRUE]
  /\ jobs = [j \in {} |-> 0]
  /\ created = 0
  /\ ran = {}

WorkerStep(w) ==
  \/ \E p \in Proposals : Begin(w, p)
  \/ Drop(w)
  \/ ListTag(w) \/ RemoveListed(w) \/ ListFails(w)
  \/ ScheduleTurn(w) \/ ScheduleFails(w)
  \/ ReadCall(w)
  \/ \E now \in RequestTimes :
       \/ ApproveCall(w, now) \/ ReportCall(w, now) \/ ReserveCall(w, now)
       \/ AcknowledgeCall(w, now) \/ RejectCall(w, now)

AuthorityNext ==
  \/ \E w \in Workers : \/ WorkerStep(w)
                        \/ \E now \in RequestTimes : Poll(w, now)
                        \/ Crash(w) \/ StopStart(w)
  \/ \E j \in JobIds : RunJob(j)
  \/ (Issue \/ Store \/ ReadHealth \/ Tick) /\ UNCHANGED authority

AuthoritySpec == AuthorityInit /\ [][AuthorityNext]_allVars

\* Calls return or time out: an attempt that can take a step takes one.
FairAuthoritySpec == AuthoritySpec /\ \A w \in Workers : WF_allVars(WorkerStep(w))
-----------------------------------------------------------------------------
(* Properties. *)

\* No scheduled turn is forgotten: it belongs to an attempt still under way,
\* or the durable record names it, as the approved execution or among the
\* unresolved ones.
JobsAccounted ==
  \A j \in DOMAIN jobs :
    LET rec == agency[jobs[j].p]
    IN \/ work[jobs[j].by].p = jobs[j].p
       \/ rec.status = "approved" /\ rec.ref = j
       \/ rec.status = "uncertain" /\ rec.refs \cap {j, TagRef} # {}

\* Compensation reserves the opportunity: as long as a worker is cancelling
\* a turn whose approval failed, the record stays uncertain and names it.
CompensationReserved ==
  \A w \in Workers :
    work[w].at \in {"cancel", "acknowledge"}
    => /\ agency[work[w].p].status = "uncertain"
       /\ work[w].ref \in agency[work[w].p].refs

\* Clearing an uncertain record needs every handle cancelled: at that moment
\* none of them can still run.
ClearedMeansCancelled ==
  [][\A p \in Proposals :
       agency[p].status = "uncertain" /\ agency'[p].status # "uncertain"
       => agency[p].refs \cap DOMAIN jobs = {}]_allVars

\* docs/tau-agency.md: "A separate worker's approved handle is not removed by
\* an older attempt's tag cleanup": an approved turn leaves the scheduler
\* only by being delivered.
ApprovedHandleKept ==
  [][\A p \in Proposals :
       /\ agency[p].status = "approved" /\ agency'[p].status = "approved"
       /\ agency[p].ref \in DOMAIN jobs
       => agency[p].ref \in DOMAIN jobs' \cup ran']_allVars

\* Every attempt ends: with the scheduler and the daemon failing at will, no
\* chain of retries, reports and cancellations goes on forever.
AttemptsEnd == \A w \in Workers : work[w].at # "idle" ~> work[w].at = "idle"
=============================================================================
