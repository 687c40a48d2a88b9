---------------------------- MODULE AgencyQueue ----------------------------
(***************************************************************************)
(* The durable agency queue of the store: signed proposals are issued,     *)
(* leased to an authority consumer, and resolved.  One tenant; the archive *)
(* (agency), the active projection that Claim and evidence deletion scan   *)
(* (active) and the version vector (snapshot) change in one LibraVDB       *)
(* transaction under writeMu, so each operation is one action.             *)
(*                                                                         *)
(* The service reads the wall clock BEFORE it waits for writeMu.  The      *)
(* `now` an operation runs with may therefore lie behind the clock, by at  *)
(* most MaxLag, and behind the `now` of operations committed earlier.      *)
(*                                                                         *)
(* A consumer sends a decision only after it has read a claim reply, so    *)
(* the `now` of a decision is not before the clock of that claim.          *)
(*                                                                         *)
(* A restart reloads all of agency, active and snapshot from the database: *)
(* in this module it is a stuttering step.                                 *)
(***************************************************************************)
EXTENDS MemoryAgency

CONSTANTS
  Never,          \* a claim reply that has not been sent
  MaxLag,         \* how far a request's clock reading may lag the clock
  Motions,        \* which of OtherBumps the environment performs
  MaxRuntime,     \* bound: the environment makes no mutation beyond this
  MaxReported     \* bound: no uncertain report beyond this runtime version

ASSUME ConstantsAssumption ==
  /\ Proposals \subseteq Nat /\ IsFiniteSet(Proposals)
  /\ Draft \in [Proposals -> DraftType]
  /\ NoConsumer \notin Consumers /\ NoRef \notin Refs
  /\ LeaseDuration \in Nat \ {0} /\ ClaimLimit \in Nat \ {0}
  /\ MaxPerChain \in Nat /\ MaxPending \in Nat /\ MaxRefs \in Nat
  /\ MaxLag \in Nat /\ MaxClock \in Nat /\ MaxRuntime \in Nat
  /\ MaxReported \in Nat
  /\ Motions \subseteq OtherBumps

VARIABLES
  active,    \* the active projection: proposal -> copy of the record
  learned,   \* learned[p][c]: when c was first told that it holds p
  planned,   \* the vector the planner last read from GET /v1/health
  clock      \* wall clock of the daemon

vars == <<agency, active, events, snapshot, learned, planned, clock>>

\* Clock readings a request reaching the store now may carry.
RequestTimes == {t \in 0..clock : clock <= t + MaxLag}

-----------------------------------------------------------------------------
(* Operations of the store. *)

\* Fault: a settled record is not removed from the projection.
PersistWithoutRemoval(p, rec) ==
  /\ agency' = [agency EXCEPT ![p] = rec]
  /\ active' = [active EXCEPT ![p] =
                  IF rec.status \in Open \cup {"uncertain"} THEN rec ELSE active[p]]
  /\ snapshot' = Advance(snapshot, AgencyBumps)

\* persist: archive and projection in one transaction; the projection keeps
\* open and uncertain records only.
Persist(p, rec) ==
  /\ agency' = [agency EXCEPT ![p] = rec]
  /\ active' = [active EXCEPT ![p] =
                  IF rec.status \in Open \cup {"uncertain"} THEN rec ELSE NoRecord]
  /\ snapshot' = Advance(snapshot, AgencyBumps)

\* PutAgencyProposal on a new identifier.
PutAgencyProposal(p, now) ==
  /\ agency[p].status = "absent"
  /\ Draft[p].expiresAt > now                \* BuildProposal
  /\ Compatible(p, planned)
  /\ \A e \in Draft[p].evidence : e \in DOMAIN events /\ events[e] <= now
  /\ \A q \in Issued : ~ForecastConflict(p, planned, q)
                       /\ ~OpportunityBlocked(p, q, now)
  /\ ParentValid(p)
  /\ Cardinality(ChainRecords(Draft[p].chain)) < MaxPerChain
  /\ Cardinality(PendingRecords(now)) < MaxPending
  /\ Persist(p, NewRecord(IF IsTau(p) THEN planned ELSE NoRecord.base))
  /\ UNCHANGED <<events, learned, planned, clock>>

\* PutAgencyProposal retried: the archived record is returned; while it is
\* open and unexpired its copy in the projection is repaired.
PutDuplicate(p, now) ==
  /\ agency[p].status \in Open
  /\ Draft[p].expiresAt > now
  /\ active' = [active EXCEPT ![p] = agency[p]]
  /\ UNCHANGED <<agency, events, snapshot, learned, planned, clock>>

(* ClaimAgencyProposals.  Every record of the projection is first swept:   *)
(* it loses to an unresolved execution of its scope, to a moved snapshot,  *)
(* or to its expiry.  The survivors that are due and not leased are        *)
(* ordered by priority, not-before time and identifier.                    *)

UncertainScope(p) == \E q \in Proposals : /\ active[q].status = "uncertain"
                                          /\ SameScope(p, q)

\* Fault: an unresolved execution does not stop its scope.
SweptStale == {p \in Proposals : /\ active[p].status \in Open
                                 /\ ~Compatible(p, active[p].base)}

SweptRejected == {p \in Proposals : /\ active[p].status \in Open
                                    /\ \/ UncertainScope(p)
                                       \/ ~Compatible(p, active[p].base)}

\* Fault: leased proposals are not expired by the sweep.
SweptExpiredPending(now) == {p \in Proposals \ SweptRejected :
                                /\ active[p].status = "pending"
                                /\ now >= Draft[p].expiresAt}

SweptExpired(now) == {p \in Proposals \ SweptRejected :
                         /\ active[p].status \in Open
                         /\ now >= Draft[p].expiresAt}

Eligible(now) ==
  {p \in Proposals \ (SweptRejected \cup SweptExpired(now)) :
      /\ now >= Draft[p].notBefore
      /\ \/ active[p].status = "pending"
         \/ active[p].status = "claimed" /\ now >= active[p].leaseUntil}

\* The first ClaimLimit eligible records.
Chosen(now) ==
  {p \in Eligible(now) :
      Cardinality({q \in Eligible(now) : ClaimedBefore(q, p)}) < ClaimLimit}

\* What the sweep and the claim make of the record of p.
ClaimUpdate(p, c, now) ==
  IF p \in SweptRejected THEN Closed(active[p], "rejected", now)
  ELSE IF p \in SweptExpired(now) THEN Closed(active[p], "expired", now)
  ELSE Leased(active[p], c, now)

Claim(c, now) ==
  LET closed == SweptRejected \cup SweptExpired(now)
      taken == Chosen(now)
  IN /\ closed \cup taken # {}
     /\ agency' = [p \in Proposals |-> IF p \in closed \cup taken
                                       THEN ClaimUpdate(p, c, now)
                                       ELSE agency[p]]
     /\ active' = [p \in Proposals |-> IF p \in closed THEN NoRecord
                                       ELSE IF p \in taken
                                       THEN ClaimUpdate(p, c, now)
                                       ELSE active[p]]
     /\ snapshot' = Advance(snapshot, AgencyBumps)
     /\ learned' = [p \in Proposals |->
                      IF p \in taken /\ learned[p][c] = Never
                      THEN [learned[p] EXCEPT ![c] = clock] ELSE learned[p]]
     /\ UNCHANGED <<events, planned, clock>>

(* ResolveAgencyProposal.  The outcomes that change nothing (an exact      *)
(* duplicate, a conflict, a lease that is not held, a stale snapshot, a    *)
(* full handle set) are the states in which no disjunct is enabled.        *)

\* Fault: the handle of the report itself is not recorded.
ReportUncertainForgetting(p, ref, now) ==
  LET refs == agency[p].refs \cup ({agency[p].ref} \ {NoRef})
  IN /\ p \in Issued
     /\ Cardinality(refs) <= MaxRefs
     /\ Persist(p, [Closed(agency[p], "uncertain", now)
                      EXCEPT !.ref = ref, !.refs = refs])
     /\ UNCHANGED <<events, learned, planned, clock>>

\* decision = uncertain, accepted from every status and without a lease.
ReportUncertain(p, ref, now) ==
  /\ p \in Issued
  /\ Cardinality(HandlesWith(p, ref)) <= MaxRefs
  /\ Persist(p, [Closed(agency[p], "uncertain", now)
                   EXCEPT !.ref = ref, !.refs = HandlesWith(p, ref)])
  /\ UNCHANGED <<events, learned, planned, clock>>

\* Fault: an acknowledgement of some of the handles clears the record.
AcknowledgePartially(p, cancelled, now) ==
  /\ agency[p].status = "uncertain"
  /\ cancelled # {} /\ cancelled \subseteq agency[p].refs
  /\ Persist(p, [agency[p] EXCEPT !.status = "rejected", !.ref = NoRef,
                                  !.resolvedAt = now])
  /\ UNCHANGED <<events, learned, planned, clock>>

\* decision = rejected with the complete handle set, from uncertain.
AcknowledgeCancellation(p, cancelled, now) ==
  /\ agency[p].status = "uncertain"
  /\ agency[p].refs # {} /\ cancelled = agency[p].refs
  /\ Persist(p, [agency[p] EXCEPT !.status = "rejected", !.ref = NoRef,
                                  !.resolvedAt = now])
  /\ UNCHANGED <<events, learned, planned, clock>>

\* A consumer decides about a proposal after the reply that leased it to c.
Asked(p, c, now) == learned[p][c] # Never /\ now >= learned[p][c]

\* Any decision that reaches a claimed record past its expiry expires it.
ResolveExpired(p, c, now) ==
  /\ HoldsClaim(p, c) /\ Asked(p, c, now)
  /\ now >= Draft[p].expiresAt
  /\ Persist(p, [Closed(agency[p], "expired", now) EXCEPT !.ref = NoRef])
  /\ UNCHANGED <<events, learned, planned, clock>>

Approvable(p, c, now) ==
  LeaseLive(p, c, now) /\ ~UncertainScope(p) /\ Compatible(p, agency[p].base)

Approve(p, c, ref, now) ==
  /\ Approvable(p, c, now) /\ Asked(p, c, now)
  /\ Persist(p, [Closed(agency[p], "approved", now) EXCEPT !.ref = ref])
  /\ UNCHANGED <<events, learned, planned, clock>>

Reject(p, c, now) ==
  /\ LeaseLive(p, c, now) /\ Asked(p, c, now)
  /\ Persist(p, [Closed(agency[p], "rejected", now) EXCEPT !.ref = NoRef])
  /\ UNCHANGED <<events, learned, planned, clock>>

-----------------------------------------------------------------------------
(* The rest of the store, as far as it touches the queue. *)

Mutable == snapshot["runtime"] < MaxRuntime
Reportable == snapshot["runtime"] < MaxReported

\* Put: a new event, available now or later.
Put(e, availableAt) ==
  /\ Mutable
  /\ e \notin DOMAIN events
  /\ events' = [x \in DOMAIN events \cup {e} |->
                  IF x = e THEN availableAt ELSE events[x]]
  /\ snapshot' = Advance(snapshot, PutBumps)
  /\ UNCHANGED <<agency, active, learned, planned, clock>>

\* Fault: leased proposals survive the deletion of their evidence.
CitingPending(removed) == {p \in Proposals : /\ active[p].status = "pending"
                                             /\ Draft[p].evidence \cap removed # {}}

\* agencyDeletionUpdates: open records of the projection citing removed events.
Citing(removed) == {p \in Proposals : /\ active[p].status \in Open
                                      /\ Draft[p].evidence \cap removed # {}}

\* Delete (one event) and DeleteBefore (a batch of old ones).
DeleteEvents(removed) ==
  /\ Mutable
  /\ removed # {} /\ removed \subseteq DOMAIN events
  /\ events' = [x \in DOMAIN events \ removed |-> events[x]]
  /\ agency' = [p \in Proposals |-> IF p \in Citing(removed)
                                    THEN Closed(active[p], "rejected", clock)
                                    ELSE agency[p]]
  /\ active' = [p \in Proposals |-> IF p \in Citing(removed)
                                    THEN NoRecord ELSE active[p]]
  /\ snapshot' = Advance(snapshot, IF Citing(removed) = {} THEN InvalidateBumps
                                   ELSE InvalidateBumps \cup {"agency"})
  /\ UNCHANGED <<learned, planned, clock>>

Delete(e) == DeleteEvents({e})

\* Retention removes the oldest events available before the cutoff; a limit
\* may cut the batch short.
DeleteBefore(before, removed) ==
  /\ \A x \in removed : x \in DOMAIN events /\ events[x] < before
  /\ \A x \in removed, y \in DOMAIN events \ removed : events[x] <= events[y]
  /\ DeleteEvents(removed)

\* Every other committed mutation: composition, policy, certificates,
\* outcomes, predictive snaps, contract upgrade at open.
OtherMutation(cs) ==
  /\ Mutable
  /\ snapshot' = Advance(snapshot, cs)
  /\ UNCHANGED <<agency, active, events, learned, planned, clock>>

\* GET /v1/health: the planner freezes the base of its next forecast.
ReadHealth ==
  /\ planned' = snapshot
  /\ UNCHANGED <<agency, active, events, snapshot, learned, clock>>

Tick ==
  /\ clock < MaxClock
  /\ clock' = clock + 1
  /\ UNCHANGED <<agency, active, events, snapshot, learned, planned>>

-----------------------------------------------------------------------------
Init ==
  /\ agency = [p \in Proposals |-> NoRecord]
  /\ active = [p \in Proposals |-> NoRecord]
  /\ events = [e \in {} |-> 0]
  /\ snapshot = InitialSnapshot
  /\ learned = [p \in Proposals |-> [c \in Consumers |-> Never]]
  /\ planned = InitialSnapshot
  /\ clock = 0

Issue == \E p \in Proposals, now \in RequestTimes :
           PutAgencyProposal(p, now) \/ PutDuplicate(p, now)

Resolve ==
  \E p \in Proposals, now \in RequestTimes :
    \/ \E ref \in Refs : Reportable /\ ReportUncertain(p, ref, now)
    \/ \E cancelled \in SUBSET Refs : AcknowledgeCancellation(p, cancelled, now)
    \/ \E c \in Consumers : \/ ResolveExpired(p, c, now)
                            \/ Reject(p, c, now)
                            \/ \E ref \in Refs : Approve(p, c, ref, now)

Store ==
  \/ \E e \in Evidence, t \in {clock, clock + 1} : Put(e, t)
  \/ \E e \in Evidence : Delete(e)
  \/ \E removed \in SUBSET Evidence : DeleteBefore(clock, removed)
  \/ \E cs \in Motions : OtherMutation(cs)

Next == \/ Issue
        \/ \E c \in Consumers, now \in RequestTimes : Claim(c, now)
        \/ Resolve
        \/ Store
        \/ ReadHealth
        \/ Tick

Spec == Init /\ [][Next]_vars

\* The adapter polls on a timer and the daemon's clock advances.
Polling == \E c \in Consumers : Claim(c, clock)

FairSpec == Spec /\ WF_vars(Tick) /\ WF_vars(Polling)
-----------------------------------------------------------------------------
(* Properties. *)

\* The durable queue does nothing the in-memory one does not do: although
\* Claim, Approve and evidence deletion consult the active projection and
\* not the archive, each of them decides as if it had read every record.
ImplementsMemory == MemoryAgencySpec

\* Every variable keeps its type.
TypeOK ==
  /\ agency \in [Proposals -> Records]
  /\ active \in [Proposals -> Records]
  /\ DOMAIN events \subseteq Evidence
  /\ events \in [DOMAIN events -> Nat]
  /\ snapshot \in Snapshot
  /\ learned \in [Proposals -> [Consumers -> Nat \cup {Never}]]
  /\ planned \in Snapshot
  /\ clock \in Nat

\* The projection that Claim, Approve and evidence deletion scan holds an
\* exact copy of every open and of every uncertain record of the archive,
\* and nothing else, although some operations read the archive and others
\* read the projection.
ActiveProjection ==
  \A p \in Proposals :
    active[p] = IF agency[p].status \in Open \cup {"uncertain"}
                THEN agency[p] ELSE NoRecord

\* Every base snapshot held by the planner or bound to a record lies behind
\* the store's: the version vector only moves forward, and never by agency
\* bookkeeping alone.
BasesBehind ==
  /\ Behind(planned, snapshot)
  /\ \A p \in Proposals : Behind(agency[p].base, snapshot)

\* TauOpportunityBlocked: of two proposals for one session and target that
\* are both open and both still bound to the current state, one has expired,
\* whatever clock readings the requests that created them carried.
OneLiveOpportunity ==
  \A p, q \in Proposals :
    /\ p # q /\ SameScope(p, q)
    /\ agency[p].status \in Open /\ Compatible(p, agency[p].base)
    /\ agency[q].status \in Open /\ Compatible(q, agency[q].base)
    => clock >= Draft[p].expiresAt \/ clock >= Draft[q].expiresAt

\* An approval decided so shortly before the expiry that it may have waited
\* for the lock beyond it.
LateApproval(p) == /\ agency[p].resolvedAt < Draft[p].expiresAt
                   /\ Draft[p].expiresAt <= agency[p].resolvedAt + MaxLag

\* However long requests wait for writeMu, approved turns of one session and
\* target are a cooldown apart, but for one pattern: the earlier one may have
\* been committed after its proposal expired, and the later one was decided
\* when it had.
SpacedUnlessLate ==
  \A p, q \in Proposals :
    /\ p # q /\ SameScope(p, q)
    /\ agency[p].status = "approved" /\ agency[q].status = "approved"
    /\ agency[p].resolvedAt <= agency[q].resolvedAt
    => \/ \A d \in {Draft[p].cooldown, Draft[q].cooldown} :
            agency[p].resolvedAt + d <= agency[q].resolvedAt
       \/ LateApproval(p) /\ Draft[p].expiresAt <= agency[q].resolvedAt

\* docs/tau-agency.md: "one reserved opportunity per tenant/session/target, plus
\* the declared cooldown": approved turns of one session and target are a
\* cooldown apart.
ApprovalSpacing ==
  \A p, q \in Proposals :
    /\ p # q /\ SameScope(p, q)
    /\ agency[p].status = "approved" /\ agency[q].status = "approved"
    => \A d \in {Draft[p].cooldown, Draft[q].cooldown} :
         \/ agency[p].resolvedAt + d <= agency[q].resolvedAt
         \/ agency[q].resolvedAt + d <= agency[p].resolvedAt

\* A proposal that was ever reported uncertain is never approved, nor open,
\* again: the handles it was reported with stay on the record.
NoApprovalAfterUncertainty ==
  \A p \in Proposals :
    /\ agency[p].status \in Open \cup {"approved"} => agency[p].refs = {}
    /\ agency[p].status = "uncertain" => agency[p].ref \in agency[p].refs

\* A forecast identifier stays bound to one law and one base snapshot.
ForecastBinding ==
  \A p, q \in Issued :
    IsTau(p) /\ IsTau(q) /\ Draft[p].forecast = Draft[q].forecast
    => /\ Draft[p].law = Draft[q].law
       /\ agency[p].base = agency[q].base

\* While an execution of a session and target is unresolved, no proposal for
\* them is admitted, leased or approved.
UncertainBlocksScope ==
  [][\A p, q \in Proposals :
       /\ SameScope(p, q) /\ agency[q].status = "uncertain"
       /\ agency'[p] # agency[p]
       => agency'[p].status \notin Open \cup {"approved"}]_vars

\* A lease that has not run out is not handed to another consumer.
LeaseExclusive ==
  [][\A p \in Proposals :
       /\ agency[p].status = "claimed" /\ agency'[p].status = "claimed"
       /\ clock < agency[p].leaseUntil
       => agency'[p].claimedBy = agency[p].claimedBy]_vars

\* A forecast that lost its base snapshot never regains it.
StaleForever ==
  [][\A p \in Issued : ~Compatible(p, agency[p].base)
       => ~TauSnapshotCompatible(agency[p].base, snapshot')]_vars

\* Every mutation that is not agency bookkeeping invalidates every forecast
\* bound before it, evidence deletion with cancelled proposals included.
ForecastInvalidated ==
  [][(\/ events' # events
      \/ snapshot' # snapshot /\ snapshot'["agency"] = snapshot["agency"])
     => \A p \in Issued :
          ~TauSnapshotCompatible(agency[p].base, snapshot')]_vars

\* Every issued proposal is eventually settled: polling leases, rejects or
\* expires it, and a lease nobody resolves runs out.
ProposalsSettle ==
  \A p \in Proposals : agency[p].status \in Open ~> agency[p].status \notin Open
=============================================================================
