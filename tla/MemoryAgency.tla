---------------------------- MODULE MemoryAgency ----------------------------
(***************************************************************************)
(* The agency queue as the in-memory store keeps it: one map of records    *)
(* under one mutex, every request decided against the map itself.  Both    *)
(* stores implement store.EventStore, so this is what the queue promises;  *)
(* AgencyQueue, the durable one with its active projection, implements it. *)
(*                                                                         *)
(* One tenant.  A request carries the clock reading it is decided with.    *)
(***************************************************************************)
EXTENDS Snapshots, FiniteSets

CONSTANTS
  Proposals,      \* proposal identifiers; numbers, for their string order
  Consumers,      \* authority consumer identifiers
  Evidence,       \* event identifiers
  Refs,           \* scheduler execution references
  Draft,          \* Draft[p]: the immutable content of proposal p
  NoScope,        \* scope of a proposal without a tau binding
  NoConsumer,     \* ClaimedBy = ""
  NoRef,          \* ExecutionRef = ""
  NoParent,       \* ParentProposalID = ""
  LeaseDuration,  \* AgencyPolicy.LeaseDuration
  ClaimLimit,     \* limit of a claim request
  MaxPerChain,    \* AgencyPolicy.MaxProposalsPerChain
  MaxPending,     \* AgencyPolicy.MaxPendingPerTenant
  MaxRefs,        \* handles an uncertain record can hold (32)
  MaxClock        \* bound: no request carries a later clock reading

DraftType ==
  [scope : STRING \cup {NoScope}, forecast : STRING, law : STRING,
   cooldown : Nat, chain : STRING, depth : Nat,
   parent : Proposals \cup {NoParent}, evidence : SUBSET Evidence,
   priority : Nat, notBefore : Nat, expiresAt : Nat]

VARIABLES
  agency,    \* the archive: proposal -> record
  events,    \* stored evidence: event -> availability time
  snapshot   \* the runtime version vector

Statuses == {"absent", "pending", "claimed", "approved", "rejected",
             "expired", "uncertain"}

Records ==
  [status : Statuses, base : Snapshot, claimedBy : Consumers \cup {NoConsumer},
   leaseUntil : Nat, ref : Refs \cup {NoRef}, refs : SUBSET Refs,
   resolvedAt : Nat]

NoRecord ==
  [status |-> "absent", base |-> InitialSnapshot, claimedBy |-> NoConsumer,
   leaseUntil |-> 0, ref |-> NoRef, refs |-> {}, resolvedAt |-> 0]

\* A newly issued record: pending; a tau proposal is bound to the planner's
\* snapshot, any other has no base.
NewRecord(base) == [NoRecord EXCEPT !.status = "pending", !.base = base]

Open == {"pending", "claimed"}

IsTau(p) == Draft[p].scope # NoScope
SameScope(p, q) == IsTau(p) /\ Draft[p].scope = Draft[q].scope

-----------------------------------------------------------------------------
(* Tests shared by the operations. *)

\* TauSnapshotCompatible: a proposal without a binding is never stale.
Compatible(p, base) == IsTau(p) => TauSnapshotCompatible(base, snapshot)

\* Fault: only a pending proposal reserves its opportunity.
OpportunityBlockedUnlessLeased(p, q, now) ==
  /\ SameScope(p, q)
  /\ \/ /\ agency[q].status = "pending"
        /\ Draft[q].expiresAt > now
        /\ Compatible(q, agency[q].base)
     \/ agency[q].status = "uncertain"

\* Fault: the cooldown of the earlier approved turn is forgotten.
OpportunityBlockedNoCooldown(p, q, now) ==
  /\ SameScope(p, q)
  /\ \/ /\ agency[q].status \in Open
        /\ Draft[q].expiresAt > now
        /\ Compatible(q, agency[q].base)
     \/ agency[q].status = "uncertain"

\* TauOpportunityBlocked: does stored record q reserve the turn p asks for?
OpportunityBlocked(p, q, now) ==
  /\ SameScope(p, q)
  /\ \/ /\ agency[q].status \in Open
        /\ Draft[q].expiresAt > now
        /\ Compatible(q, agency[q].base)
     \/ agency[q].status = "uncertain"
     \/ /\ agency[q].status = "approved"
        /\ \/ now < agency[q].resolvedAt + Draft[p].cooldown
           \/ now < agency[q].resolvedAt + Draft[q].cooldown

Issued == {p \in Proposals : agency[p].status # "absent"}

\* validAgencyParentRecords
ParentValid(p) ==
  IF Draft[p].depth = 0
  THEN Draft[p].parent = NoParent
  ELSE /\ Draft[p].parent \in Issued
       /\ Draft[Draft[p].parent].chain = Draft[p].chain
       /\ Draft[Draft[p].parent].depth + 1 = Draft[p].depth

\* countAgencyChainRecords
ChainRecords(chain) == {q \in Issued : Draft[q].chain = chain}

\* countPendingAgencyRecords
PendingRecords(now) ==
  {q \in Issued : \/ agency[q].status = "uncertain"
                  \/ agency[q].status \in Open /\ Draft[q].expiresAt > now}

\* Fault: only the law is compared.
ForecastLawConflict(p, base, q) ==
  /\ IsTau(p) /\ IsTau(q)
  /\ Draft[p].forecast = Draft[q].forecast
  /\ Draft[p].law # Draft[q].law

\* A forecast ID names one law under one base snapshot.
ForecastConflict(p, base, q) ==
  /\ IsTau(p) /\ IsTau(q)
  /\ Draft[p].forecast = Draft[q].forecast
  /\ <<Draft[p].law, base>> # <<Draft[q].law, agency[q].base>>

Closed(rec, status, now) ==
  [rec EXCEPT !.status = status, !.claimedBy = NoConsumer, !.leaseUntil = 0,
              !.resolvedAt = now]

\* Fault: a status the queue does not know.
LeasedUnknown(rec, c, now) ==
  [rec EXCEPT !.status = "leased", !.claimedBy = c,
              !.leaseUntil = now + LeaseDuration]

Leased(rec, c, now) ==
  [rec EXCEPT !.status = "claimed", !.claimedBy = c,
              !.leaseUntil = now + LeaseDuration]

ClaimedBefore(p, q) ==
  \/ Draft[p].priority > Draft[q].priority
  \/ /\ Draft[p].priority = Draft[q].priority
     /\ \/ Draft[p].notBefore < Draft[q].notBefore
        \/ Draft[p].notBefore = Draft[q].notBefore /\ p < q

\* AgencyUncertainRecord: the handles of a record once ref is reported.
HandlesWith(p, ref) == agency[p].refs \cup ({agency[p].ref, ref} \ {NoRef})

HoldsClaim(p, c) == agency[p].status = "claimed" /\ agency[p].claimedBy = c

LeaseLive(p, c, now) ==
  HoldsClaim(p, c) /\ now < Draft[p].expiresAt /\ now < agency[p].leaseUntil

-----------------------------------------------------------------------------
(* Operations of the in-memory store. *)

Recorded(p, rec) ==
  /\ agency' = [agency EXCEPT ![p] = rec]
  /\ snapshot' = Advance(snapshot, AgencyBumps)
  /\ UNCHANGED events

\* PutAgencyProposal
Propose(p, base, now) ==
  /\ agency[p].status = "absent" /\ Draft[p].expiresAt > now
  /\ Compatible(p, base)
  /\ \A q \in Issued : ~ForecastConflict(p, base, q) /\ ~OpportunityBlocked(p, q, now)
  /\ \A e \in Draft[p].evidence : e \in DOMAIN events /\ events[e] <= now
  /\ ParentValid(p)
  /\ Cardinality(ChainRecords(Draft[p].chain)) < MaxPerChain
  /\ Cardinality(PendingRecords(now)) < MaxPending
  /\ Recorded(p, NewRecord(IF IsTau(p) THEN base ELSE NoRecord.base))

Unresolved(p) == \E q \in Proposals : agency[q].status = "uncertain" /\ SameScope(p, q)

\* ClaimAgencyProposals: which open records it rejects and expires, and
\* which of the rest are due.
Lost == {p \in Proposals : /\ agency[p].status \in Open
                           /\ Unresolved(p) \/ ~Compatible(p, agency[p].base)}

Late(now) == {p \in Proposals \ Lost : agency[p].status \in Open /\ now >= Draft[p].expiresAt}

Due(now) == {p \in Proposals \ (Lost \cup Late(now)) :
               /\ now >= Draft[p].notBefore
               /\ \/ agency[p].status = "pending"
                  \/ agency[p].status = "claimed" /\ now >= agency[p].leaseUntil}

FirstDue(now) ==
  {p \in Due(now) : Cardinality({q \in Due(now) : ClaimedBefore(q, p)}) < ClaimLimit}

ClaimDue(c, now) ==
  /\ Lost \cup Late(now) \cup FirstDue(now) # {}
  /\ agency' = [p \in Proposals |->
       IF p \in Lost THEN Closed(agency[p], "rejected", now)
       ELSE IF p \in Late(now) THEN Closed(agency[p], "expired", now)
       ELSE IF p \in FirstDue(now) THEN Leased(agency[p], c, now)
       ELSE agency[p]]
  /\ snapshot' = Advance(snapshot, AgencyBumps)
  /\ UNCHANGED events

\* ResolveAgencyProposal, decision uncertain
MarkUncertain(p, ref, now) ==
  /\ p \in Issued /\ Cardinality(HandlesWith(p, ref)) <= MaxRefs
  /\ Recorded(p, [Closed(agency[p], "uncertain", now)
                    EXCEPT !.ref = ref, !.refs = HandlesWith(p, ref)])

\* ResolveAgencyProposal, rejection of an uncertain record
ClearUncertain(p, cancelled, now) ==
  /\ agency[p].status = "uncertain"
  /\ agency[p].refs # {} /\ cancelled = agency[p].refs
  /\ Recorded(p, [agency[p] EXCEPT !.status = "rejected", !.ref = NoRef, !.resolvedAt = now])

\* ResolveAgencyProposal by the consumer that holds the claim
Refuse(p, c, now) ==
  /\ HoldsClaim(p, c)
  /\ \/ /\ now >= Draft[p].expiresAt
        /\ Recorded(p, [Closed(agency[p], "expired", now) EXCEPT !.ref = NoRef])
     \/ /\ LeaseLive(p, c, now)
        /\ Recorded(p, [Closed(agency[p], "rejected", now) EXCEPT !.ref = NoRef])

Authorize(p, c, ref, now) ==
  /\ LeaseLive(p, c, now) /\ ~Unresolved(p) /\ Compatible(p, agency[p].base)
  /\ Recorded(p, [Closed(agency[p], "approved", now) EXCEPT !.ref = ref])

\* Put
IngestEvent(e, availableAt) ==
  /\ e \notin DOMAIN events
  /\ events' = [x \in DOMAIN events \cup {e} |-> IF x = e THEN availableAt ELSE events[x]]
  /\ snapshot' = Advance(snapshot, PutBumps)
  /\ UNCHANGED agency

\* cancelAgencyByEvidence
Undermined(removed) == {p \in Proposals : /\ agency[p].status \in Open
                                          /\ Draft[p].evidence \cap removed # {}}

\* Delete and DeleteBefore
RemoveEvents(removed, now) ==
  /\ removed # {} /\ removed \subseteq DOMAIN events
  /\ events' = [x \in DOMAIN events \ removed |-> events[x]]
  /\ agency' = [p \in Proposals |-> IF p \in Undermined(removed)
                                    THEN Closed(agency[p], "rejected", now) ELSE agency[p]]
  /\ snapshot' = Advance(snapshot, IF Undermined(removed) = {} THEN InvalidateBumps
                                   ELSE InvalidateBumps \cup {"agency"})

\* Every other mutation.
MoveSnapshot(cs) == snapshot' = Advance(snapshot, cs) /\ UNCHANGED <<agency, events>>

MemoryAgencyInit ==
  /\ agency = [p \in Proposals |-> NoRecord]
  /\ events = [e \in {} |-> 0] /\ snapshot = InitialSnapshot

MemoryAgencyNext ==
  \/ \E p \in Proposals, now \in 0..MaxClock :
       \/ Propose(p, agency'[p].base, now)
       \/ \E ref \in Refs : MarkUncertain(p, ref, now)
       \/ \E cancelled \in SUBSET Refs : ClearUncertain(p, cancelled, now)
       \/ \E c \in Consumers : \/ Refuse(p, c, now)
                               \/ \E ref \in Refs : Authorize(p, c, ref, now)
  \/ \E c \in Consumers, now \in 0..MaxClock : ClaimDue(c, now)
  \/ \E e \in Evidence, t \in 0..(MaxClock + 1) : IngestEvent(e, t)
  \/ \E removed \in SUBSET Evidence, now \in 0..MaxClock : RemoveEvents(removed, now)
  \/ \E cs \in OtherBumps : MoveSnapshot(cs)

MemoryAgencySpec == MemoryAgencyInit /\ [][MemoryAgencyNext]_<<agency, events, snapshot>>
=============================================================================
