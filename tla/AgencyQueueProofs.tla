------------------------- MODULE AgencyQueueProofs -------------------------
(***************************************************************************)
(* Theorems about AgencyQueue, for every set of proposals, consumers and   *)
(* events, every clock lag, and every budget.                              *)
(***************************************************************************)
EXTENDS AgencyQueue, TLAPS

-----------------------------------------------------------------------------
(* Facts about the version vector and the records. *)

\* Advancing counters of a version vector gives a version vector.
LEMMA AdvanceType ==
  ASSUME NEW s \in Snapshot, NEW cs
  PROVE  Advance(s, cs) \in Snapshot
BY DEF Advance, Snapshot

\* A fresh database carries a version vector.
LEMMA InitialSnapshotType == InitialSnapshot \in Snapshot
BY DEF InitialSnapshot, Snapshot

\* The absent record has the type of a record.
LEMMA NoRecordType == NoRecord \in Records /\ NoRecord.status = "absent"
BY InitialSnapshotType DEF NoRecord, Records, Statuses

\* A new record has the type of a record.
LEMMA NewRecordType ==
  ASSUME NEW base \in Snapshot
  PROVE  NewRecord(base) \in Records
BY NoRecordType DEF NewRecord, Records, Statuses

\* Closing a record only changes its status, lease and resolution time.
LEMMA ClosedType ==
  ASSUME NEW rec \in Records, NEW status \in Statuses, NEW now \in Nat
  PROVE  /\ Closed(rec, status, now) \in Records
         /\ Closed(rec, status, now).status = status
         /\ Closed(rec, status, now).base = rec.base
         /\ Closed(rec, status, now).refs = rec.refs
         /\ Closed(rec, status, now).ref = rec.ref
BY DEF Closed, Records

\* Closing a record with an execution reference.
LEMMA ClosedRefType ==
  ASSUME NEW rec \in Records, NEW status \in Statuses, NEW now \in Nat,
         NEW ref \in Refs \cup {NoRef}
  PROVE  /\ [Closed(rec, status, now) EXCEPT !.ref = ref] \in Records
         /\ [Closed(rec, status, now) EXCEPT !.ref = ref].status = status
         /\ [Closed(rec, status, now) EXCEPT !.ref = ref].base = rec.base
         /\ [Closed(rec, status, now) EXCEPT !.ref = ref].refs = rec.refs
         /\ [Closed(rec, status, now) EXCEPT !.ref = ref].resolvedAt = now
BY DEF Closed, Records

\* Leasing a record only changes its status and lease.
LEMMA LeasedType ==
  ASSUME NEW rec \in Records, NEW c \in Consumers, NEW now \in Nat
  PROVE  /\ Leased(rec, c, now) \in Records
         /\ Leased(rec, c, now).status = "claimed"
         /\ Leased(rec, c, now).base = rec.base
         /\ Leased(rec, c, now).refs = rec.refs
<1>1. now + LeaseDuration \in Nat
  BY ConstantsAssumption
<1> QED BY <1>1 DEF Leased, Records, Statuses

-----------------------------------------------------------------------------
(* Type correctness. *)

\* Persisting a well-typed record keeps archive, projection and vector typed.
LEMMA PersistType ==
  ASSUME TypeOK, NEW p \in Proposals, NEW rec \in Records, Persist(p, rec)
  PROVE  /\ agency' \in [Proposals -> Records]
         /\ active' \in [Proposals -> Records]
         /\ snapshot' \in Snapshot
BY NoRecordType, AdvanceType DEF TypeOK, Persist

\* Init establishes the types.
LEMMA InitType == Init => TypeOK
BY NoRecordType, InitialSnapshotType DEF Init, TypeOK

\* A sweep or a lease gives a well-typed record.
LEMMA ClaimUpdateType ==
  ASSUME TypeOK, NEW p \in Proposals, NEW c \in Consumers, NEW now \in Nat
  PROVE  ClaimUpdate(p, c, now) \in Records
BY ClosedType, LeasedType DEF ClaimUpdate, TypeOK, Statuses

\* An approval is decided before the expiry, under the bound snapshot, and by
\* a consumer that was told of its lease.
ApprovedInTime(p, now) ==
  /\ now \in RequestTimes /\ now < Draft[p].expiresAt /\ Compatible(p, agency[p].base)
  /\ \E c \in Consumers : Asked(p, c, now)

\* What every accepted resolution does: one issued record is rewritten and
\* leaves the open statuses, its base stays and its handles stay.
LEMMA ResolveStep ==
  ASSUME TypeOK, Resolve
  PROVE  \E p \in Proposals, rec \in Records :
           /\ Persist(p, rec)
           /\ UNCHANGED <<events, learned, planned, clock>>
           /\ agency[p].status # "absent"
           /\ rec.status \notin Open \cup {"absent"}
           /\ rec.base = agency[p].base
           /\ agency[p].refs \subseteq rec.refs
           /\ rec.status = "uncertain" => rec.ref \in rec.refs
           /\ rec.status = "approved"
              => /\ agency[p].status = "claimed" /\ rec.refs = agency[p].refs
                 /\ ~UncertainScope(p) /\ ApprovedInTime(p, rec.resolvedAt)
<1> USE ConstantsAssumption
<1>1. PICK p \in Proposals, now \in RequestTimes :
          \/ \E ref \in Refs : Reportable /\ ReportUncertain(p, ref, now)
          \/ \E cancelled \in SUBSET Refs : AcknowledgeCancellation(p, cancelled, now)
          \/ \E c \in Consumers : \/ ResolveExpired(p, c, now)
                                  \/ Reject(p, c, now)
                                  \/ \E ref \in Refs : Approve(p, c, ref, now)
  BY DEF Resolve
<1> now \in Nat /\ agency[p] \in Records
  BY DEF RequestTimes, TypeOK
<1>2. Statuses = {"absent", "pending", "claimed", "approved", "rejected",
                  "expired", "uncertain"}
  BY DEF Statuses
<1>4. CASE \E ref \in Refs : Reportable /\ ReportUncertain(p, ref, now)
  <2>1. PICK ref \in Refs : ReportUncertain(p, ref, now)
    BY <1>4
  <2> DEFINE refs == agency[p].refs \cup ({agency[p].ref, ref} \ {NoRef})
             rec == [Closed(agency[p], "uncertain", now) EXCEPT !.ref = ref, !.refs = refs]
  <2>2. refs \in SUBSET Refs /\ agency[p].refs \subseteq refs /\ ref \in refs
    <3>1. /\ ref # NoRef /\ agency[p].refs \in SUBSET Refs
          /\ agency[p].ref \in Refs \cup {NoRef}
      BY DEF Records
    <3> QED BY <3>1
  <2>4. /\ Persist(p, rec) /\ UNCHANGED <<events, learned, planned, clock>>
        /\ agency[p].status # "absent"
    BY <2>1 DEF ReportUncertain, HandlesWith, Issued
  <2> HIDE DEF refs
  <2>5. /\ rec \in Records /\ rec.status = "uncertain" /\ rec.base = agency[p].base
        /\ rec.ref = ref /\ rec.refs = refs
    BY <2>2 DEF Closed, Records, Statuses
  <2> HIDE DEF rec
  <2> QED BY <2>2, <2>4, <2>5 DEF Open
<1>5. CASE \E cancelled \in SUBSET Refs : AcknowledgeCancellation(p, cancelled, now)
  <2> DEFINE rec == [agency[p] EXCEPT !.status = "rejected", !.ref = NoRef, !.resolvedAt = now]
  <2>1. /\ rec \in Records /\ rec.status = "rejected" /\ rec.base = agency[p].base
        /\ rec.refs = agency[p].refs
    BY DEF Records, Statuses
  <2>2. /\ Persist(p, rec) /\ UNCHANGED <<events, learned, planned, clock>>
        /\ agency[p].status # "absent"
    BY <1>5 DEF AcknowledgeCancellation
  <2> HIDE DEF rec
  <2> QED BY <2>1, <2>2 DEF Open
<1>6. ASSUME NEW c \in Consumers, NEW status \in {"expired", "rejected", "approved"},
             NEW ref \in Refs \cup {NoRef},
             Persist(p, [Closed(agency[p], status, now) EXCEPT !.ref = ref]),
             UNCHANGED <<events, learned, planned, clock>>, HoldsClaim(p, c),
             status = "approved" => ~UncertainScope(p) /\ ApprovedInTime(p, now)
      PROVE  \E rec \in Records :
               /\ Persist(p, rec)
               /\ UNCHANGED <<events, learned, planned, clock>>
               /\ agency[p].status # "absent"
               /\ rec.status \notin Open \cup {"absent"}
               /\ rec.base = agency[p].base
               /\ agency[p].refs \subseteq rec.refs
               /\ rec.status = "uncertain" => rec.ref \in rec.refs
               /\ rec.status = "approved"
                  => /\ agency[p].status = "claimed" /\ rec.refs = agency[p].refs
                     /\ ~UncertainScope(p) /\ ApprovedInTime(p, rec.resolvedAt)
  <2> DEFINE rec == [Closed(agency[p], status, now) EXCEPT !.ref = ref]
  <2>2. Persist(p, rec)
    BY <1>6
  <2>3. /\ rec \in Records /\ rec.status = status /\ rec.base = agency[p].base
        /\ rec.refs = agency[p].refs /\ rec.resolvedAt = now
    BY <1>2, ClosedRefType
  <2>4. agency[p].status = "claimed"
    BY <1>6 DEF HoldsClaim
  <2> HIDE DEF rec
  <2>5. rec.status \notin Open \cup {"absent"} /\ rec.status # "uncertain"
    BY <2>3 DEF Open
  <2> QED BY <1>6, <2>2, <2>3, <2>4, <2>5
<1>7. ASSUME NEW c \in Consumers, ResolveExpired(p, c, now)
      PROVE  \E ref \in Refs \cup {NoRef}, status \in {"expired", "rejected", "approved"} :
               /\ Persist(p, [Closed(agency[p], status, now) EXCEPT !.ref = ref])
               /\ UNCHANGED <<events, learned, planned, clock>> /\ HoldsClaim(p, c)
               /\ status = "approved" => ~UncertainScope(p) /\ ApprovedInTime(p, now)
  BY <1>7 DEF ResolveExpired
<1>8. ASSUME NEW c \in Consumers, Reject(p, c, now)
      PROVE  \E ref \in Refs \cup {NoRef}, status \in {"expired", "rejected", "approved"} :
               /\ Persist(p, [Closed(agency[p], status, now) EXCEPT !.ref = ref])
               /\ UNCHANGED <<events, learned, planned, clock>> /\ HoldsClaim(p, c)
               /\ status = "approved" => ~UncertainScope(p) /\ ApprovedInTime(p, now)
  BY <1>8 DEF Reject, LeaseLive
<1>9. ASSUME NEW c \in Consumers, NEW r \in Refs, Approve(p, c, r, now)
      PROVE  \E ref \in Refs \cup {NoRef}, status \in {"expired", "rejected", "approved"} :
               /\ Persist(p, [Closed(agency[p], status, now) EXCEPT !.ref = ref])
               /\ UNCHANGED <<events, learned, planned, clock>> /\ HoldsClaim(p, c)
               /\ status = "approved" => ~UncertainScope(p) /\ ApprovedInTime(p, now)
  BY <1>9 DEF Approve, Approvable, LeaseLive, ApprovedInTime
<1> QED BY <1>1, <1>4, <1>5, <1>6, <1>7, <1>8, <1>9

\* Every step keeps the types.
LEMMA NextType == TypeOK /\ [Next]_vars => TypeOK'
<1> SUFFICES ASSUME TypeOK, [Next]_vars PROVE TypeOK'
  OBVIOUS
<1> USE ConstantsAssumption
<1>1. ASSUME NEW p \in Proposals, NEW now \in RequestTimes, PutAgencyProposal(p, now)
      PROVE TypeOK'
  <2>1. NewRecord(IF IsTau(p) THEN planned ELSE NoRecord.base) \in Records
    BY NewRecordType, NoRecordType, InitialSnapshotType DEF TypeOK, NoRecord
  <2> QED BY <1>1, <2>1, PersistType DEF PutAgencyProposal, TypeOK
<1>2. ASSUME NEW p \in Proposals, NEW now \in RequestTimes, PutDuplicate(p, now)
      PROVE TypeOK'
  BY <1>2 DEF PutDuplicate, TypeOK
<1>3. ASSUME NEW c \in Consumers, NEW now \in RequestTimes, Claim(c, now)
      PROVE TypeOK'
  <2>1. now \in Nat
    BY DEF RequestTimes, TypeOK
  <2>2. \A p \in Proposals : ClaimUpdate(p, c, now) \in Records
    BY <2>1, ClaimUpdateType
  <2>3. agency' \in [Proposals -> Records] /\ active' \in [Proposals -> Records]
    BY <1>3, <2>2, NoRecordType DEF Claim, TypeOK
  <2>4. snapshot' \in Snapshot
    BY <1>3, AdvanceType DEF Claim, TypeOK
  <2>5. learned' \in [Proposals -> [Consumers -> Nat \cup {Never}]]
    BY <1>3 DEF Claim, TypeOK
  <2> QED BY <1>3, <2>3, <2>4, <2>5 DEF Claim, TypeOK
<1>5. ASSUME Resolve PROVE TypeOK'
  <2>1. PICK p \in Proposals, rec \in Records :
          Persist(p, rec) /\ UNCHANGED <<events, learned, planned, clock>>
    BY <1>5, ResolveStep
  <2> QED BY <2>1, PersistType DEF TypeOK
<1>6. ASSUME NEW e \in Evidence, NEW t \in {clock, clock + 1}, Put(e, t) PROVE TypeOK'
  BY <1>6, AdvanceType DEF Put, TypeOK
<1>7. ASSUME NEW removed, DeleteEvents(removed) PROVE TypeOK'
  <2>1. \A p \in Proposals : Closed(active[p], "rejected", clock) \in Records
    BY ClosedType DEF TypeOK, Statuses
  <2>2. agency' \in [Proposals -> Records] /\ active' \in [Proposals -> Records]
    BY <1>7, <2>1, NoRecordType DEF DeleteEvents, TypeOK
  <2>3. DOMAIN events' \subseteq Evidence /\ events' \in [DOMAIN events' -> Nat]
    BY <1>7 DEF DeleteEvents, TypeOK
  <2>4. snapshot' \in Snapshot
    BY <1>7, AdvanceType DEF DeleteEvents, TypeOK
  <2> QED BY <1>7, <2>2, <2>3, <2>4 DEF DeleteEvents, TypeOK
<1>8. ASSUME NEW cs \in Motions, OtherMutation(cs) PROVE TypeOK'
  BY <1>8, AdvanceType DEF OtherMutation, TypeOK
<1>9. CASE ReadHealth
  BY <1>9 DEF ReadHealth, TypeOK
<1>10. CASE Tick
  BY <1>10 DEF Tick, TypeOK
<1>11. CASE UNCHANGED vars
  BY <1>11 DEF vars, TypeOK
<1> QED
  BY <1>1, <1>2, <1>3, <1>5, <1>6, <1>7, <1>8, <1>9, <1>10, <1>11
  DEF Next, Issue, Store, Delete, DeleteBefore

\* Type correctness of the agency queue.
THEOREM TypeCorrect == Spec => []TypeOK
<1>1. Init => TypeOK
  BY InitType
<1>2. TypeOK /\ [Next]_vars => TypeOK'
  BY NextType
<1> QED BY <1>1, <1>2, PTL DEF Spec

-----------------------------------------------------------------------------
(* The version vector: a stale forecast stays stale. *)

\* A base behind a vector stays behind it when the runtime counter advances.
LEMMA BehindAdvance ==
  ASSUME NEW b \in Snapshot, NEW s \in Snapshot, NEW cs, "runtime" \in cs,
         Behind(b, s)
  PROVE  Behind(b, Advance(s, cs))
BY DEF Behind, Advance, Snapshot, Counters

\* An incompatible base stays incompatible under every mutation.
LEMMA StaleStays ==
  ASSUME NEW b \in Snapshot, NEW s \in Snapshot, NEW cs, "runtime" \in cs,
         Behind(b, s), ~TauSnapshotCompatible(b, s)
  PROVE  ~TauSnapshotCompatible(b, Advance(s, cs))
<1>1. \A c \in Counters : /\ b[c] \in Nat /\ s[c] \in Nat /\ b[c] <= s[c]
                         /\ Advance(s, cs)[c] \in {s[c], s[c] + 1}
  BY DEF Snapshot, Behind, Advance
<1>2. /\ "runtime" \in Counters /\ "agency" \in Counters
      /\ FrozenCounters \subseteq Counters
  BY DEF Counters, FrozenCounters
<1>3. Advance(s, cs)["runtime"] = s["runtime"] + 1
  BY <1>2 DEF Advance
<1>4. ASSUME NEW c \in FrozenCounters, b[c] # s[c]
      PROVE  b[c] # Advance(s, cs)[c]
  <2>1. c \in Counters
    BY <1>2
  <2> QED BY <1>1, <1>4, <2>1
<1>5. CASE \E c \in FrozenCounters : b[c] # s[c]
  BY <1>4, <1>5 DEF TauSnapshotCompatible
<1>6. CASE \A c \in FrozenCounters : b[c] = s[c]
  <2>1. s["runtime"] - b["runtime"] # s["agency"] - b["agency"]
    BY <1>1, <1>2, <1>6 DEF TauSnapshotCompatible
  <2>2. b["runtime"] + s["agency"] < s["runtime"] + b["agency"]
    BY <1>1, <1>2, <2>1 DEF Behind
  <2>3. Advance(s, cs)["runtime"] - b["runtime"] # Advance(s, cs)["agency"] - b["agency"]
    BY <1>1, <1>2, <1>3, <2>2
  <2> QED BY <2>3 DEF TauSnapshotCompatible
<1> QED BY <1>5, <1>6

\* A mutation other than agency bookkeeping makes every base incompatible.
LEMMA MotionBreaks ==
  ASSUME NEW b \in Snapshot, NEW s \in Snapshot, NEW cs \in SUBSET Counters,
         "runtime" \in cs, "agency" \notin cs \/ cs \cap FrozenCounters # {},
         Behind(b, s)
  PROVE  ~TauSnapshotCompatible(b, Advance(s, cs))
<1>1. \A c \in Counters : /\ b[c] \in Nat /\ s[c] \in Nat /\ b[c] <= s[c]
                         /\ Advance(s, cs)[c] = IF c \in cs THEN s[c] + 1 ELSE s[c]
  BY DEF Snapshot, Behind, Advance
<1>2. /\ "runtime" \in Counters /\ "agency" \in Counters
      /\ FrozenCounters \subseteq Counters
  BY DEF Counters, FrozenCounters
<1>3. CASE cs \cap FrozenCounters # {}
  <2>1. PICK c \in FrozenCounters : c \in cs /\ c \in Counters
    BY <1>2, <1>3
  <2>2. b[c] # Advance(s, cs)[c]
    BY <1>1, <2>1
  <2> QED BY <2>1, <2>2 DEF TauSnapshotCompatible
<1>4. CASE "agency" \notin cs
  <2>1. Advance(s, cs)["runtime"] = s["runtime"] + 1 /\ Advance(s, cs)["agency"] = s["agency"]
    BY <1>1, <1>2, <1>4
  <2>2. Advance(s, cs)["runtime"] - b["runtime"] # Advance(s, cs)["agency"] - b["agency"]
    BY <1>1, <1>2, <2>1 DEF Behind
  <2> QED BY <2>2 DEF TauSnapshotCompatible
<1> QED BY <1>3, <1>4

\* How a step moves the version vector.
VectorStep ==
  \/ snapshot' = snapshot /\ events' = events
  \/ snapshot' = Advance(snapshot, AgencyBumps) /\ events' = events
  \/ \E cs \in SUBSET Counters :
       /\ snapshot' = Advance(snapshot, cs)
       /\ "runtime" \in cs
       /\ "agency" \notin cs \/ cs \cap FrozenCounters # {}

\* Every step of the queue is a vector step.
LEMMA NextVectorStep == TypeOK /\ [Next]_vars => VectorStep
<1> SUFFICES ASSUME TypeOK, [Next]_vars PROVE VectorStep
  OBVIOUS
<1>1. CASE Issue
  <2>1. ASSUME NEW p, NEW now, PutAgencyProposal(p, now) PROVE VectorStep
    BY <2>1 DEF PutAgencyProposal, Persist, VectorStep
  <2>2. ASSUME NEW p, NEW now, PutDuplicate(p, now) PROVE VectorStep
    BY <2>2 DEF PutDuplicate, VectorStep
  <2> QED BY <1>1, <2>1, <2>2 DEF Issue
<1>2. CASE \E c \in Consumers, now \in RequestTimes : Claim(c, now)
  BY <1>2 DEF Claim, VectorStep
<1>3. CASE Resolve
  BY <1>3, ResolveStep DEF Persist, VectorStep
<1>4. ASSUME NEW e, NEW t, Put(e, t) PROVE VectorStep
  <2>1. PutBumps \in SUBSET Counters /\ "runtime" \in PutBumps /\ "agency" \notin PutBumps
    BY DEF PutBumps, Counters
  <2> QED BY <1>4, <2>1 DEF Put, VectorStep
<1>5. ASSUME NEW removed, DeleteEvents(removed) PROVE VectorStep
  <2> DEFINE cs == IF Citing(removed) = {} THEN InvalidateBumps
                   ELSE InvalidateBumps \cup {"agency"}
  <2>1. /\ cs \in SUBSET Counters /\ "runtime" \in cs
        /\ "graph" \in cs \cap FrozenCounters
    BY DEF InvalidateBumps, Counters, FrozenCounters
  <2>2. snapshot' = Advance(snapshot, cs)
    BY <1>5 DEF DeleteEvents
  <2> HIDE DEF cs
  <2> QED BY <2>1, <2>2 DEF VectorStep
<1>6. ASSUME NEW cs \in Motions, OtherMutation(cs) PROVE VectorStep
  <2>1. cs \in SUBSET Counters /\ "runtime" \in cs /\ "agency" \notin cs
    BY ConstantsAssumption
    DEF OtherBumps, CompositionBumps, PolicyBumps, CertificateBumps,
        InvalidateBumps, SnapBumps, OutcomeBumps, SplitBumps, ContractBumps,
        Counters
  <2> QED BY <1>6, <2>1 DEF OtherMutation, VectorStep
<1>7. CASE ReadHealth \/ Tick \/ UNCHANGED vars
  BY <1>7 DEF ReadHealth, Tick, vars, VectorStep
<1> QED
  BY <1>1, <1>2, <1>3, <1>4, <1>5, <1>6, <1>7 DEF Next, Store, Delete, DeleteBefore

\* A vector step keeps a base behind, and a stale base stale.
LEMMA VectorStepStale ==
  ASSUME NEW b \in Snapshot, snapshot \in Snapshot, Behind(b, snapshot), VectorStep
  PROVE  /\ Behind(b, snapshot')
         /\ ~TauSnapshotCompatible(b, snapshot) => ~TauSnapshotCompatible(b, snapshot')
<1>1. CASE snapshot' = snapshot
  BY <1>1
<1>2. CASE snapshot' = Advance(snapshot, AgencyBumps)
  <2>1. "runtime" \in AgencyBumps
    BY DEF AgencyBumps
  <2> QED BY <1>2, <2>1, BehindAdvance, StaleStays
<1>3. CASE \E cs \in SUBSET Counters : /\ snapshot' = Advance(snapshot, cs)
                                       /\ "runtime" \in cs
  BY <1>3, BehindAdvance, StaleStays
<1> QED BY <1>1, <1>2, <1>3 DEF VectorStep

-----------------------------------------------------------------------------
(* The projection is an exact copy. *)

\* Persist keeps the projection exact.
LEMMA PersistProjection ==
  ASSUME TypeOK, ActiveProjection, NEW p \in Proposals, NEW rec \in Records,
         Persist(p, rec)
  PROVE  ActiveProjection'
BY DEF TypeOK, ActiveProjection, Persist

\* A record the sweep closes, or leases, is the archived one, and open.
LEMMA SweptOpen ==
  ASSUME TypeOK, ActiveProjection, NEW now \in Nat,
         NEW p \in SweptRejected \cup SweptExpired(now) \cup Chosen(now)
  PROVE  p \in Proposals /\ active[p] = agency[p] /\ agency[p].status \in Open
<1>1. p \in Proposals /\ active[p].status \in Open
  BY DEF SweptRejected, SweptExpired, Chosen, Eligible, Open
<1>2. active[p] # NoRecord
  BY <1>1, NoRecordType DEF Open
<1>3. active[p] = agency[p]
  BY <1>1, <1>2 DEF ActiveProjection
<1> QED BY <1>1, <1>3

\* Every step keeps the projection exact.
LEMMA NextProjection ==
  ASSUME TypeOK, ActiveProjection, [Next]_vars
  PROVE  ActiveProjection'
<1>1. ASSUME NEW p \in Proposals, NEW now \in RequestTimes, PutAgencyProposal(p, now)
      PROVE  ActiveProjection'
  <2>1. NewRecord(IF IsTau(p) THEN planned ELSE NoRecord.base) \in Records
    BY NewRecordType, NoRecordType, InitialSnapshotType DEF TypeOK, NoRecord
  <2> QED BY <1>1, <2>1, PersistProjection DEF PutAgencyProposal
<1>2. ASSUME NEW p \in Proposals, NEW now \in RequestTimes, PutDuplicate(p, now)
      PROVE  ActiveProjection'
  BY <1>2 DEF PutDuplicate, ActiveProjection, TypeOK
<1>3. ASSUME NEW c \in Consumers, NEW now \in RequestTimes, Claim(c, now)
      PROVE  ActiveProjection'
  <2>1. now \in Nat
    BY DEF RequestTimes, TypeOK
  <2> SUFFICES ASSUME NEW p \in Proposals
               PROVE  active'[p] = IF agency'[p].status \in Open \cup {"uncertain"}
                                   THEN agency'[p] ELSE NoRecord
    BY DEF ActiveProjection
  <2>2. CASE p \in SweptRejected \cup SweptExpired(now)
    <3>1. ClaimUpdate(p, c, now).status \in {"rejected", "expired"}
      <4>1. active[p] \in Records /\ {"rejected", "expired"} \subseteq Statuses
        BY DEF TypeOK, Statuses
      <4>2. ClaimUpdate(p, c, now) \in {Closed(active[p], "rejected", now),
                                        Closed(active[p], "expired", now)}
        BY <2>2 DEF ClaimUpdate
      <4>3. \A st \in {"rejected", "expired"} : Closed(active[p], st, now).status = st
        BY <2>1, <4>1, ClosedType
      <4> QED BY <4>2, <4>3
    <3>2. agency'[p] = ClaimUpdate(p, c, now) /\ active'[p] = NoRecord
      BY <1>3, <2>2 DEF Claim
    <3> QED BY <3>1, <3>2 DEF Open
  <2>3. CASE p \in Chosen(now) /\ p \notin SweptRejected \cup SweptExpired(now)
    <3>1. ClaimUpdate(p, c, now).status = "claimed"
      BY <2>1, <2>3, LeasedType DEF ClaimUpdate, TypeOK
    <3>2. agency'[p] = ClaimUpdate(p, c, now) /\ active'[p] = ClaimUpdate(p, c, now)
      BY <1>3, <2>3 DEF Claim
    <3> QED BY <3>1, <3>2 DEF Open
  <2>4. CASE p \notin Chosen(now) \cup SweptRejected \cup SweptExpired(now)
    <3>1. agency'[p] = agency[p] /\ active'[p] = active[p]
      BY <1>3, <2>4 DEF Claim
    <3> QED BY <3>1 DEF ActiveProjection
  <2> QED BY <2>2, <2>3, <2>4
<1>4. ASSUME Resolve PROVE ActiveProjection'
  BY <1>4, ResolveStep, PersistProjection
<1>5. ASSUME NEW removed, DeleteEvents(removed) PROVE ActiveProjection'
  <2>1. \A p \in Proposals : Closed(active[p], "rejected", clock).status = "rejected"
    <3>1. /\ "rejected" \in Statuses /\ clock \in Nat
          /\ \A p \in Proposals : active[p] \in Records
      BY DEF TypeOK, Statuses
    <3> QED BY <3>1, ClosedType
  <2>2. ASSUME NEW p \in Proposals
        PROVE  \/ agency'[p].status = "rejected" /\ active'[p] = NoRecord
               \/ agency'[p] = agency[p] /\ active'[p] = active[p]
    <3>1. /\ agency'[p] = IF p \in Citing(removed)
                          THEN Closed(active[p], "rejected", clock) ELSE agency[p]
          /\ active'[p] = IF p \in Citing(removed) THEN NoRecord ELSE active[p]
      BY <1>5 DEF DeleteEvents
    <3> QED BY <2>1, <3>1
  <2> QED BY <2>2 DEF ActiveProjection, Open
<1>6. CASE UNCHANGED <<agency, active>>
  BY <1>6 DEF ActiveProjection
<1> QED
  BY <1>1, <1>2, <1>3, <1>4, <1>5, <1>6
  DEF Next, Issue, Store, Delete, DeleteBefore, Put, OtherMutation, ReadHealth, Tick, vars

\* The projection that Claim, Approve and evidence deletion scan is an exact
\* copy of the open and uncertain records of the archive.
THEOREM ProjectionExact == Spec => []ActiveProjection
<1>1. Init => ActiveProjection
  BY NoRecordType DEF Init, ActiveProjection, Open
<1>2. TypeOK /\ ActiveProjection /\ [Next]_vars => ActiveProjection'
  BY NextProjection
<1> QED BY <1>1, <1>2, TypeCorrect, PTL DEF Spec

-----------------------------------------------------------------------------
(* What a step does to one record. *)

\* A record is left alone, issued, or moved on.  Moving on keeps its base and
\* its handles; only a record that is open can stay open, when no unresolved
\* execution shares its scope and no live lease is taken over; only a leased
\* record is approved, in time and alone; a record becomes uncertain with its
\* handle kept.
MovedOn(p) ==
  /\ agency[p].status # "absent"
  /\ agency'[p].status # "absent"
  /\ agency'[p].base = agency[p].base
  /\ agency[p].refs \subseteq agency'[p].refs
  /\ agency'[p].status \in Open
     => /\ agency[p].status \in Open /\ agency'[p].refs = agency[p].refs
        /\ ~UncertainScope(p)
        /\ agency[p].status = "claimed" => clock >= agency[p].leaseUntil
  /\ agency'[p].status = "approved"
     => /\ agency[p].status = "claimed" /\ agency'[p].refs = agency[p].refs
        /\ ~UncertainScope(p) /\ ApprovedInTime(p, agency'[p].resolvedAt)
        /\ clock' = clock /\ \A q \in Proposals \ {p} : agency'[q] = agency[q]
  /\ agency'[p].status = "uncertain" => agency'[p].ref \in agency'[p].refs

RecordStep(p) ==
  \/ agency'[p] = agency[p]
  \/ \E now \in RequestTimes : PutAgencyProposal(p, now)
  \/ MovedOn(p)

\* A swept or leased record moves on.
LEMMA ClaimMoves ==
  ASSUME TypeOK, ActiveProjection, NEW c \in Consumers, NEW now \in RequestTimes,
         Claim(c, now), NEW p \in Proposals
  PROVE  agency'[p] = agency[p] \/ MovedOn(p)
<1>1. now \in Nat /\ now <= clock /\ clock \in Nat
  BY DEF RequestTimes, TypeOK
<1>2. CASE p \in SweptRejected \cup SweptExpired(now)
  <2>1. active[p] = agency[p] /\ agency[p].status \in Open
    BY <1>1, <1>2, SweptOpen
  <2>2. PICK st \in {"rejected", "expired"} : ClaimUpdate(p, c, now) = Closed(active[p], st, now)
    BY <1>2 DEF ClaimUpdate
  <2>3. agency'[p] = Closed(agency[p], st, now)
    BY <1>2, <2>1, <2>2 DEF Claim
  <2>4. agency[p] \in Records /\ st \in Statuses
    BY DEF TypeOK, Statuses
  <2>5. /\ agency'[p].status = st /\ agency'[p].base = agency[p].base
        /\ agency'[p].refs = agency[p].refs
    BY <1>1, <2>3, <2>4, ClosedType
  <2> QED BY <2>1, <2>5 DEF MovedOn, Open
<1>3. CASE p \in Chosen(now) /\ p \notin SweptRejected \cup SweptExpired(now)
  <2>1. active[p] = agency[p] /\ agency[p].status \in Open
    BY <1>1, <1>3, SweptOpen
  <2>2. agency'[p] = Leased(agency[p], c, now)
    BY <1>3, <2>1 DEF Claim, ClaimUpdate
  <2>3. agency[p] \in Records
    BY DEF TypeOK
  <2>4. /\ agency'[p].status = "claimed" /\ agency'[p].base = agency[p].base
        /\ agency'[p].refs = agency[p].refs
    BY <1>1, <2>2, <2>3, LeasedType
  <2>5. ~UncertainScope(p)
    BY <1>3, <2>1 DEF SweptRejected
  <2>6. agency[p].status = "claimed" => now >= agency[p].leaseUntil
    BY <1>3, <2>1 DEF Chosen, Eligible
  <2>7. agency[p].status = "claimed" => clock >= agency[p].leaseUntil
    BY <1>1, <2>3, <2>6 DEF Records
  <2> QED BY <2>1, <2>4, <2>5, <2>7 DEF MovedOn, Open
<1>4. CASE p \notin Chosen(now) \cup SweptRejected \cup SweptExpired(now)
  BY <1>4 DEF Claim
<1> QED BY <1>2, <1>3, <1>4

\* Every step of the queue is a record step.
LEMMA NextRecordStep ==
  ASSUME TypeOK, ActiveProjection, [Next]_vars, NEW p \in Proposals
  PROVE  RecordStep(p)
<1>1. ASSUME NEW q \in Proposals, NEW now \in RequestTimes, PutAgencyProposal(q, now)
      PROVE  RecordStep(p)
  <2>1. p # q => agency'[p] = agency[p]
    BY <1>1 DEF PutAgencyProposal, Persist, TypeOK
  <2> QED BY <1>1, <2>1 DEF RecordStep
<1>2. ASSUME NEW c \in Consumers, NEW now \in RequestTimes, Claim(c, now)
      PROVE  RecordStep(p)
  BY <1>2, ClaimMoves DEF RecordStep
<1>3. ASSUME Resolve PROVE RecordStep(p)
  <2>1. PICK q \in Proposals, rec \in Records :
           /\ Persist(q, rec)
           /\ agency[q].status # "absent"
           /\ rec.status \notin Open \cup {"absent"}
           /\ rec.base = agency[q].base
           /\ agency[q].refs \subseteq rec.refs
           /\ rec.status = "uncertain" => rec.ref \in rec.refs
           /\ rec.status = "approved"
              => /\ agency[q].status = "claimed" /\ rec.refs = agency[q].refs
                 /\ ~UncertainScope(q) /\ ApprovedInTime(q, rec.resolvedAt)
           /\ clock' = clock
    BY <1>3, ResolveStep
  <2>2. \A r \in Proposals : agency'[r] = IF r = q THEN rec ELSE agency[r]
    BY <2>1 DEF Persist, TypeOK
  <2> QED BY <2>1, <2>2 DEF RecordStep, MovedOn
<1>4. ASSUME NEW removed, DeleteEvents(removed) PROVE RecordStep(p)
  <2>1. agency'[p] = IF p \in Citing(removed)
                     THEN Closed(active[p], "rejected", clock) ELSE agency[p]
    BY <1>4 DEF DeleteEvents
  <2>2. CASE p \in Citing(removed)
    <3>1. active[p].status \in Open
      BY <2>2 DEF Citing
    <3>2. active[p] = agency[p] /\ agency[p].status \in Open
      BY <3>1, NoRecordType DEF ActiveProjection, Open
    <3>3. agency[p] \in Records /\ clock \in Nat /\ "rejected" \in Statuses
      BY DEF TypeOK, Statuses
    <3>4. /\ agency'[p].status = "rejected" /\ agency'[p].base = agency[p].base
          /\ agency'[p].refs = agency[p].refs
      BY <2>1, <2>2, <3>2, <3>3, ClosedType
    <3> QED BY <3>2, <3>4 DEF RecordStep, MovedOn, Open
  <2> QED BY <2>1, <2>2 DEF RecordStep
<1>5. CASE UNCHANGED agency
  BY <1>5 DEF RecordStep
<1> QED
  BY <1>1, <1>2, <1>3, <1>4, <1>5
  DEF Next, Issue, PutDuplicate, Store, Delete, DeleteBefore, Put, OtherMutation,
      ReadHealth, Tick, vars

\* The clock never goes back, and the planner's base is one it had or the
\* current vector.
LEMMA NextClockPlanned ==
  ASSUME TypeOK, [Next]_vars
  PROVE  clock' \in Nat /\ clock <= clock' /\ planned' \in {planned, snapshot}
                         /\ (planned' = planned \/ snapshot' = snapshot)
<1>1. CASE UNCHANGED <<clock, planned>>
  BY <1>1 DEF TypeOK
<1>2. CASE ReadHealth \/ Tick
  BY <1>2 DEF ReadHealth, Tick, TypeOK
<1>3. CASE Resolve
  BY <1>1, <1>3, ResolveStep
<1> QED
  BY <1>1, <1>2, <1>3
  DEF Next, Issue, PutAgencyProposal, PutDuplicate, Claim, Store, Delete, DeleteBefore,
      DeleteEvents, Put, OtherMutation, vars

-----------------------------------------------------------------------------
(* The inductive invariant. *)

\* The vector of a fresh database is a base like any other: it is what a
\* record without a tau binding carries.
InitialBehind == Behind(InitialSnapshot, snapshot)

\* An opportunity is exclusive because stale bases stay stale (BasesBehind),
\* and admission is checked against the archive whose open records the
\* projection copies (ActiveProjection).
IInv ==
  /\ TypeOK
  /\ ActiveProjection
  /\ InitialBehind
  /\ BasesBehind
  /\ NoApprovalAfterUncertainty
  /\ OneLiveOpportunity

\* A record issued by PutAgencyProposal is pending, without handles, and
\* bound to the planner's base or to none.
LEMMA IssuedRecord ==
  ASSUME TypeOK, NEW p \in Proposals, NEW now, PutAgencyProposal(p, now)
  PROVE  /\ agency'[p].status = "pending" /\ agency'[p].refs = {}
         /\ agency'[p].base \in {planned, InitialSnapshot}
         /\ \A q \in Proposals \ {p} : agency'[q] = agency[q]
<1>1. ASSUME NEW b
      PROVE  /\ NewRecord(b).status = "pending" /\ NewRecord(b).refs = {}
             /\ NewRecord(b).base = b
  BY DEF NewRecord, NoRecord
<1>2. NoRecord.base = InitialSnapshot
  BY DEF NoRecord
<1>3. agency' = [agency EXCEPT ![p] =
                   NewRecord(IF IsTau(p) THEN planned ELSE NoRecord.base)]
  BY DEF PutAgencyProposal, Persist
<1>4. /\ agency'[p] = NewRecord(IF IsTau(p) THEN planned ELSE NoRecord.base)
      /\ \A q \in Proposals \ {p} : agency'[q] = agency[q]
  BY <1>3 DEF TypeOK
<1> QED BY <1>1, <1>2, <1>4

\* Bases stay behind the vector.
LEMMA NextBehind ==
  ASSUME IInv, [Next]_vars
  PROVE  InitialBehind' /\ BasesBehind'
<1>1. VectorStep /\ snapshot \in Snapshot /\ planned \in Snapshot
  BY NextVectorStep DEF IInv, TypeOK
<1>2. InitialBehind'
  BY <1>1, InitialSnapshotType, VectorStepStale DEF IInv, InitialBehind
<1>3. Behind(planned, snapshot')
  BY <1>1, VectorStepStale DEF IInv, BasesBehind
<1>4. Behind(snapshot, snapshot)
  BY <1>1 DEF Behind, Snapshot, Counters
<1>5. Behind(planned', snapshot')
  BY <1>3, <1>4, NextClockPlanned DEF IInv
<1>6. ASSUME NEW p \in Proposals PROVE Behind(agency'[p].base, snapshot')
  <2>1. agency[p].base \in Snapshot /\ Behind(agency[p].base, snapshot)
    BY DEF IInv, TypeOK, Records, BasesBehind
  <2>2. Behind(agency[p].base, snapshot')
    BY <1>1, <2>1, VectorStepStale
  <2>3. CASE \E now \in RequestTimes : PutAgencyProposal(p, now)
    <3>1. agency'[p].base \in {planned, InitialSnapshot}
      BY <2>3, IssuedRecord DEF IInv
    <3> QED BY <1>2, <1>3, <3>1 DEF InitialBehind
  <2>4. CASE agency'[p] = agency[p] \/ MovedOn(p)
    BY <2>2, <2>4 DEF MovedOn
  <2> QED BY <2>3, <2>4, NextRecordStep DEF IInv, RecordStep
<1> QED BY <1>2, <1>5, <1>6 DEF BasesBehind

\* An uncertain record never becomes open or approved.
LEMMA NextNoApproval ==
  ASSUME IInv, [Next]_vars
  PROVE  NoApprovalAfterUncertainty'
<1> SUFFICES ASSUME NEW p \in Proposals
             PROVE  /\ agency'[p].status \in Open \cup {"approved"} => agency'[p].refs = {}
                    /\ agency'[p].status = "uncertain" => agency'[p].ref \in agency'[p].refs
  BY DEF NoApprovalAfterUncertainty
<1>1. CASE agency'[p] = agency[p]
  BY <1>1 DEF IInv, NoApprovalAfterUncertainty
<1>2. CASE \E now \in RequestTimes : PutAgencyProposal(p, now)
  BY <1>2, IssuedRecord DEF IInv
<1>3. CASE MovedOn(p)
  BY <1>3 DEF MovedOn, IInv, NoApprovalAfterUncertainty, Open
<1> QED BY <1>1, <1>2, <1>3, NextRecordStep DEF IInv, RecordStep

\* A record that is open and compatible after a step, and was not issued by
\* it, was open and compatible before.
LEMMA OpenBefore ==
  ASSUME IInv, [Next]_vars, NEW p \in Proposals,
         agency'[p].status \in Open,
         IsTau(p) => TauSnapshotCompatible(agency'[p].base, snapshot'),
         ~ \E now \in RequestTimes : PutAgencyProposal(p, now)
  PROVE  agency[p].status \in Open /\ Compatible(p, agency[p].base)
<1>1. agency[p].status \in Open /\ agency'[p].base = agency[p].base
  BY NextRecordStep DEF IInv, RecordStep, MovedOn
<1>2. agency[p].base \in Snapshot /\ Behind(agency[p].base, snapshot)
  BY DEF IInv, TypeOK, Records, BasesBehind
<1>3. VectorStep /\ snapshot \in Snapshot
  BY NextVectorStep DEF IInv, TypeOK
<1> QED BY <1>1, <1>2, <1>3, VectorStepStale DEF Compatible

\* A newly issued proposal finds no live opportunity of its scope.
LEMMA IssuedAlone ==
  ASSUME IInv, [Next]_vars, NEW p \in Proposals, NEW q \in Proposals, p # q,
         SameScope(p, q), NEW now \in RequestTimes, PutAgencyProposal(p, now),
         agency'[q].status \in Open,
         IsTau(q) => TauSnapshotCompatible(agency'[q].base, snapshot')
  PROVE  clock >= Draft[q].expiresAt
<1>1. agency'[q] = agency[q]
  BY IssuedRecord DEF IInv
<1>2. agency[q].status # "absent"
  BY <1>1 DEF Open
<1>3. ~ \E t \in RequestTimes : PutAgencyProposal(q, t)
  BY <1>2 DEF PutAgencyProposal
<1>4. agency[q].status \in Open /\ Compatible(q, agency[q].base)
  BY <1>3, OpenBefore
<1>5. ~OpportunityBlocked(p, q, now)
  BY <1>2 DEF PutAgencyProposal, Issued
<1>6. ~(Draft[q].expiresAt > now)
  BY <1>4, <1>5 DEF OpportunityBlocked
<1>7. now \in Nat /\ now <= clock /\ clock \in Nat /\ Draft[q].expiresAt \in Nat
  BY ConstantsAssumption DEF RequestTimes, DraftType, IInv, TypeOK
<1> QED BY <1>6, <1>7

\* At most one live opportunity per scope, after every step.
LEMMA NextOneLive ==
  ASSUME IInv, [Next]_vars
  PROVE  OneLiveOpportunity'
<1> SUFFICES ASSUME NEW p \in Proposals, NEW q \in Proposals, p # q, SameScope(p, q),
                    agency'[p].status \in Open,
                    IsTau(p) => TauSnapshotCompatible(agency'[p].base, snapshot'),
                    agency'[q].status \in Open,
                    IsTau(q) => TauSnapshotCompatible(agency'[q].base, snapshot')
             PROVE  clock' >= Draft[p].expiresAt \/ clock' >= Draft[q].expiresAt
  BY DEF OneLiveOpportunity, SameScope, IsTau, Compatible
<1>1. clock \in Nat /\ clock' \in Nat /\ clock <= clock'
  BY NextClockPlanned DEF IInv, TypeOK
<1>2. Draft[p].expiresAt \in Nat /\ Draft[q].expiresAt \in Nat
  BY ConstantsAssumption DEF DraftType
<1>3. SameScope(q, p)
  BY DEF SameScope, IsTau
<1>4. CASE \E now \in RequestTimes : PutAgencyProposal(p, now)
  BY <1>1, <1>2, <1>4, IssuedAlone
<1>5. CASE \E now \in RequestTimes : PutAgencyProposal(q, now)
  BY <1>1, <1>2, <1>3, <1>5, IssuedAlone
<1>6. CASE /\ ~ \E now \in RequestTimes : PutAgencyProposal(p, now)
           /\ ~ \E now \in RequestTimes : PutAgencyProposal(q, now)
  <2>1. agency[p].status \in Open /\ Compatible(p, agency[p].base)
    BY <1>6, OpenBefore
  <2>2. agency[q].status \in Open /\ Compatible(q, agency[q].base)
    BY <1>6, OpenBefore
  <2>3. clock >= Draft[p].expiresAt \/ clock >= Draft[q].expiresAt
    BY <2>1, <2>2 DEF IInv, OneLiveOpportunity
  <2> QED BY <1>1, <1>2, <2>3
<1> QED BY <1>4, <1>5, <1>6

\* The inductive invariant holds in the initial states.
LEMMA InitInv == Init => IInv
<1> SUFFICES ASSUME Init PROVE IInv
  OBVIOUS
<1>1. TypeOK
  BY InitType
<1>2. Behind(InitialSnapshot, InitialSnapshot)
  BY InitialSnapshotType DEF Behind, Snapshot, Counters
<1>3. \A p \in Proposals : agency[p] = NoRecord /\ active[p] = NoRecord
  BY DEF Init
<1>4. NoRecord.base = InitialSnapshot /\ NoRecord.status = "absent"
  BY DEF NoRecord
<1>5. InitialBehind /\ BasesBehind
  BY <1>2, <1>3, <1>4 DEF Init, InitialBehind, BasesBehind
<1>6. ActiveProjection /\ NoApprovalAfterUncertainty /\ OneLiveOpportunity
  BY <1>3, <1>4 DEF ActiveProjection, NoApprovalAfterUncertainty, OneLiveOpportunity, Open
<1> QED BY <1>1, <1>5, <1>6 DEF IInv

\* Every step keeps it.
LEMMA NextInv == IInv /\ [Next]_vars => IInv'
BY NextType, NextProjection, NextBehind, NextNoApproval, NextOneLive DEF IInv

\* Every reachable state satisfies the inductive invariant.
THEOREM Inductive == Spec => []IInv
BY InitInv, NextInv, PTL DEF Spec

\* Every base held by the planner or a record lies behind the version vector.
THEOREM BasesStayBehind == Spec => []BasesBehind
<1>1. IInv => BasesBehind
  BY DEF IInv
<1> QED BY <1>1, Inductive, PTL

\* A proposal reported uncertain is never approved.
THEOREM NeverApproved == Spec => []NoApprovalAfterUncertainty
<1>1. IInv => NoApprovalAfterUncertainty
  BY DEF IInv
<1> QED BY <1>1, Inductive, PTL

\* There is one live reserved opportunity per session and target, for every
\* clock lag of the requests.
THEOREM OneOpportunity == Spec => []OneLiveOpportunity
<1>1. IInv => OneLiveOpportunity
  BY DEF IInv
<1> QED BY <1>1, Inductive, PTL

-----------------------------------------------------------------------------
(* Forecast identifiers. *)

\* The base of a new tau record is the planner's.
LEMMA IssuedBase ==
  ASSUME TypeOK, NEW p \in Proposals, NEW now, PutAgencyProposal(p, now), IsTau(p)
  PROVE  agency'[p].base = planned
<1>1. NewRecord(planned).base = planned
  BY DEF NewRecord, NoRecord
<1>2. agency'[p] = NewRecord(planned)
  BY DEF PutAgencyProposal, Persist, TypeOK
<1> QED BY <1>1, <1>2

\* A new record agrees with every issued one of its forecast.
LEMMA IssuedBound ==
  ASSUME TypeOK, NEW p \in Proposals, NEW now, PutAgencyProposal(p, now),
         NEW q \in Issued, IsTau(p), IsTau(q), Draft[p].forecast = Draft[q].forecast
  PROVE  Draft[p].law = Draft[q].law /\ agency'[p].base = agency'[q].base
<1>1. ~ForecastConflict(p, planned, q) /\ p # q
  BY DEF PutAgencyProposal, Issued
<1>2. Draft[p].law = Draft[q].law /\ planned = agency[q].base
  BY <1>1 DEF ForecastConflict
<1>3. agency'[q] = agency[q]
  BY <1>1, IssuedRecord DEF Issued
<1> QED BY <1>2, <1>3, IssuedBase

\* PutAgencyProposal compares a new binding with every stored one, and no
\* operation rebinds a record: a forecast identifier stays bound to one law
\* and one base snapshot.
THEOREM ForecastsBound == Spec => []ForecastBinding
<1>1. Init => ForecastBinding
  BY DEF Init, ForecastBinding, Issued, NoRecord
<1>2. IInv /\ ForecastBinding /\ [Next]_vars => ForecastBinding'
  <2> SUFFICES ASSUME IInv, ForecastBinding, [Next]_vars,
                      NEW p \in Proposals, agency'[p].status # "absent",
                      NEW q \in Proposals, agency'[q].status # "absent",
                      IsTau(p), IsTau(q), Draft[p].forecast = Draft[q].forecast
               PROVE  Draft[p].law = Draft[q].law /\ agency'[p].base = agency'[q].base
    BY DEF ForecastBinding, Issued, IsTau
  <2>1. ASSUME NEW r \in Proposals, agency'[r].status # "absent",
               ~ \E now \in RequestTimes : PutAgencyProposal(r, now)
        PROVE  r \in Issued /\ agency'[r].base = agency[r].base
    BY <2>1, NextRecordStep DEF IInv, RecordStep, MovedOn, Issued
  <2>2. CASE \E now \in RequestTimes : PutAgencyProposal(p, now)
    <3>1. p # q => q \in Issued
      BY <2>2, IssuedRecord DEF IInv, Issued
    <3> QED BY <2>2, <3>1, IssuedBound DEF IInv
  <2>3. CASE \E now \in RequestTimes : PutAgencyProposal(q, now)
    <3>1. p # q => p \in Issued
      BY <2>3, IssuedRecord DEF IInv, Issued
    <3> QED BY <2>3, <3>1, IssuedBound DEF IInv
  <2>4. CASE /\ ~ \E now \in RequestTimes : PutAgencyProposal(p, now)
             /\ ~ \E now \in RequestTimes : PutAgencyProposal(q, now)
    BY <2>1, <2>4 DEF ForecastBinding
  <2> QED BY <2>2, <2>3, <2>4
<1> QED BY <1>1, <1>2, Inductive, PTL DEF Spec

-----------------------------------------------------------------------------
(* The spacing of approved turns.  A decision about a turn is dated no     *)
(* earlier than its admission.  So a turn admitted after an approval is    *)
(* dated a cooldown later; and of two turns that were open together, one   *)
(* had expired at every date the other can be decided at, which leaves it  *)
(* only an approval that waited for the lock beyond its expiry.            *)

\* The dates that decisions about p which were not committed yet may carry.
MayDate(p, t) == clock <= t \/ \E c \in Consumers : Asked(p, c, t)

\* Nobody was told of a lease on a proposal that was not issued.
Untold == \A p \in Proposals :
            agency[p].status = "absent" => \A c \in Consumers : learned[p][c] = Never

\* The cooldowns of p and q after the approval of p have passed at t.
CooledDown(p, q, t) ==
  \A d \in {Draft[p].cooldown, Draft[q].cooldown} : agency[p].resolvedAt + d <= t

\* A decision about q at t is as far from the approval of p as it has to be.
KeepsApart(p, q, t) == CooledDown(p, q, t) \/ (LateApproval(p) /\ Draft[p].expiresAt <= t)

\* Turn q may still be approved and has the scope of p.
Competing(p, q) == /\ p # q /\ SameScope(p, q)
                   /\ agency[q].status \in Open /\ Compatible(q, agency[q].base)

\* At every date q can be decided at, p has expired.
ExpiredBefore(p, q) == \A t \in Nat : MayDate(q, t) => Draft[p].expiresAt <= t

OpenApart == \A p, q \in Proposals :
               Competing(p, q) /\ Competing(q, p) => ExpiredBefore(p, q) \/ ExpiredBefore(q, p)

\* Turn q was admitted in the distance of an approved turn p, or p in place of
\* an expired q.
TurnApart ==
  \A p, q \in Proposals :
    Competing(p, q) /\ agency[p].status = "approved"
    => \/ \A t \in Nat : MayDate(q, t) => KeepsApart(p, q, t)
       \/ Draft[q].expiresAt <= agency[p].resolvedAt /\ Draft[q].expiresAt <= clock

SpacingInv == Untold /\ OpenApart /\ TurnApart

\* A turn is approved in a step, or was.
LEMMA ApprovedBefore ==
  ASSUME IInv, [Next]_vars, NEW p \in Proposals, agency'[p].status = "approved"
  PROVE  \/ agency'[p] = agency[p]
         \/ /\ agency[p].status = "claimed" /\ ApprovedInTime(p, agency'[p].resolvedAt)
            /\ clock' = clock /\ \A q \in Proposals \ {p} : agency'[q] = agency[q]
<1>1. ~ \E now \in RequestTimes : PutAgencyProposal(p, now)
  BY IssuedRecord DEF IInv
<1> QED BY <1>1, NextRecordStep DEF IInv, RecordStep, MovedOn

\* Times are numbers.
LEMMA SpacingTypes ==
  ASSUME TypeOK
  PROVE  /\ clock \in Nat /\ MaxLag \in Nat
         /\ \A p \in Proposals : /\ Draft[p].expiresAt \in Nat /\ Draft[p].cooldown \in Nat
                                 /\ agency[p].resolvedAt \in Nat
         /\ \A now \in RequestTimes : now \in Nat /\ now <= clock /\ clock <= now + MaxLag
<1>1. \A p \in Proposals : Draft[p].expiresAt \in Nat /\ Draft[p].cooldown \in Nat
  BY ConstantsAssumption DEF DraftType
<1>2. \A p \in Proposals : agency[p] \in Records
  BY DEF TypeOK
<1>3. \A rec \in Records : rec.resolvedAt \in Nat
  BY DEF Records
<1>4. clock \in Nat /\ MaxLag \in Nat
  BY ConstantsAssumption DEF TypeOK
<1> QED BY <1>1, <1>2, <1>3, <1>4 DEF RequestTimes

\* A consumer is told now, of an issued proposal.
LEMMA NextLearned ==
  ASSUME TypeOK, ActiveProjection, [Next]_vars, NEW p \in Proposals, NEW c \in Consumers
  PROVE  \/ learned'[p][c] = learned[p][c]
         \/ learned'[p][c] = clock /\ agency[p].status # "absent"
<1>1. ASSUME NEW b \in Consumers, NEW now \in RequestTimes, Claim(b, now)
      PROVE  \/ learned'[p][c] = learned[p][c]
             \/ learned'[p][c] = clock /\ agency[p].status # "absent"
  <2>1. now \in Nat
    BY DEF RequestTimes
  <2>2. p \in Chosen(now) => agency[p].status # "absent"
    BY <2>1, SweptOpen DEF Open
  <2>3. learned'[p] = IF p \in Chosen(now) /\ learned[p][b] = Never
                      THEN [learned[p] EXCEPT ![b] = clock] ELSE learned[p]
    BY <1>1 DEF Claim
  <2>4. learned[p] \in [Consumers -> Nat \cup {Never}]
    BY DEF TypeOK
  <2> QED BY <2>2, <2>3, <2>4
<1>2. CASE Resolve
  BY <1>2, ResolveStep
<1> QED
  BY <1>1, <1>2
  DEF Next, Issue, PutAgencyProposal, PutDuplicate, Store, Delete, DeleteBefore,
      DeleteEvents, Put, OtherMutation, ReadHealth, Tick, vars

\* Dates only become fewer.
LEMMA DatesShrink ==
  ASSUME TypeOK, ActiveProjection, [Next]_vars, NEW p \in Proposals, NEW t \in Nat,
         MayDate(p, t)'
  PROVE  MayDate(p, t)
<1>1. clock \in Nat /\ clock' \in Nat /\ clock <= clock'
  BY NextClockPlanned DEF TypeOK
<1>2. ASSUME NEW c \in Consumers, Asked(p, c, t)' PROVE MayDate(p, t)
  <2>1. learned'[p][c] # Never /\ t >= learned'[p][c]
    BY <1>2 DEF Asked
  <2> QED BY <1>1, <2>1, NextLearned DEF Asked, MayDate
<1> QED BY <1>1, <1>2 DEF MayDate

\* A new proposal is decided from now on.
LEMMA NewDates ==
  ASSUME TypeOK, Untold, NEW p \in Proposals, NEW now \in RequestTimes,
         PutAgencyProposal(p, now), NEW t \in Nat, MayDate(p, t)'
  PROVE  clock <= t
<1>1. learned' = learned /\ clock' = clock /\ agency[p].status = "absent"
  BY DEF PutAgencyProposal
<1> QED BY <1>1 DEF Untold, MayDate, Asked

\* What competes after a step and is not new competed before it.
LEMMA CompetedBefore ==
  ASSUME IInv, [Next]_vars, NEW p \in Proposals, NEW q \in Proposals, Competing(p, q)',
         ~ \E now \in RequestTimes : PutAgencyProposal(q, now)
  PROVE  Competing(p, q)
<1>1. /\ p # q /\ SameScope(p, q) /\ agency'[q].status \in Open
      /\ IsTau(q) => TauSnapshotCompatible(agency'[q].base, snapshot')
  BY DEF Competing, SameScope, IsTau, Compatible
<1> QED BY <1>1, OpenBefore DEF Competing

\* A proposal is admitted when the competing ones have expired.
LEMMA AdmittedApart ==
  ASSUME IInv, Untold, [Next]_vars, NEW p \in Proposals, NEW q \in Proposals,
         Competing(p, q)', Competing(q, p)', NEW now \in RequestTimes,
         PutAgencyProposal(q, now)
  PROVE  ExpiredBefore(p, q)'
<1>1. /\ p # q /\ SameScope(q, p) /\ agency'[p].status \in Open
      /\ IsTau(p) => TauSnapshotCompatible(agency'[p].base, snapshot')
  BY DEF Competing, SameScope, IsTau, Compatible
<1>2. clock >= Draft[p].expiresAt
  BY <1>1, IssuedAlone
<1>3. clock \in Nat /\ Draft[p].expiresAt \in Nat
  BY SpacingTypes DEF IInv
<1>4. ASSUME NEW t \in Nat, MayDate(q, t)' PROVE Draft[p].expiresAt <= t
  <2>1. clock <= t
    BY <1>4, NewDates DEF IInv
  <2> QED BY <1>2, <1>3, <2>1
<1> QED BY <1>4 DEF ExpiredBefore

LEMMA NextOpenApart ==
  ASSUME IInv, SpacingInv, [Next]_vars
  PROVE  OpenApart'
<1> SUFFICES ASSUME NEW p \in Proposals, NEW q \in Proposals, Competing(p, q)', Competing(q, p)'
             PROVE  ExpiredBefore(p, q)' \/ ExpiredBefore(q, p)'
  BY DEF OpenApart
<1>1. CASE \E now \in RequestTimes : PutAgencyProposal(q, now)
  BY <1>1, AdmittedApart DEF SpacingInv
<1>2. CASE \E now \in RequestTimes : PutAgencyProposal(p, now)
  BY <1>2, AdmittedApart DEF SpacingInv
<1>3. CASE /\ ~ \E now \in RequestTimes : PutAgencyProposal(p, now)
           /\ ~ \E now \in RequestTimes : PutAgencyProposal(q, now)
  <2>1. Competing(p, q) /\ Competing(q, p)
    BY <1>3, CompetedBefore
  <2>2. ExpiredBefore(p, q) \/ ExpiredBefore(q, p)
    BY <2>1 DEF SpacingInv, OpenApart
  <2> QED BY <2>2, DatesShrink DEF IInv, ExpiredBefore
<1> QED BY <1>1, <1>2, <1>3

\* A turn admitted after an approval waited for the cooldowns.
LEMMA AdmittedCooled ==
  ASSUME IInv, Untold, [Next]_vars, NEW p \in Proposals, NEW q \in Proposals,
         p # q, SameScope(p, q), agency'[p].status = "approved",
         NEW now \in RequestTimes, PutAgencyProposal(q, now),
         NEW t \in Nat, MayDate(q, t)'
  PROVE  CooledDown(p, q, t)'
<1>1. agency'[p] = agency[p] /\ p \in Issued
  BY IssuedRecord DEF IInv, Issued
<1>2. ~OpportunityBlocked(q, p, now) /\ SameScope(q, p)
  BY <1>1 DEF PutAgencyProposal, SameScope, IsTau
<1>3. /\ ~(now < agency[p].resolvedAt + Draft[q].cooldown)
      /\ ~(now < agency[p].resolvedAt + Draft[p].cooldown)
  BY <1>1, <1>2 DEF OpportunityBlocked
<1>4. clock <= t
  BY NewDates DEF IInv
<1>5. /\ now \in Nat /\ now <= clock /\ clock \in Nat /\ agency[p].resolvedAt \in Nat
      /\ Draft[p].cooldown \in Nat /\ Draft[q].cooldown \in Nat
  BY SpacingTypes DEF IInv
<1>6. \A d \in {Draft[p].cooldown, Draft[q].cooldown} : agency[p].resolvedAt + d <= t
  BY <1>3, <1>4, <1>5
<1> QED BY <1>1, <1>6 DEF CooledDown

LEMMA NextTurnApart ==
  ASSUME IInv, SpacingInv, [Next]_vars
  PROVE  TurnApart'
<1> SUFFICES ASSUME NEW p \in Proposals, NEW q \in Proposals, Competing(p, q)',
                    agency'[p].status = "approved"
             PROVE  \/ \A t \in Nat : MayDate(q, t)' => KeepsApart(p, q, t)'
                    \/ /\ Draft[q].expiresAt <= agency'[p].resolvedAt
                       /\ Draft[q].expiresAt <= clock'
  BY DEF TurnApart
<1>0. /\ clock \in Nat /\ clock' \in Nat /\ clock <= clock' /\ MaxLag \in Nat
      /\ Draft[p].expiresAt \in Nat /\ Draft[q].expiresAt \in Nat
      /\ p # q /\ SameScope(p, q) /\ SameScope(q, p)
  BY SpacingTypes, NextClockPlanned DEF IInv, Competing, SameScope, IsTau
<1>1. CASE \E now \in RequestTimes : PutAgencyProposal(q, now)
  BY <1>0, <1>1, AdmittedCooled DEF SpacingInv, KeepsApart
<1>2. CASE ~ \E now \in RequestTimes : PutAgencyProposal(q, now)
  <2>1. Competing(p, q)
    BY <1>2, CompetedBefore
  <2>2. CASE agency'[p] = agency[p]
    <3>1. \/ \A t \in Nat : MayDate(q, t) => KeepsApart(p, q, t)
          \/ Draft[q].expiresAt <= agency[p].resolvedAt /\ Draft[q].expiresAt <= clock
      BY <2>1, <2>2 DEF SpacingInv, TurnApart
    <3>2. \A t \in Nat : KeepsApart(p, q, t) => KeepsApart(p, q, t)'
      BY <2>2 DEF KeepsApart, CooledDown, LateApproval
    <3>3. CASE \A t \in Nat : MayDate(q, t) => KeepsApart(p, q, t)
      BY <3>2, <3>3, DatesShrink DEF IInv
    <3>4. CASE Draft[q].expiresAt <= agency[p].resolvedAt /\ Draft[q].expiresAt <= clock
      BY <1>0, <2>2, <3>4
    <3> QED BY <3>1, <3>3, <3>4
  <2>3. CASE /\ agency[p].status = "claimed" /\ ApprovedInTime(p, agency'[p].resolvedAt)
             /\ clock' = clock
    <3> DEFINE r == agency'[p].resolvedAt
    <3>1. /\ r \in Nat /\ r <= clock /\ clock <= r + MaxLag /\ r < Draft[p].expiresAt
          /\ MayDate(p, r)
      BY <2>3, SpacingTypes DEF IInv, ApprovedInTime, MayDate
    <3>2. Competing(q, p)
      BY <1>0, <2>3 DEF ApprovedInTime, Competing, Open
    <3>3. MayDate(p, clock) /\ MayDate(q, clock)
      BY <1>0 DEF MayDate
    <3> HIDE DEF r
    <3>4. CASE ExpiredBefore(p, q)
      <4>1. Draft[p].expiresAt <= clock
        BY <1>0, <3>3, <3>4 DEF ExpiredBefore
      <4>2. r < Draft[p].expiresAt /\ Draft[p].expiresAt <= r + MaxLag
        BY <1>0, <3>1, <4>1
      <4>3. LateApproval(p)'
        BY <4>2 DEF LateApproval, r
      <4>4. ASSUME NEW t \in Nat, MayDate(q, t)' PROVE KeepsApart(p, q, t)'
        <5>1. Draft[p].expiresAt <= t
          BY <3>4, <4>4, DatesShrink DEF IInv, ExpiredBefore
        <5> QED BY <4>3, <5>1 DEF KeepsApart
      <4> QED BY <4>4
    <3>5. CASE ExpiredBefore(q, p)
      <4>1. Draft[q].expiresAt <= r /\ Draft[q].expiresAt <= clock
        BY <1>0, <3>1, <3>3, <3>5 DEF ExpiredBefore
      <4> QED BY <2>3, <4>1 DEF r
    <3> QED BY <2>1, <3>2, <3>4, <3>5 DEF SpacingInv, OpenApart
  <2> QED BY <2>2, <2>3, ApprovedBefore
<1> QED BY <1>1, <1>2

LEMMA NextSpacing ==
  ASSUME IInv, SpacingInv, [Next]_vars
  PROVE  SpacingInv'
<1>1. Untold'
  <2> SUFFICES ASSUME NEW p \in Proposals, agency'[p].status = "absent", NEW c \in Consumers
               PROVE  learned'[p][c] = Never
    BY DEF Untold
  <2>1. agency[p].status = "absent"
    BY NextRecordStep, IssuedRecord DEF IInv, RecordStep, MovedOn
  <2> QED BY <2>1, NextLearned DEF IInv, SpacingInv, Untold
<1> QED BY <1>1, NextOpenApart, NextTurnApart DEF SpacingInv

\* An approval keeps its distance to the ones there are, on either side.
LEMMA ApprovedApart ==
  ASSUME IInv, SpacingInv, [Next]_vars,
         NEW p \in Proposals, NEW q \in Proposals, p # q, SameScope(p, q),
         agency'[q].status = "approved", agency'[q] # agency[q],
         agency'[p].status = "approved"
  PROVE  LET r == agency'[q].resolvedAt
         IN  /\ agency'[p] = agency[p] /\ r \in Nat
             /\ \/ KeepsApart(p, q, r)
                \/ /\ r < Draft[q].expiresAt /\ Draft[q].expiresAt <= agency[p].resolvedAt
                   /\ Draft[q].expiresAt <= r + MaxLag
<1> DEFINE r == agency'[q].resolvedAt
<1>1. /\ agency[q].status = "claimed" /\ ApprovedInTime(q, r) /\ agency'[p] = agency[p]
  BY ApprovedBefore
<1>2. /\ r \in Nat /\ clock <= r + MaxLag /\ r < Draft[q].expiresAt /\ MayDate(q, r)
  BY <1>1, SpacingTypes DEF IInv, ApprovedInTime, MayDate
<1>3. Competing(p, q)
  BY <1>1 DEF ApprovedInTime, Competing, Open
<1>4. /\ clock \in Nat /\ MaxLag \in Nat /\ Draft[q].expiresAt \in Nat
  BY SpacingTypes DEF IInv
<1> HIDE DEF r
<1>5. \/ KeepsApart(p, q, r)
      \/ Draft[q].expiresAt <= agency[p].resolvedAt /\ Draft[q].expiresAt <= clock
  BY <1>1, <1>2, <1>3 DEF SpacingInv, TurnApart
<1> QED BY <1>1, <1>2, <1>4, <1>5 DEF r

\* SpacedUnlessLate: however long requests wait for writeMu, approved turns of
\* one session and target are at least a cooldown apart, unless the earlier
\* approval may have waited beyond the expiry of its proposal and the later one
\* was decided after that expiry; for any number of competing proposals,
\* consumers and retries.
THEOREM ApprovalsSpacedUnlessLate == Spec => []SpacedUnlessLate
<1>1. Init => SpacingInv /\ SpacedUnlessLate
  <2> SUFFICES ASSUME Init PROVE SpacingInv /\ SpacedUnlessLate
    OBVIOUS
  <2>1. \A p \in Proposals : agency[p].status = "absent" /\ \A c \in Consumers : learned[p][c] = Never
    BY NoRecordType DEF Init
  <2> QED BY <2>1 DEF SpacingInv, Untold, OpenApart, TurnApart, Competing, Open, SpacedUnlessLate
<1>2. IInv /\ SpacingInv /\ [Next]_vars => SpacingInv'
  BY NextSpacing
<1>3. IInv /\ SpacingInv /\ SpacedUnlessLate /\ [Next]_vars => SpacedUnlessLate'
  <2> SUFFICES ASSUME IInv, SpacingInv, SpacedUnlessLate, [Next]_vars,
                      NEW p \in Proposals, NEW q \in Proposals, p # q, SameScope(p, q),
                      agency'[p].status = "approved", agency'[q].status = "approved",
                      agency'[p].resolvedAt <= agency'[q].resolvedAt
               PROVE  \/ \A d \in {Draft[p].cooldown, Draft[q].cooldown} :
                            agency'[p].resolvedAt + d <= agency'[q].resolvedAt
                      \/ LateApproval(p)' /\ Draft[p].expiresAt <= agency'[q].resolvedAt
    BY DEF SpacedUnlessLate, SameScope, IsTau
  <2>0. /\ SameScope(q, p) /\ MaxLag \in Nat
        /\ \A x \in {p, q} : /\ agency[x].resolvedAt \in Nat /\ Draft[x].expiresAt \in Nat
                             /\ Draft[x].cooldown \in Nat
    BY SpacingTypes DEF IInv, SameScope, IsTau
  <2>1. CASE agency'[q] # agency[q]
    <3> DEFINE r == agency'[q].resolvedAt
    <3>1. /\ agency'[p] = agency[p] /\ r \in Nat
          /\ \/ KeepsApart(p, q, r)
             \/ r < Draft[q].expiresAt /\ Draft[q].expiresAt <= agency[p].resolvedAt
      BY <2>1, ApprovedApart
    <3>2. agency[p].resolvedAt <= r
      BY <3>1
    <3> HIDE DEF r
    <3>3. KeepsApart(p, q, r)
      BY <2>0, <3>1, <3>2
    <3>4. CASE CooledDown(p, q, r)
      BY <3>1, <3>4 DEF CooledDown, r
    <3>5. CASE LateApproval(p) /\ Draft[p].expiresAt <= r
      BY <3>1, <3>5 DEF LateApproval, r
    <3> QED BY <3>3, <3>4, <3>5 DEF KeepsApart
  <2>2. CASE agency'[p] # agency[p]
    <3> DEFINE r == agency'[p].resolvedAt
    <3>1. /\ agency'[q] = agency[q] /\ r \in Nat
          /\ \/ KeepsApart(q, p, r)
             \/ /\ r < Draft[p].expiresAt /\ Draft[p].expiresAt <= agency[q].resolvedAt
                /\ Draft[p].expiresAt <= r + MaxLag
      BY <2>0, <2>2, ApprovedApart
    <3>2. r <= agency[q].resolvedAt
      BY <3>1
    <3> HIDE DEF r
    <3>3. CASE CooledDown(q, p, r)
      <4>1. \A d \in {Draft[p].cooldown, Draft[q].cooldown} : r + d <= agency[q].resolvedAt
        BY <2>0, <3>1, <3>2, <3>3 DEF CooledDown
      <4> QED BY <3>1, <4>1 DEF r
    <3>4. CASE LateApproval(q) /\ Draft[q].expiresAt <= r
      BY <2>0, <3>1, <3>2, <3>4 DEF LateApproval
    <3>5. CASE /\ r < Draft[p].expiresAt /\ Draft[p].expiresAt <= agency[q].resolvedAt
               /\ Draft[p].expiresAt <= r + MaxLag
      BY <3>1, <3>5 DEF LateApproval, r
    <3> QED BY <3>1, <3>3, <3>4, <3>5 DEF KeepsApart
  <2>3. CASE agency'[p] = agency[p] /\ agency'[q] = agency[q]
    BY <2>3 DEF SpacedUnlessLate, LateApproval
  <2> QED BY <2>1, <2>2, <2>3
<1> QED BY <1>1, <1>2, <1>3, Inductive, PTL DEF Spec

-----------------------------------------------------------------------------
(* Action properties. *)

\* A forecast that lost its base snapshot never regains it.
THEOREM StaleStaysStale == Spec => StaleForever
<1>1. IInv /\ [Next]_vars
      => [\A p \in Issued : ~Compatible(p, agency[p].base)
            => ~TauSnapshotCompatible(agency[p].base, snapshot')]_vars
  <2> SUFFICES ASSUME IInv, [Next]_vars, NEW p \in Issued, ~Compatible(p, agency[p].base)
               PROVE  ~TauSnapshotCompatible(agency[p].base, snapshot')
    OBVIOUS
  <2>1. agency[p].base \in Snapshot /\ Behind(agency[p].base, snapshot)
    BY DEF Issued, IInv, TypeOK, Records, BasesBehind
  <2>2. VectorStep /\ snapshot \in Snapshot
    BY NextVectorStep DEF IInv, TypeOK
  <2>3. ~TauSnapshotCompatible(agency[p].base, snapshot)
    BY DEF Compatible
  <2> QED BY <2>1, <2>2, <2>3, VectorStepStale
<1> QED BY <1>1, Inductive, PTL DEF Spec, StaleForever

\* Every mutation that is not agency bookkeeping invalidates every forecast
\* bound before it.
THEOREM MutationInvalidates == Spec => ForecastInvalidated
<1>1. IInv /\ [Next]_vars
      => [(\/ events' # events
           \/ snapshot' # snapshot /\ snapshot'["agency"] = snapshot["agency"])
          => \A p \in Issued : ~TauSnapshotCompatible(agency[p].base, snapshot')]_vars
  <2> SUFFICES ASSUME IInv, [Next]_vars,
                      \/ events' # events
                      \/ snapshot' # snapshot /\ snapshot'["agency"] = snapshot["agency"],
                      NEW p \in Issued
               PROVE  ~TauSnapshotCompatible(agency[p].base, snapshot')
    OBVIOUS
  <2>1. agency[p].base \in Snapshot /\ Behind(agency[p].base, snapshot)
    BY DEF Issued, IInv, TypeOK, Records, BasesBehind
  <2>2. VectorStep /\ snapshot \in Snapshot
    BY NextVectorStep DEF IInv, TypeOK
  <2>3. Advance(snapshot, AgencyBumps)["agency"] # snapshot["agency"]
    BY <2>2 DEF Advance, AgencyBumps, Snapshot, Counters
  <2>4. PICK cs \in SUBSET Counters :
          /\ snapshot' = Advance(snapshot, cs)
          /\ "runtime" \in cs
          /\ "agency" \notin cs \/ cs \cap FrozenCounters # {}
    BY <2>2, <2>3 DEF VectorStep
  <2> QED BY <2>1, <2>2, <2>4, MotionBreaks
<1> QED BY <1>1, Inductive, PTL DEF Spec, ForecastInvalidated

\* While an execution of a session and target is unresolved, no proposal for
\* them is admitted, leased or approved.
THEOREM UncertainBlocks == Spec => UncertainBlocksScope
<1>1. IInv /\ [Next]_vars
      => [\A p, q \in Proposals :
            /\ SameScope(p, q) /\ agency[q].status = "uncertain"
            /\ agency'[p] # agency[p]
            => agency'[p].status \notin Open \cup {"approved"}]_vars
  <2> SUFFICES ASSUME IInv, [Next]_vars, NEW p \in Proposals, NEW q \in Proposals,
                      SameScope(p, q), agency[q].status = "uncertain",
                      agency'[p] # agency[p]
               PROVE  agency'[p].status \notin Open \cup {"approved"}
    OBVIOUS
  <2>1. CASE \E now \in RequestTimes : PutAgencyProposal(p, now)
    BY <2>1 DEF PutAgencyProposal, OpportunityBlocked, Issued
  <2>2. CASE MovedOn(p)
    <3>1. active[q] = agency[q]
      BY DEF IInv, ActiveProjection
    <3>2. UncertainScope(p)
      BY <3>1 DEF UncertainScope
    <3> QED BY <2>2, <3>2 DEF MovedOn
  <2> QED BY <2>1, <2>2, NextRecordStep DEF IInv, RecordStep
<1> QED BY <1>1, Inductive, PTL DEF Spec, UncertainBlocksScope

\* A lease that has not run out is not handed to another consumer.
THEOREM LeasesExclusive == Spec => LeaseExclusive
<1>1. IInv /\ [Next]_vars
      => [\A p \in Proposals :
            /\ agency[p].status = "claimed" /\ agency'[p].status = "claimed"
            /\ clock < agency[p].leaseUntil
            => agency'[p].claimedBy = agency[p].claimedBy]_vars
  <2> SUFFICES ASSUME IInv, [Next]_vars, NEW p \in Proposals,
                      agency[p].status = "claimed", agency'[p].status = "claimed",
                      clock < agency[p].leaseUntil
               PROVE  agency'[p] = agency[p]
    OBVIOUS
  <2>1. clock \in Nat /\ agency[p].leaseUntil \in Nat
    BY DEF IInv, TypeOK, Records
  <2>2. ~ \E now \in RequestTimes : PutAgencyProposal(p, now)
    BY DEF PutAgencyProposal
  <2>3. ~MovedOn(p)
    BY <2>1 DEF MovedOn, Open
  <2> QED BY <2>2, <2>3, NextRecordStep DEF IInv, RecordStep
<1> QED BY <1>1, Inductive, PTL DEF Spec, LeaseExclusive

-----------------------------------------------------------------------------
(* The durable agency queue implements the in-memory one.  The argument    *)
(* rests on ProjectionExact: what the durable queue scans is a faithful    *)
(* copy of the open and the uncertain records, so every test over the      *)
(* projection agrees with the test over the archive.                       *)

\* The clock never passes its bound.
ClockBounded == clock \in 0..MaxClock

\* Only Tick moves the clock, and it stops at the bound.
LEMMA NextClockBounded ==
  ASSUME ClockBounded, [Next]_vars
  PROVE  ClockBounded'
<1>1. CASE Tick
  BY <1>1, ConstantsAssumption DEF Tick, ClockBounded
<1>2. CASE UNCHANGED clock
  BY <1>2 DEF ClockBounded
<1> QED BY <1>1, <1>2, ZenonT(30)
  DEF Next, Issue, Resolve, Store, PutAgencyProposal, PutDuplicate, Claim, ReportUncertain,
      AcknowledgeCancellation, ResolveExpired, Reject, Approve, Put, Delete, DeleteBefore,
      DeleteEvents, OtherMutation, ReadHealth, vars

\* The request times of a bounded clock are clock readings of the promise.
LEMMA RequestTimesBounded ==
  ASSUME ClockBounded, NEW now \in RequestTimes
  PROVE  now \in 0..MaxClock
BY ConstantsAssumption DEF ClockBounded, RequestTimes

\* The projection and the archive give the same sweep.
LEMMA SameSweep ==
  ASSUME ActiveProjection, NoRecord.status = "absent", NEW now
  PROVE  /\ \A p \in Proposals : UncertainScope(p) <=> Unresolved(p)
         /\ SweptRejected = Lost /\ SweptExpired(now) = Late(now)
         /\ Eligible(now) = Due(now) /\ Chosen(now) = FirstDue(now)
<1>1. \A p \in Proposals : /\ active[p].status = "uncertain" <=> agency[p].status = "uncertain"
                           /\ active[p].status \in Open <=> agency[p].status \in Open
                           /\ agency[p].status \in Open => active[p] = agency[p]
                           /\ active[p].status = "pending" <=> agency[p].status = "pending"
                           /\ active[p].status = "claimed" <=> agency[p].status = "claimed"
  BY DEF ActiveProjection, Open
<1>2. \A p \in Proposals : UncertainScope(p) <=> Unresolved(p)
  BY <1>1 DEF UncertainScope, Unresolved
<1>3. SweptRejected = Lost
  BY <1>1, <1>2 DEF SweptRejected, Lost
<1>4. SweptExpired(now) = Late(now)
  BY <1>1, <1>3 DEF SweptExpired, Late
<1>5. Eligible(now) = Due(now)
  BY <1>1, <1>3, <1>4 DEF Eligible, Due, Open
<1>6. Chosen(now) = FirstDue(now)
  BY <1>5 DEF Chosen, FirstDue
<1> QED BY <1>2, <1>3, <1>4, <1>5, <1>6

\* A claim of the durable queue is a claim of the in-memory one.
LEMMA ClaimImplements ==
  ASSUME ActiveProjection, NoRecord.status = "absent", NEW c \in Consumers, NEW now,
         Claim(c, now)
  PROVE  ClaimDue(c, now)
<1>1. /\ SweptRejected = Lost /\ SweptExpired(now) = Late(now)
      /\ Chosen(now) = FirstDue(now)
  BY SameSweep
<1>2. \A p \in Proposals : p \in Lost \cup Late(now) \cup FirstDue(now) => active[p] = agency[p]
  BY DEF ActiveProjection, Lost, Late, FirstDue, Due, Open
<1>3. agency' = [p \in Proposals |->
         IF p \in Lost THEN Closed(agency[p], "rejected", now)
         ELSE IF p \in Late(now) THEN Closed(agency[p], "expired", now)
         ELSE IF p \in FirstDue(now) THEN Leased(agency[p], c, now)
         ELSE agency[p]]
  BY <1>1, <1>2 DEF Claim, ClaimUpdate
<1> QED BY <1>1, <1>3 DEF Claim, ClaimDue

\* Evidence deletion cancels the same proposals.
LEMMA DeleteImplements ==
  ASSUME ActiveProjection, NoRecord.status = "absent", NEW removed, DeleteEvents(removed)
  PROVE  RemoveEvents(removed, clock)
<1>1. Citing(removed) = Undermined(removed)
  BY DEF ActiveProjection, Citing, Undermined, Open
<1>2. \A p \in Citing(removed) : active[p] = agency[p]
  BY DEF ActiveProjection, Citing, Open
<1> QED BY <1>1, <1>2 DEF DeleteEvents, RemoveEvents

\* A new proposal is admitted on the same terms: the base it is bound to is
\* the planner's.
LEMMA ProposeImplements ==
  ASSUME TypeOK, NEW p \in Proposals, NEW now, PutAgencyProposal(p, now)
  PROVE  Propose(p, agency'[p].base, now)
<1> DEFINE base == IF IsTau(p) THEN planned ELSE NoRecord.base
<1>1. agency' = [agency EXCEPT ![p] = NewRecord(base)] /\ p \in DOMAIN agency
  BY DEF PutAgencyProposal, Persist, TypeOK
<1>2. agency'[p].base = base
  BY <1>1 DEF NewRecord, NoRecord
<1>3. CASE IsTau(p)
  BY <1>1, <1>2, <1>3 DEF PutAgencyProposal, Propose, Recorded, Persist
<1>4. CASE ~IsTau(p)
  BY <1>1, <1>2, <1>4 DEF PutAgencyProposal, Propose, Recorded, Persist, Compatible, ForecastConflict
<1> QED BY <1>3, <1>4

\* Every step of the durable queue is a step of the in-memory one or leaves
\* what that shows alone.
LEMMA NextImplements ==
  ASSUME TypeOK, ActiveProjection, ClockBounded, [Next]_vars
  PROVE  [MemoryAgencyNext]_<<agency, events, snapshot>>
<1> USE NoRecordType
<1>1. CASE Issue
  <2>1. PICK p \in Proposals, now \in RequestTimes :
          PutAgencyProposal(p, now) \/ PutDuplicate(p, now)
    BY <1>1 DEF Issue
  <2>2. CASE PutAgencyProposal(p, now)
    BY <2>2, ProposeImplements, RequestTimesBounded DEF MemoryAgencyNext
  <2>3. CASE PutDuplicate(p, now)
    BY <2>3 DEF PutDuplicate
  <2> QED BY <2>1, <2>2, <2>3
<1>2. CASE \E c \in Consumers, now \in RequestTimes : Claim(c, now)
  BY <1>2, ClaimImplements, RequestTimesBounded DEF MemoryAgencyNext
<1>3. CASE Resolve
  <2>1. PICK p \in Proposals, now \in RequestTimes :
          \/ \E ref \in Refs : Reportable /\ ReportUncertain(p, ref, now)
          \/ \E cancelled \in SUBSET Refs : AcknowledgeCancellation(p, cancelled, now)
          \/ \E c \in Consumers : \/ ResolveExpired(p, c, now) \/ Reject(p, c, now)
                                  \/ \E ref \in Refs : Approve(p, c, ref, now)
    BY <1>3 DEF Resolve
  <2>2. now \in 0..MaxClock
    BY RequestTimesBounded
  <2>3. CASE \E ref \in Refs : ReportUncertain(p, ref, now)
    BY <2>2, <2>3 DEF ReportUncertain, MarkUncertain, Recorded, Persist, MemoryAgencyNext
  <2>4. CASE \E cancelled \in SUBSET Refs : AcknowledgeCancellation(p, cancelled, now)
    BY <2>2, <2>4 DEF AcknowledgeCancellation, ClearUncertain, Recorded, Persist, MemoryAgencyNext
  <2>5. CASE \E c \in Consumers, ref \in Refs : Approve(p, c, ref, now)
    <3>1. UncertainScope(p) <=> Unresolved(p)
      BY SameSweep
    <3>2. PICK c \in Consumers, ref \in Refs : Approve(p, c, ref, now)
      BY <2>5
    <3>3. Authorize(p, c, ref, now)
      BY <3>1, <3>2 DEF Approve, Approvable, Authorize, Recorded, Persist
    <3> QED BY <2>2, <3>3 DEF MemoryAgencyNext
  <2>6. CASE \E c \in Consumers : ResolveExpired(p, c, now) \/ Reject(p, c, now)
    <3>1. PICK c \in Consumers : ResolveExpired(p, c, now) \/ Reject(p, c, now)
      BY <2>6
    <3>2. Refuse(p, c, now)
      BY <3>1 DEF ResolveExpired, Reject, LeaseLive, Refuse, Recorded, Persist
    <3> QED BY <2>2, <3>2 DEF MemoryAgencyNext
  <2> QED BY <2>1, <2>3, <2>4, <2>5, <2>6
<1>4. CASE Store
  <2>1. clock \in 0..MaxClock /\ clock + 1 \in 0..(MaxClock + 1)
    BY ConstantsAssumption DEF ClockBounded
  <2>2. CASE \E e \in Evidence, t \in {clock, clock + 1} : Put(e, t)
    <3>1. PICK e \in Evidence, t \in {clock, clock + 1} : Put(e, t)
      BY <2>2
    <3>2. IngestEvent(e, t) /\ t \in 0..(MaxClock + 1)
      BY <2>1, <3>1, ConstantsAssumption DEF Put, IngestEvent
    <3> QED BY <3>2 DEF MemoryAgencyNext
  <2>3. CASE \E removed \in SUBSET Evidence : DeleteEvents(removed)
    BY <2>1, <2>3, DeleteImplements DEF MemoryAgencyNext
  <2>4. CASE \E cs \in Motions : OtherMutation(cs)
    BY <2>4, ConstantsAssumption DEF OtherMutation, MoveSnapshot, MemoryAgencyNext
  <2>5. \A e \in Evidence : {e} \in SUBSET Evidence
    OBVIOUS
  <2> QED BY <1>4, <2>2, <2>3, <2>4, <2>5 DEF Store, Delete, DeleteBefore
<1>5. CASE UNCHANGED <<agency, events, snapshot>>
  BY <1>5
<1> QED BY <1>1, <1>2, <1>3, <1>4, <1>5 DEF Next, ReadHealth, Tick, vars

\* The durable queue with its projection, its lagging clock readings and its
\* retries implements the in-memory queue.
THEOREM QueueImplementsMemory == Spec => ImplementsMemory
<1>1. Init => MemoryAgencyInit /\ ClockBounded
  BY ConstantsAssumption DEF Init, MemoryAgencyInit, ClockBounded
<1>2. TypeOK /\ ActiveProjection /\ ClockBounded /\ [Next]_vars
      => [MemoryAgencyNext]_<<agency, events, snapshot>> /\ ClockBounded'
  BY NextImplements, NextClockBounded
<1> QED BY <1>1, <1>2, TypeCorrect, ProjectionExact, PTL
        DEF Spec, ImplementsMemory, MemoryAgencySpec
=============================================================================
