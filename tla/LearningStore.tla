--------------------------- MODULE LearningStore ---------------------------
(***************************************************************************)
(* The learning side of the durable store and of the service above it.     *)
(* Every write of the store is one transaction under writeMu, hence one    *)
(* step, with two exceptions the code makes for concurrency: a journal is  *)
(* checked and inserted under the read side of writeMu, and the requests   *)
(* of the service read the store before they write to it.  A restart loses *)
(* the requests in flight and the ingest motion; the snapshot is written   *)
(* in the transaction it belongs to, so it survives.                       *)
(***************************************************************************)
EXTENDS Beliefs, Snapshots

CONSTANTS
  Available, Compositions, Authority, Journals, AsOf, Snaps, Closure,
  Preloaded, Bindings, \* as in MemoryStore
  Bound          \* bound: Bound[c] is how far counter c may move

ASSUME LearningAssumption ==
  /\ Available \in [Events \cup Compositions -> Nat] /\ AsOf \in Nat
  /\ Authority \in [Compositions -> Certificates]
  /\ Preloaded \subseteq Events /\ Preloaded # {} /\ IsFiniteSet(Preloaded)
  /\ \A k \in Outcomes : /\ Outcome[k].event \in Events
                         /\ Outcome[k].journal \in Journals
                         /\ Outcome[k].source \in {"full_stream", "independent_audit", "selected"}
  /\ \A s \in Snaps : Closure[s].keys \subseteq PosteriorKeys /\ Closure[s].events \subseteq Events
  /\ Bound \in [Counters -> Nat]

VARIABLES
  entries, certificates, index, bound, posteriors, exact, general, applied,
  journals, graph, snaps, tombstones, snapshot,
  ingests,    \* every ingest so far: runtime version -> availability time
  forgotten,  \* ingests of an earlier process: not in ingestMotion any more
  drafts,     \* recalls that have read but not committed
  reading,    \* journals being written under the read lock
  composing,  \* composition requests past their checks -> base snapshot
  snapping,   \* snap requests past their checks -> the graph they saw
  fresh       \* selected outcomes that passed the freshness test

stored == <<entries, certificates, index, bound, posteriors, exact, general, applied,
            journals, graph, snaps, tombstones>>
requests == <<drafts, reading, composing, snapping, fresh>>
vars == <<stored, snapshot, ingests, forgotten, requests>>

\* The promise, with the ingests of earlier processes remembered.
Promise == INSTANCE MemoryStore WITH motion <- ingests

NoCertificate == Promise!NoCertificate
Unpublished == Promise!Unpublished
NoJournal == Promise!NoJournal
NoSnap == Promise!NoSnap
Idle == [at |-> "idle"]

Init ==
  /\ Promise!MemoryInit
  /\ forgotten = {}
  /\ drafts = [j \in Journals |-> Idle] /\ reading = {}
  /\ composing = [x \in Compositions |-> Idle]
  /\ snapping = [s \in Snaps |-> Idle]
  /\ fresh = {}

\* ingestMotion is volatile.
Motion == [v \in DOMAIN ingests \ forgotten |-> ingests[v]]

\* writeMu.Lock: no journal is being written.
Exclusive == reading = {}

\* The bound of the model, not of the code.
WithinBound(s) == \A c \in Counters : s[c] <= Bound[c]

\* The bookkeeping every transaction ends with.
Commit(bumps) ==
  /\ Exclusive
  /\ snapshot' = Advance(snapshot, bumps) /\ WithinBound(snapshot')
  /\ UNCHANGED forgotten

Ingest(x) ==
  LET v == snapshot["runtime"] + 1
  IN ingests' = [w \in DOMAIN ingests \cup {v} |-> IF w = v THEN Available[x] ELSE ingests[w]]

-----------------------------------------------------------------------------
(* Evidence and compositions. *)

Put(x) ==
  /\ x \notin entries
  /\ entries' = entries \cup {x} /\ Ingest(x) /\ Commit(PutBumps)
  /\ UNCHANGED <<certificates, index, bound, posteriors, exact, general, applied,
                 journals, graph, snaps, tombstones, requests>>

Removed(gone) ==
  /\ entries' = entries \ gone /\ Commit(InvalidateBumps)
  /\ UNCHANGED <<certificates, index, bound, posteriors, exact, general, applied,
                 journals, graph, snaps, tombstones, ingests, requests>>

Delete(x) == x \in entries /\ Removed({x})

\* DeleteBefore: the oldest entries first, at most limit of them.
DeleteBefore(before, limit) ==
  LET old == {x \in entries : Available[x] < before}
  IN \E gone \in SUBSET old :
       /\ gone # {}
       /\ Cardinality(gone) = (IF Cardinality(old) < limit THEN Cardinality(old) ELSE limit)
       /\ \A x \in gone, y \in old \ gone : Available[x] <= Available[y]
       /\ Removed(gone)

\* GetAntiPigeonCertificate: the one certificate all the events are indexed
\* under, while it exists.
CertificateOf(events) ==
  {c \in Certificates : certificates[c] # Unpublished /\ \A e \in events : index[e] = c}

\* validateAntiPigeonCertificate: what a valid certificate binds under s.
Grounds(s) == [graph |-> s["graph"], epoch |-> s["evidence"]]

\* validateSelectionCertificate, validateOmittedInfluenceCertificate
Support(s) == [policy |-> s["policy"], epoch |-> s["evidence"]]

\* antiPigeonCertificateActive
Active(c, s) == certificates[c] = Grounds(s)

MembersReady(x) ==
  \A e \in Members[Authority[x]] : e \in entries /\ Available[e] <= Available[x]

\* ComposeInvariant up to the call of the store: the request names the
\* current snapshot, the members and an active certificate for them.
ComposeInvariant(x) ==
  /\ composing[x] = Idle /\ x \notin entries
  /\ MembersReady(x)
  /\ Authority[x] \in CertificateOf(Members[Authority[x]]) /\ Active(Authority[x], snapshot)
  /\ composing' = [composing EXCEPT ![x] = [at |-> "put", base |-> snapshot]]
  /\ UNCHANGED <<stored, snapshot, ingests, forgotten, drafts, reading, snapping, fresh>>

Answered(x) ==
  /\ composing' = [composing EXCEPT ![x] = Idle]
  /\ UNCHANGED <<drafts, reading, snapping, fresh>>

\* Fault: the base snapshot is not compared again under the lock.
PutCompositionAnyBase(x) ==
  /\ composing[x] # Idle /\ x \notin entries
  /\ Authority[x] \in CertificateOf(Members[Authority[x]]) /\ MembersReady(x)
  /\ entries' = entries \cup {x} /\ Ingest(x) /\ Commit(CompositionBumps)
  /\ UNCHANGED <<certificates, index, bound, posteriors, exact, general, applied,
                 journals, graph, snaps, tombstones>>
  /\ Answered(x)

PutComposition(x) ==
  /\ composing[x] # Idle /\ composing[x].base = snapshot /\ x \notin entries
  /\ Authority[x] \in CertificateOf(Members[Authority[x]]) /\ MembersReady(x)
  /\ entries' = entries \cup {x} /\ Ingest(x) /\ Commit(CompositionBumps)
  /\ UNCHANGED <<certificates, index, bound, posteriors, exact, general, applied,
                 journals, graph, snaps, tombstones>>
  /\ Answered(x)

\* ErrStaleSnapshot
CompositionStale(x) ==
  /\ composing[x] # Idle /\ composing[x].base # snapshot /\ reading = {}
  /\ UNCHANGED <<stored, snapshot, ingests, forgotten>> /\ Answered(x)

DeleteComposition(x) ==
  /\ x \in entries
  /\ entries' = entries \ {x}
  /\ tombstones' = [tombstones EXCEPT ![x] = Authority[x]]
  /\ Commit(CompositionBumps)
  /\ UNCHANGED <<certificates, index, bound, posteriors, exact, general, applied,
                 journals, graph, snaps, ingests, requests>>

-----------------------------------------------------------------------------
(* Certificates and the policy. *)

\* PublishSelectionCertificate, PublishOmittedInfluenceCertificate: the
\* request binds the policy and epoch the store has when it commits.
PublishBound(c) ==
  /\ bound' = [bound EXCEPT ![c] = Support(snapshot)]
  /\ Commit(CertificateBumps)
  /\ UNCHANGED <<entries, certificates, index, posteriors, exact, general, applied,
                 journals, graph, snaps, tombstones, ingests, requests>>

\* A certificate whose identifier is taken is refused, or changes nothing.
PublishAntiPigeonCertificate(c) ==
  /\ certificates[c] = Unpublished
  /\ certificates' = [certificates EXCEPT ![c] = Grounds(snapshot)]
  /\ index' = [e \in Events |-> IF e \in Members[c] THEN c ELSE index[e]]
  /\ Commit(CompositionBumps)
  /\ UNCHANGED <<entries, bound, posteriors, exact, general, applied, journals, graph,
                 snaps, tombstones, ingests, requests>>

-----------------------------------------------------------------------------
(* Journals. *)

\* The posterior a recall under s uses for e: shared while the selection
\* certificate and the event's Anti-Pigeon certificate are active.
KeyOf(e, s) ==
  IF /\ bound["selection"] = Support(s)
     /\ index[e] \in Certificates /\ Active(index[e], s)
  THEN index[e] ELSE e

\* A macro is nominated while its certificate holds every member.
Served(x) == x \in entries /\ Authority[x] \in CertificateOf(Members[Authority[x]])

Step(j, draft) ==
  /\ drafts' = [drafts EXCEPT ![j] = draft]
  /\ UNCHANGED <<stored, snapshot, ingests, forgotten, reading, composing, snapping, fresh>>

\* recallOnce: the events and the macros with authority are nominated ...
Nominate(j) ==
  LET found == {e \in Events \cap entries : Available[e] <= AsOf}
  IN /\ drafts[j].at = "idle" /\ journals[j] = NoJournal /\ found # {}
     /\ Step(j, [at |-> "nominated", found |-> found,
                 macros |-> {x \in Compositions : Served(x) /\ Available[x] <= AsOf}])

\* ... then the snapshot is captured ...
Capture(j) ==
  /\ drafts[j].at = "nominated"
  /\ Step(j, [at |-> "captured", found |-> drafts[j].found, macros |-> drafts[j].macros,
              snapshot |-> snapshot])

\* ... then the certificate of each event is read.
ReadKeys(j) ==
  /\ drafts[j].at = "captured"
  /\ Step(j, [at |-> "decided", macros |-> drafts[j].macros, snapshot |-> drafts[j].snapshot,
              keys |-> [e \in drafts[j].found |-> KeyOf(e, drafts[j].snapshot)]])

\* PutBayesianJournal: under the read lock, the journal is absent and its
\* snapshot compatible.
CheckJournal(j) ==
  /\ drafts[j].at = "decided" /\ j \notin reading
  /\ JournalSnapshotCompatible(drafts[j].snapshot, snapshot, AsOf, Motion)
  /\ reading' = reading \cup {j}
  /\ UNCHANGED <<stored, snapshot, ingests, forgotten, drafts, composing, snapping, fresh>>

InsertJournal(j) ==
  /\ j \in reading
  /\ journals' = [journals EXCEPT ![j] = [snapshot |-> drafts[j].snapshot,
                     keys |-> drafts[j].keys, macros |-> drafts[j].macros]]
  /\ reading' = reading \ {j}
  /\ drafts' = [drafts EXCEPT ![j] = Idle]
  /\ UNCHANGED <<entries, certificates, index, bound, posteriors, exact, general, applied,
                 graph, snaps, tombstones, snapshot, ingests, forgotten, composing, snapping, fresh>>

\* ErrStaleSnapshot: the recall starts over.
JournalStale(j) ==
  /\ drafts[j].at = "decided" /\ j \notin reading
  /\ ~JournalSnapshotCompatible(drafts[j].snapshot, snapshot, AsOf, Motion)
  /\ Step(j, Idle)

-----------------------------------------------------------------------------
(* Outcomes. *)

\* antiPigeonGroup: the members, while the certificate exists and every one
\* of them is still indexed under it.
Group(key) ==
  IF key \in Certificates /\ key \in CertificateOf(Members[key]) THEN Members[key] ELSE {}

JournalOf(k) == journals[Outcome[k].journal]

\* ObserveBayesianOutcome: the event was nominated by the journal.
Attributable(k) == k \notin applied /\ Outcome[k].event \in DOMAIN JournalOf(k).keys

\* A selected outcome is tested for freshness before the store is called.
TestFreshness(k) ==
  /\ Attributable(k) /\ k \notin fresh /\ Outcome[k].source = "selected"
  /\ JournalOf(k).snapshot["policy"] = snapshot["policy"]
  /\ JournalOf(k).snapshot["evidence"] = snapshot["evidence"]
  /\ fresh' = fresh \cup {k}
  /\ UNCHANGED <<stored, snapshot, ingests, forgotten, drafts, reading, composing, snapping>>

\* ApplyBayesianOutcome: one transaction over the outcome, the posteriors,
\* the residuals, the certificate with its index, and the snapshot.
ApplyBayesianOutcome(k, change, diverges) ==
  LET e == Outcome[k].event
      key == JournalOf(k).keys[e]
      group == Group(key)
      p == Absorb(Current(posteriors[key], snapshot["evidence"]), k, change)
      action == AssessRevision(group, k, change, diverges)
      splits == RevisionSplits(action)
      bumps == IF change THEN InvalidateBumps ELSE IF splits THEN SplitBumps ELSE OutcomeBumps
      next == Advance(snapshot, bumps)
      epoch == next["evidence"]
      Written(m) == IF m = key THEN Revised(p, action, change, epoch)
                    ELSE IF splits /\ m \in group THEN MemberPosterior(p, m, k, change, epoch)
                    ELSE IF m = Parent THEN ParentUpdated(posteriors[m], k, epoch)
                    ELSE posteriors[m]
  IN /\ Attributable(k) /\ (Outcome[k].source = "selected" => k \in fresh)
     /\ change => ResetAuthorized(key, k)
     /\ diverges => group # {} /\ MayDiverge(p, group)
     /\ Commit(bumps) /\ applied' = applied \cup {k}
     /\ posteriors' = [m \in PosteriorKeys |-> Written(m)]
     /\ exact' = [exact EXCEPT ![e] = ResidualUpdated(@, k, key, next, splits)]
     /\ general' = [general EXCEPT ![key] = ResidualUpdated(@, k, key, next, splits)]
     /\ certificates' = IF splits THEN [certificates EXCEPT ![key] = Unpublished]
                        ELSE certificates
     /\ index' = [m \in Events |-> IF splits /\ m \in group THEN NoCertificate ELSE index[m]]
     /\ fresh' = fresh \ {k}
     /\ UNCHANGED <<entries, bound, journals, graph, snaps, tombstones, ingests, drafts,
                    reading, composing, snapping>>

-----------------------------------------------------------------------------
(* Predictive snaps. *)

\* getPredictiveGraphLocked: the stored graph at the current graph version.
CurrentGraph == [content |-> graph.content, source |-> graph.source,
                 version |-> snapshot["graph"]]

\* PublishPredictiveSnap of the service: the candidate was confirmed against
\* the current graph, and its closure derived from it.
ProposeSnap(s) ==
  /\ snapping[s] = Idle
  /\ snapping' = [snapping EXCEPT ![s] = [at |-> "publish", previous |-> CurrentGraph]]
  /\ UNCHANGED <<stored, snapshot, ingests, forgotten, drafts, reading, composing, fresh>>

\* snapInvalidations
InClosure(r, s) == r.key \in Closure[s].keys \/ r.event \in Closure[s].events

Disabled(rs, s) == [x \in DOMAIN rs |-> [rs[x] EXCEPT !.active = @ /\ ~InClosure(rs[x], s)]]

\* writeSnapTransaction
WriteSnap(s, record, next) ==
  /\ snaps' = [snaps EXCEPT ![s] = record] /\ graph' = next
  /\ posteriors' = [k \in PosteriorKeys |->
       [posteriors[k] EXCEPT !.certified = @ /\ k \notin Closure[s].keys]]
  /\ exact' = Disabled(exact, s) /\ general' = Disabled(general, s)
  /\ Commit(SnapBumps)
  /\ UNCHANGED <<entries, certificates, index, bound, applied, journals, tombstones,
                 ingests, drafts, reading, composing, fresh>>

PublishPredictiveSnap(s) ==
  /\ snapping[s] # Idle /\ snapping[s].previous = CurrentGraph /\ snaps[s] = NoSnap
  /\ snapping' = [snapping EXCEPT ![s] = Idle]
  /\ WriteSnap(s, [previous |-> snapping[s].previous.content, rolledBack |-> FALSE],
               [content |-> s, source |-> s])

\* ErrSnapConflict: the graph moved, or the identifier was used before.
SnapConflict(s) ==
  /\ snapping[s] # Idle /\ reading = {}
  /\ snapping[s].previous # CurrentGraph \/ snaps[s] # NoSnap
  /\ snapping' = [snapping EXCEPT ![s] = Idle]
  /\ UNCHANGED <<stored, snapshot, ingests, forgotten, drafts, reading, composing, fresh>>

RollbackPredictiveSnap(s) ==
  /\ snaps[s] # NoSnap /\ ~snaps[s].rolledBack /\ graph.source = s
  /\ WriteSnap(s, [snaps[s] EXCEPT !.rolledBack = TRUE],
               [content |-> snaps[s].previous, source |-> "rollback"])
  /\ UNCHANGED snapping

-----------------------------------------------------------------------------
\* The daemon stops at any moment and is opened again: what is stored stays.
Reopened ==
  /\ forgotten' = DOMAIN ingests
  /\ drafts' = [j \in Journals |-> Idle] /\ reading' = {} /\ fresh' = {}
  /\ composing' = [x \in Compositions |-> Idle] /\ snapping' = [s \in Snaps |-> Idle]
  /\ UNCHANGED <<stored, ingests>>

Restart == Reopened /\ UNCHANGED snapshot

\* New binds the policy it is configured with; another digest is a new version.
BindBayesianPolicy ==
  /\ Reopened
  /\ snapshot' = Advance(snapshot, PolicyBumps) /\ WithinBound(snapshot')

Next ==
  \/ \E x \in Events : Put(x)
  \/ \E x \in Events \cup Compositions : Delete(x)
  \/ \E before \in {Available[x] : x \in entries} : DeleteBefore(before, 1)
  \/ \E x \in Compositions : \/ ComposeInvariant(x) \/ PutComposition(x)
                              \/ CompositionStale(x) \/ DeleteComposition(x)
  \/ \E c \in Bindings : PublishBound(c)
  \/ \E c \in Certificates : PublishAntiPigeonCertificate(c)
  \/ BindBayesianPolicy
  \/ \E j \in Journals : \/ Nominate(j) \/ Capture(j) \/ ReadKeys(j) \/ CheckJournal(j)
                          \/ InsertJournal(j) \/ JournalStale(j)
  \/ \E k \in Outcomes : TestFreshness(k)
  \/ \E k \in Outcomes, change, diverges \in BOOLEAN : ApplyBayesianOutcome(k, change, diverges)
  \/ \E s \in Snaps : \/ ProposeSnap(s) \/ PublishPredictiveSnap(s)
                       \/ SnapConflict(s) \/ RollbackPredictiveSnap(s)
  \/ Restart

Spec == Init /\ [][Next]_vars

-----------------------------------------------------------------------------
(* Properties. *)

\* The durable store, with requests in flight and restarts, does nothing that
\* the in-memory store with atomic requests does not do (both implement
\* store.EventStore): a journal is committed only under a snapshot that is
\* still compatible, a composition only under a certificate that is active at
\* that moment, a snap only against the graph it was confirmed on.
Implements == Promise!MemorySpec

\* An event's own posterior never contains evidence about another event,
\* whatever was shared and split before (ApplyBayesianOutcome,
\* materializedMemberPosterior).
OwnEvidence ==
  \A e \in Events : \A k \in posteriors[e].pool : Outcome[k].event = e

\* Revoking a certificate leaves nobody without a belief and loses nothing:
\* every member gets a certified posterior of its own under the new epoch,
\* with the evidence the shared one held about it, and the shared one is off.
SplitMaterialises ==
  [][\A c \in Certificates :
       certificates[c] # Unpublished /\ certificates'[c] = Unpublished =>
         /\ ~posteriors'[c].certified
         /\ \A e \in Members[c] :
              /\ posteriors'[e].certified /\ posteriors'[e].epoch = snapshot'["evidence"]
              /\ posteriors'[e].pool # {}
              /\ snapshot'["evidence"] = snapshot["evidence"]
                   => posteriors[c].member[e] \subseteq posteriors'[e].pool]_vars

=============================================================================
