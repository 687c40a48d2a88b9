---------------------------- MODULE MemoryStore ----------------------------
(***************************************************************************)
(* What the learning side of the store promises: the in-memory store, with *)
(* every service request executed at once.  One mutex serialises its       *)
(* operations, nothing is lost and nothing is in flight, so each operation *)
(* is one step over plain maps.  LearningStore, the durable store with     *)
(* requests in flight and restarts, implements this specification.         *)
(*                                                                         *)
(* One tenant.  Requests that change nothing (duplicates, refusals) are    *)
(* stuttering steps.                                                       *)
(***************************************************************************)
EXTENDS Beliefs, Snapshots

CONSTANTS
  Available,     \* Available[x]: when event or composition x becomes available
  Compositions,  \* identifiers of higher-order events
  Authority,     \* Authority[x]: the certificate composition x names
  Journals,      \* identifiers of recall journals
  AsOf,          \* logical time of the recalls
  Snaps,         \* identifiers of predictive snaps
  Closure,       \* Closure[s]: posterior keys and events snap s affects
  Preloaded,     \* events ingested before the behaviour starts
  Bindings       \* certificates that bind the policy and the epoch

VARIABLES
  entries,       \* stored events and compositions
  motion,        \* ingestMotion: runtime version -> availability time
  certificates,  \* Anti-Pigeon certificates
  index,         \* event -> the certificate that last listed it
  bound,         \* selection and omitted-influence certificates
  posteriors, exact, general,
  applied,       \* outcomes with a stored digest
  journals, graph, snaps, tombstones, snapshot

memoryVars == <<entries, motion, certificates, index, bound, posteriors, exact,
                general, applied, journals, graph, snaps, tombstones, snapshot>>

NoCertificate == "none"
Unpublished == [graph |-> 0, epoch |-> 0]
NoJournal == [snapshot |-> InitialSnapshot, keys |-> <<>>, macros |-> {}]
NoSnap == [previous |-> "none", rolledBack |-> FALSE]
EmptyGraph == [content |-> "empty", source |-> "none"]
NoTombstone == "none"

\* The snapshot after the preloaded events were ingested one by one.
PreloadedSnapshot ==
  [InitialSnapshot EXCEPT !["runtime"] = Cardinality(Preloaded),
                          !["evidence"] = Cardinality(Preloaded)]

MemoryInit ==
  /\ entries = Preloaded /\ motion = <<>>
  /\ certificates = [c \in Certificates |-> Unpublished]
  /\ index = [e \in Events |-> NoCertificate]
  /\ bound = [c \in Bindings |-> [policy |-> 0, epoch |-> 0]]
  /\ posteriors = [k \in PosteriorKeys |-> Absent]
  /\ exact = [e \in Events |-> NoResidual]
  /\ general = [k \in PosteriorKeys |-> NoResidual]
  /\ applied = {} /\ journals = [j \in Journals |-> NoJournal]
  /\ graph = EmptyGraph /\ snaps = [s \in Snaps |-> NoSnap]
  /\ tombstones = [x \in Compositions |-> NoTombstone]
  /\ snapshot = PreloadedSnapshot

Ingested(x, s) ==
  motion' = [v \in DOMAIN motion \cup {s["runtime"]} |->
               IF v = s["runtime"] THEN Available[x] ELSE motion[v]]

MemoryPut(x) ==
  LET next == Advance(snapshot, PutBumps)
  IN /\ x \in Events \ entries
     /\ entries' = entries \cup {x} /\ snapshot' = next /\ Ingested(x, next)
     /\ UNCHANGED <<certificates, index, bound, posteriors, exact, general, applied,
                    journals, graph, snaps, tombstones>>

\* antiPigeonGroup: the members of a certificate every one of them is indexed
\* under, or none.
MemoryGroup(key) ==
  IF key \in Certificates /\ certificates[key] # Unpublished
     /\ \A e \in Members[key] : index[e] = key
  THEN Members[key] ELSE {}

\* antiPigeonCertificateActive
MemoryActive(c, s) ==
  /\ certificates[c] # Unpublished
  /\ certificates[c] = [graph |-> s["graph"], epoch |-> s["evidence"]]

\* ComposeInvariant over PutComposition: the certificate is active, it covers
\* exactly the members, and they are stored and not newer than the macro.
MemoryCompose(x) ==
  LET c == Authority[x]
      next == Advance(snapshot, CompositionBumps)
  IN /\ x \in Compositions \ entries
     /\ MemoryGroup(c) # {} /\ MemoryActive(c, snapshot)
     /\ \A e \in Members[c] : e \in entries /\ Available[e] <= Available[x]
     /\ entries' = entries \cup {x} /\ snapshot' = next /\ Ingested(x, next)
     /\ UNCHANGED <<certificates, index, bound, posteriors, exact, general, applied,
                    journals, graph, snaps, tombstones>>

\* DeleteComposition: only the macro goes, and its members are on record.
MemoryDecompose(x) ==
  /\ x \in Compositions \cap entries
  /\ entries' = entries \ {x}
  /\ tombstones' = [tombstones EXCEPT ![x] = Authority[x]]
  /\ snapshot' = Advance(snapshot, CompositionBumps)
  /\ UNCHANGED <<motion, certificates, index, bound, posteriors, exact, general,
                 applied, journals, graph, snaps>>

\* Delete and DeleteBefore
MemoryRemove(gone) ==
  /\ gone # {}
  /\ entries' = entries \ gone /\ snapshot' = Advance(snapshot, InvalidateBumps)
  /\ UNCHANGED <<motion, certificates, index, bound, posteriors, exact, general,
                 applied, journals, graph, snaps, tombstones>>

\* PublishSelectionCertificate and PublishOmittedInfluenceCertificate
MemoryBind(c) ==
  /\ bound' = [bound EXCEPT ![c] = [policy |-> snapshot["policy"],
                                    epoch |-> snapshot["evidence"]]]
  /\ snapshot' = Advance(snapshot, CertificateBumps)
  /\ UNCHANGED <<entries, motion, certificates, index, posteriors, exact, general,
                 applied, journals, graph, snaps, tombstones>>

\* BindBayesianPolicy under a new digest
MemoryPolicy ==
  /\ snapshot' = Advance(snapshot, PolicyBumps)
  /\ UNCHANGED <<entries, motion, certificates, index, bound, posteriors, exact,
                 general, applied, journals, graph, snaps, tombstones>>

\* PublishAntiPigeonCertificate: the certificate binds the current graph and
\* epoch and takes over the index entry of every member.
MemoryPublish(c) ==
  /\ certificates' = [certificates EXCEPT ![c] = [graph |-> snapshot["graph"],
                                                  epoch |-> snapshot["evidence"]]]
  /\ index' = [e \in Events |-> IF e \in Members[c] THEN c ELSE index[e]]
  /\ snapshot' = Advance(snapshot, CompositionBumps)
  /\ UNCHANGED <<entries, motion, bound, posteriors, exact, general, applied, journals,
                 graph, snaps, tombstones>>

\* The key a recall under the vector s decides event e with: its certificate,
\* while that and the selection certificate are active, or the event itself.
MemoryKey(e, s) ==
  IF /\ bound["selection"] = [policy |-> s["policy"], epoch |-> s["evidence"]]
     /\ index[e] \in Certificates /\ MemoryActive(index[e], s)
  THEN index[e] ELSE e

\* A whole recall: the journal is accepted when nothing that matters moved
\* since its snapshot, and the keys it commits are the ones the store still
\* gives under that snapshot.
MemoryJournal(j) ==
  /\ journals[j] = NoJournal /\ journals'[j] # NoJournal
  /\ journals' = [journals EXCEPT ![j] = journals'[j]]
  /\ JournalSnapshotCompatible(journals'[j].snapshot, snapshot, AsOf, motion)
  /\ \A e \in DOMAIN journals'[j].keys :
        journals'[j].keys[e] = MemoryKey(e, journals'[j].snapshot)
  /\ UNCHANGED <<entries, motion, certificates, index, bound, posteriors, exact,
                 general, applied, graph, snaps, tombstones, snapshot>>

\* ApplyBayesianOutcome and revokeAntiPigeon
MemoryOutcome(k, change, diverges) ==
  LET e == Outcome[k].event
      key == journals[Outcome[k].journal].keys[e]
      group == MemoryGroup(key)
      p == Absorb(Current(posteriors[key], snapshot["evidence"]), k, change)
      action == AssessRevision(group, k, change, diverges)
      splits == RevisionSplits(action)
      next == Advance(snapshot, IF change THEN InvalidateBumps
                                ELSE IF splits THEN SplitBumps ELSE OutcomeBumps)
      epoch == next["evidence"]
      stored == [posteriors EXCEPT ![key] = Revised(p, action, change, epoch)]
      split == IF splits
               THEN [m \in PosteriorKeys |->
                       IF m \in group THEN MemberPosterior(p, m, k, change, epoch)
                       ELSE stored[m]]
               ELSE stored
  IN /\ k \notin applied /\ e \in DOMAIN journals[Outcome[k].journal].keys
     /\ applied' = applied \cup {k} /\ snapshot' = next
     /\ change => ResetAuthorized(key, k)
     /\ diverges => MayDiverge(p, group)
     /\ posteriors' = [split EXCEPT ![Parent] = ParentUpdated(@, k, epoch)]
     /\ exact' = [exact EXCEPT ![e] = ResidualUpdated(@, k, key, next, splits)]
     /\ general' = [general EXCEPT ![key] = ResidualUpdated(@, k, key, next, splits)]
     /\ certificates' = IF splits THEN [certificates EXCEPT ![key] = Unpublished]
                        ELSE certificates
     /\ index' = IF splits
                 THEN [m \in Events |-> IF m \in group /\ index[m] = key THEN NoCertificate
                                        ELSE index[m]]
                 ELSE index
     /\ UNCHANGED <<entries, motion, bound, journals, graph, snaps, tombstones>>

\* invalidateClosure
Invalidated(s) ==
  /\ posteriors' = [k \in PosteriorKeys |->
       IF k \in Closure[s].keys THEN [posteriors[k] EXCEPT !.certified = FALSE]
       ELSE posteriors[k]]
  /\ \A r \in {"exact", "general"} :
       LET Off(x) == [x EXCEPT !.active = @ /\ x.key \notin Closure[s].keys
                                            /\ x.event \notin Closure[s].events]
       IN IF r = "exact" THEN exact' = [e \in Events |-> Off(exact[e])]
          ELSE general' = [k \in PosteriorKeys |-> Off(general[k])]

\* PublishPredictiveSnap: the graph it replaces is on record.
MemorySnap(s) ==
  /\ snaps[s] = NoSnap
  /\ snaps' = [snaps EXCEPT ![s] = [previous |-> graph.content, rolledBack |-> FALSE]]
  /\ graph' = [content |-> s, source |-> s]
  /\ snapshot' = Advance(snapshot, SnapBumps) /\ Invalidated(s)
  /\ UNCHANGED <<entries, motion, certificates, index, bound, applied, journals, tombstones>>

\* RollbackPredictiveSnap: only of the snap the current graph came from.
MemoryRollback(s) ==
  /\ snaps[s] # NoSnap /\ ~snaps[s].rolledBack /\ graph.source = s
  /\ snaps' = [snaps EXCEPT ![s].rolledBack = TRUE]
  /\ graph' = [content |-> snaps[s].previous, source |-> "rollback"]
  /\ snapshot' = Advance(snapshot, SnapBumps) /\ Invalidated(s)
  /\ UNCHANGED <<entries, motion, certificates, index, bound, applied, journals, tombstones>>

MemoryNext ==
  \/ \E x \in Events : MemoryPut(x)
  \/ \E x \in Compositions : MemoryCompose(x) \/ MemoryDecompose(x)
  \/ \E gone \in SUBSET entries : MemoryRemove(gone)
  \/ \E c \in Bindings : MemoryBind(c)
  \/ \E c \in Certificates : MemoryPublish(c)
  \/ MemoryPolicy
  \/ \E j \in Journals : MemoryJournal(j)
  \/ \E k \in Outcomes, change, diverges \in BOOLEAN : MemoryOutcome(k, change, diverges)
  \/ \E s \in Snaps : MemorySnap(s) \/ MemoryRollback(s)

MemorySpec == MemoryInit /\ [][MemoryNext]_memoryVars
=============================================================================
