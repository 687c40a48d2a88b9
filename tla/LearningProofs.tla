--------------------------- MODULE LearningProofs ---------------------------
(***************************************************************************)
(* Theorems about LearningStore, for any events, certificates, journals,   *)
(* outcomes, compositions and snaps, and any interleaving of requests,     *)
(* commits and restarts.                                                   *)
(*                                                                         *)
(* The inductive invariant keeps the evidence of a posterior apart by      *)
(* event; says that the keys a draft has read have not moved unless the    *)
(* draft is outdated; and that a captured base that is still the snapshot  *)
(* still has the certificate that was read under it.  A shared posterior   *)
(* that a change point has reset cannot be split, so a split finds the     *)
(* evidence of every member.                                               *)
(***************************************************************************)
EXTENDS LearningStore, FiniteSetTheorems, TLAPS

Posterior == [epoch : Nat, certified : BOOLEAN, pool : SUBSET Outcomes,
              member : [Events -> SUBSET Outcomes]]

Residual == [epoch : Nat, policy : Nat, active : BOOLEAN,
             event : Events \cup {""}, key : PosteriorKeys \cup {""}]

\* The outcomes about event e.
About(e) == {k \in Outcomes : Outcome[k].event = e}

\* What is stored has its type, and a graph its version.
StoreTypeOK ==
  /\ snapshot \in Snapshot /\ snapshot["graph"] >= 1
  /\ certificates \in [Certificates -> [graph : Nat, epoch : Nat]]
  /\ index \in [Events -> Certificates \cup {NoCertificate}]
  /\ posteriors \in [PosteriorKeys -> Posterior]
  /\ exact \in [Events -> Residual] /\ general \in [PosteriorKeys -> Residual]
  /\ applied \subseteq Outcomes

\* Evidence is kept apart by event, in the pool of an event's own posterior and
\* in the statistics any posterior keeps per member.
EvidenceApart ==
  /\ \A e \in Events : posteriors[e].pool \subseteq About(e)
  /\ \A m \in PosteriorKeys, e \in Events : posteriors[m].member[e] \subseteq About(e)

\* A recall decides an event with its own posterior or a certificate's.
KeysOK(keys) ==
  /\ DOMAIN keys \subseteq Events
  /\ \A e \in DOMAIN keys : keys[e] \in Certificates \cup {e}

JournalsOK == DOMAIN journals = Journals /\ \A j \in Journals : KeysOK(journals[j].keys)

StoreInv == StoreTypeOK /\ EvidenceApart /\ JournalsOK

\* The versions of ingests are versions the store has had.
IngestsOK == \A v \in DOMAIN ingests : v \in Nat /\ v <= snapshot["runtime"]

\* A vector the store has had.
Captured(s) == s \in Snapshot /\ s["graph"] >= 1 /\ \A c \in Counters : s[c] <= snapshot[c]

\* A decision under s can no longer be committed.
Outdated(s) ==
  \/ \E c \in SemanticCounters : s[c] # snapshot[c]
  \/ \E v \in (s["runtime"] + 1)..snapshot["runtime"] : v \notin DOMAIN ingests

\* The keys a recall has read are the keys it would read now.
Unmoved(keys, s) == \A e \in DOMAIN keys : keys[e] = KeyOf(e, s)

DraftOK(j) ==
  LET d == drafts[j]
  IN  /\ d.at \in {"idle", "nominated", "captured", "decided"}
      /\ d.at # "idle" => journals[j] = NoJournal
      /\ d.at \in {"nominated", "captured"} => d.found # {} /\ d.found \subseteq Events
      /\ d.at \in {"captured", "decided"} => Captured(d.snapshot)
      /\ d.at = "decided" => /\ KeysOK(d.keys) /\ DOMAIN d.keys # {}
                             /\ Unmoved(d.keys, d.snapshot) \/ Outdated(d.snapshot)

DraftsOK == DOMAIN drafts = Journals /\ \A j \in Journals : DraftOK(j)

\* A journal being written is compatible with the snapshot it is written under.
ReadingOK ==
  \A j \in reading :
    /\ j \in Journals /\ drafts[j].at = "decided"
    /\ JournalSnapshotCompatible(drafts[j].snapshot, snapshot, AsOf, ingests)

\* A composition whose base is still the snapshot still has its certificate.
ComposingOK ==
  /\ DOMAIN composing = Compositions
  /\ \A x \in Compositions : composing[x] # Idle =>
       /\ composing[x].base \in Snapshot /\ composing[x].base["runtime"] <= snapshot["runtime"]
       /\ composing[x].base = snapshot => Active(Authority[x], snapshot)

RequestInv == IngestsOK /\ DraftsOK /\ ReadingOK /\ ComposingOK

LearningInv == StoreInv /\ RequestInv

-----------------------------------------------------------------------------
(* The version vector. *)

\* A commit moves the runtime counter and no counter backwards.
LEMMA CommitMoves ==
  ASSUME snapshot \in Snapshot, NEW bumps, "runtime" \in bumps, Commit(bumps)
  PROVE  /\ snapshot' \in Snapshot /\ reading = {}
         /\ snapshot'["runtime"] = snapshot["runtime"] + 1
         /\ \A c \in Counters : snapshot[c] <= snapshot'[c]
         /\ \A c \in bumps \cap Counters : snapshot'[c] = snapshot[c] + 1
         /\ \A c \in Counters \ bumps : snapshot'[c] = snapshot[c]
<1>1. snapshot' = [c \in Counters |-> IF c \in bumps THEN snapshot[c] + 1 ELSE snapshot[c]]
      /\ reading = {}
  BY DEF Commit, Advance, Exclusive
<1>2. \A c \in Counters : snapshot[c] \in Nat
  BY DEF Snapshot
<1>3. "runtime" \in Counters
  BY DEF Counters
<1> QED BY <1>1, <1>2, <1>3 DEF Snapshot

\* What cannot be committed stays so: no counter goes back, and no version that
\* is past becomes an ingest.
LEMMA OutdatedStays ==
  ASSUME snapshot \in Snapshot, snapshot' \in Snapshot, NEW s, Captured(s), Outdated(s),
         \A c \in Counters : snapshot[c] <= snapshot'[c],
         \A v \in DOMAIN ingests' : v \in DOMAIN ingests \/ v = snapshot["runtime"] + 1
  PROVE  Outdated(s)'
<1>0. /\ \A c \in Counters : s[c] \in Nat /\ snapshot[c] \in Nat /\ snapshot'[c] \in Nat
                           /\ s[c] <= snapshot[c] /\ snapshot[c] <= snapshot'[c]
      /\ "runtime" \in Counters /\ SemanticCounters \subseteq Counters
  BY DEF Captured, Snapshot, Counters, SemanticCounters
<1>1. CASE \E c \in SemanticCounters : s[c] # snapshot[c]
  <2>1. PICK c \in SemanticCounters : s[c] # snapshot[c]
    BY <1>1
  <2>2. s[c] # snapshot'[c]
    BY <1>0, <2>1
  <2> QED BY <2>2 DEF Outdated
<1>2. CASE \E v \in (s["runtime"] + 1)..snapshot["runtime"] : v \notin DOMAIN ingests
  <2>1. PICK v \in (s["runtime"] + 1)..snapshot["runtime"] : v \notin DOMAIN ingests
    BY <1>2
  <2>2. v \in (s["runtime"] + 1)..snapshot'["runtime"] /\ v # snapshot["runtime"] + 1
    BY <1>0, <2>1
  <2>3. v \notin DOMAIN ingests'
    BY <2>1, <2>2
  <2> QED BY <2>2, <2>3 DEF Outdated
<1> QED BY <1>1, <1>2 DEF Outdated

\* A commit keeps the requests in flight in order: it takes the snapshot from
\* under the compositions, and what it does to the certificates and the selection
\* is either a semantic motion or no ingest.
LEMMA CommitKeepsRequests ==
  ASSUME StoreInv, RequestInv, NEW bumps, "runtime" \in bumps, Commit(bumps),
         UNCHANGED <<journals, drafts, reading>>,
         composing' = composing \/ \E x : composing' = [composing EXCEPT ![x] = Idle],
         UNCHANGED ingests \/ \E x : Ingest(x),
         \/ UNCHANGED <<certificates, index, bound>>
         \/ bumps \cap SemanticCounters # {}
         \/ UNCHANGED ingests
  PROVE  RequestInv'
<1>0. snapshot \in Snapshot /\ DOMAIN composing = Compositions /\ "runtime" \in Counters
  BY DEF StoreInv, StoreTypeOK, RequestInv, ComposingOK, Counters
<1>1. /\ snapshot' \in Snapshot /\ reading = {}
      /\ snapshot'["runtime"] = snapshot["runtime"] + 1
      /\ \A c \in Counters : snapshot[c] <= snapshot'[c]
      /\ \A c \in bumps \cap Counters : snapshot'[c] = snapshot[c] + 1
  BY <1>0, CommitMoves
<1>2. /\ \A v \in DOMAIN ingests' : v \in DOMAIN ingests \/ v = snapshot["runtime"] + 1
      /\ snapshot["runtime"] \in Nat
  BY <1>0 DEF Ingest, Snapshot
<1>3. IngestsOK'
  BY <1>1, <1>2 DEF IngestsOK, RequestInv
<1>4. ReadingOK'
  BY <1>1 DEF ReadingOK
<1>5. ComposingOK'
  <2>1. /\ DOMAIN composing' = Compositions
        /\ \A x \in Compositions : composing'[x] \in {composing[x], Idle}
    BY <1>0
  <2>2. ASSUME NEW x \in Compositions, composing'[x] # Idle
        PROVE  /\ composing'[x].base \in Snapshot
               /\ composing'[x].base["runtime"] <= snapshot'["runtime"]
               /\ composing'[x].base # snapshot'
    <3>1. /\ composing'[x] = composing[x] /\ composing[x].base \in Snapshot
          /\ composing[x].base["runtime"] <= snapshot["runtime"]
      BY <2>1, <2>2 DEF RequestInv, ComposingOK
    <3>2. composing[x].base["runtime"] \in Nat
      BY <1>0, <3>1 DEF Snapshot
    <3>3. composing[x].base["runtime"] < snapshot'["runtime"]
      BY <1>1, <1>2, <3>1, <3>2
    <3> QED BY <1>1, <1>2, <3>1, <3>2, <3>3
  <2> QED BY <2>1, <2>2 DEF ComposingOK
<1>6. ASSUME NEW s, Captured(s) PROVE Captured(s)'
  BY <1>0, <1>1, <1>6 DEF Captured, Snapshot
<1>7. ASSUME NEW s, Captured(s), NEW keys, Unmoved(keys, s) \/ Outdated(s)
      PROVE  (Unmoved(keys, s) \/ Outdated(s))'
  <2>1. CASE Outdated(s)
    BY <1>0, <1>1, <1>2, <1>7, <2>1, OutdatedStays
  <2>2. CASE Unmoved(keys, s) /\ UNCHANGED <<certificates, index, bound>>
    BY <2>2 DEF Unmoved, KeyOf, Active
  <2>3. CASE bumps \cap SemanticCounters # {}
    <3>1. PICK c \in bumps \cap SemanticCounters : TRUE
      BY <2>3
    <3>2. c \in Counters /\ snapshot'[c] = snapshot[c] + 1
      BY <1>1, <3>1 DEF SemanticCounters
    <3>3. s[c] \in Nat /\ snapshot[c] \in Nat /\ s[c] <= snapshot[c]
      BY <1>0, <1>7, <3>2 DEF Captured, Snapshot
    <3>4. s[c] # snapshot'[c]
      BY <3>2, <3>3
    <3> QED BY <3>1, <3>4 DEF Outdated
  <2>4. CASE UNCHANGED ingests
    <3> DEFINE v == snapshot["runtime"] + 1
    <3>1. s["runtime"] \in Nat /\ s["runtime"] <= snapshot["runtime"]
      BY <1>0, <1>7 DEF Captured, Snapshot
    <3>2. v \in (s["runtime"] + 1)..snapshot'["runtime"]
      BY <1>1, <1>2, <3>1
    <3>3. v \notin DOMAIN ingests
      BY <1>2 DEF RequestInv, IngestsOK
    <3> QED BY <2>4, <3>2, <3>3 DEF Outdated
  <2> QED BY <1>7, <2>1, <2>2, <2>3, <2>4
<1>8. DraftsOK'
  <2>1. ASSUME NEW j \in Journals PROVE DraftOK(j)'
    <3>1. DraftOK(j) /\ drafts'[j] = drafts[j] /\ journals'[j] = journals[j]
      BY DEF RequestInv, DraftsOK
    <3> QED BY <1>6, <1>7, <3>1 DEF DraftOK, KeysOK
  <2> QED BY <2>1 DEF DraftsOK, RequestInv
<1> QED BY <1>3, <1>4, <1>5, <1>8 DEF RequestInv

-----------------------------------------------------------------------------
(* Steps of requests before they reach the store. *)

\* What the store holds is unchanged, and so is what is known of it.
LEMMA StoredSame ==
  ASSUME StoreInv, UNCHANGED <<stored, snapshot>>
  PROVE  StoreInv'
BY DEF StoreInv, StoreTypeOK, EvidenceApart, JournalsOK, stored

\* One recall takes a step, and the others see the same store.
LEMMA DraftStep ==
  ASSUME RequestInv, NEW j \in Journals, NEW d, drafts' = [drafts EXCEPT ![j] = d],
         UNCHANGED <<certificates, index, bound, snapshot, ingests, composing>>,
         reading' = reading \ {j},
         DOMAIN journals' = Journals, \A i \in Journals \ {j} : journals'[i] = journals[i],
         DraftOK(j)'
  PROVE  RequestInv'
<1>0. DOMAIN drafts = Journals
  BY DEF RequestInv, DraftsOK
<1>1. /\ DOMAIN drafts' = Journals
      /\ \A i \in Journals \ {j} : drafts'[i] = drafts[i]
  BY <1>0
<1>2. IngestsOK' /\ ComposingOK'
  BY DEF RequestInv, IngestsOK, ComposingOK, Active
<1>3. ReadingOK'
  BY <1>1 DEF RequestInv, ReadingOK
<1>4. ASSUME NEW i \in Journals \ {j} PROVE DraftOK(i)'
  <2>1. DraftOK(i) /\ drafts'[i] = drafts[i] /\ journals'[i] = journals[i]
    BY <1>1 DEF RequestInv, DraftsOK
  <2> QED BY <2>1 DEF DraftOK, Captured, Unmoved, Outdated, KeyOf, Active
<1> QED BY <1>1, <1>2, <1>3, <1>4 DEF RequestInv, DraftsOK

\* A recall nominates, captures the snapshot, reads its keys, or starts over.
LEMMA RecallStepKeeps ==
  ASSUME LearningInv, NEW j \in Journals,
         Nominate(j) \/ Capture(j) \/ ReadKeys(j) \/ JournalStale(j)
  PROVE  LearningInv'
<1>0. /\ DraftOK(j) /\ snapshot \in Snapshot /\ snapshot["graph"] >= 1
      /\ DOMAIN drafts = Journals /\ DOMAIN journals = Journals
  BY DEF LearningInv, StoreInv, StoreTypeOK, JournalsOK, RequestInv, DraftsOK
<1>1. UNCHANGED <<stored, snapshot, ingests, reading, composing>>
  BY DEF Nominate, Capture, ReadKeys, JournalStale, Step
<1>2. UNCHANGED <<journals, certificates, index, bound>>
  BY <1>1 DEF stored
<1>3. StoreInv'
  BY <1>1, StoredSame DEF LearningInv
<1>4. j \notin reading
  BY DEF LearningInv, RequestInv, ReadingOK, Nominate, Capture, ReadKeys, JournalStale
<1>5. ASSUME NEW d, drafts' = [drafts EXCEPT ![j] = d], DraftOK(j)' PROVE RequestInv'
  <2>1. reading' = reading \ {j}
    BY <1>1, <1>4
  <2> QED BY <1>0, <1>1, <1>2, <1>5, <2>1, DraftStep DEF LearningInv
<1>6. ASSUME NEW d, drafts' = [drafts EXCEPT ![j] = d] PROVE drafts'[j] = d
  BY <1>0, <1>6
<1>7. Captured(snapshot)'
  BY <1>0, <1>1 DEF Captured, Snapshot
<1>8. ASSUME NEW s, Captured(s) PROVE Captured(s)'
  BY <1>1, <1>8 DEF Captured
<1>9. CASE Nominate(j)
  <2> DEFINE found == {e \in Events \cap entries : Available[e] <= AsOf}
             d == [at |-> "nominated", found |-> found,
                   macros |-> {x \in Compositions : Served(x) /\ Available[x] <= AsOf}]
  <2>1. drafts' = [drafts EXCEPT ![j] = d] /\ journals[j] = NoJournal /\ found # {}
    BY <1>9 DEF Nominate, Step
  <2>2. d.at = "nominated" /\ d.found # {} /\ d.found \subseteq Events
    BY <2>1
  <2> HIDE DEF d
  <2>3. DraftOK(j)'
    BY <1>2, <1>6, <2>1, <2>2 DEF DraftOK
  <2> QED BY <1>3, <1>5, <2>1, <2>3 DEF LearningInv
<1>10. CASE Capture(j)
  <2> DEFINE d == [at |-> "captured", found |-> drafts[j].found, macros |-> drafts[j].macros,
                   snapshot |-> snapshot]
  <2>1. drafts' = [drafts EXCEPT ![j] = d] /\ drafts[j].at = "nominated"
    BY <1>10 DEF Capture, Step
  <2>2. d.at = "captured" /\ d.found = drafts[j].found /\ d.snapshot = snapshot
    OBVIOUS
  <2> HIDE DEF d
  <2>3. DraftOK(j)'
    BY <1>0, <1>1, <1>2, <1>6, <1>7, <2>1, <2>2 DEF DraftOK
  <2> QED BY <1>3, <1>5, <2>1, <2>3 DEF LearningInv
<1>11. CASE ReadKeys(j)
  <2>a. PICK s : s = drafts[j].snapshot
    OBVIOUS
  <2>b. PICK keys : keys = [e \in drafts[j].found |-> KeyOf(e, s)]
    OBVIOUS
  <2>c. PICK d : d = [at |-> "decided", macros |-> drafts[j].macros, snapshot |-> s,
                      keys |-> keys]
    OBVIOUS
  <2>1. drafts' = [drafts EXCEPT ![j] = d] /\ drafts[j].at = "captured"
    BY <1>11, <2>a, <2>b, <2>c DEF ReadKeys, Step
  <2>2. d.at = "decided" /\ d.keys = keys /\ d.snapshot = s
    BY <2>c
  <2>3. drafts[j].found # {} /\ drafts[j].found \subseteq Events /\ Captured(s)
        /\ journals[j] = NoJournal
    BY <1>0, <2>1, <2>a DEF DraftOK
  <2>4. DOMAIN keys = drafts[j].found /\ \A e \in DOMAIN keys : keys[e] = KeyOf(e, s)
    BY <2>b
  <2>5. KeysOK(keys) /\ DOMAIN keys # {}
    BY <2>3, <2>4 DEF KeysOK, KeyOf
  <2>6. Unmoved(keys, s)'
    BY <1>2, <2>4 DEF Unmoved, KeyOf, Active
  <2>7. DraftOK(j)'
    BY <1>2, <1>6, <1>8, <2>1, <2>2, <2>3, <2>5, <2>6 DEF DraftOK
  <2> QED BY <1>3, <1>5, <2>1, <2>7 DEF LearningInv
<1>12. CASE JournalStale(j)
  <2>1. drafts' = [drafts EXCEPT ![j] = Idle]
    BY <1>12 DEF JournalStale, Step
  <2>2. drafts'[j].at = "idle"
    BY <1>6, <2>1 DEF Idle
  <2>3. DraftOK(j)'
    BY <2>2 DEF DraftOK
  <2> QED BY <1>3, <1>5, <2>1, <2>3 DEF LearningInv
<1> QED BY <1>9, <1>10, <1>11, <1>12

\* The read lock is taken under a compatible snapshot.
LEMMA CheckKeeps ==
  ASSUME LearningInv, NEW j \in Journals, CheckJournal(j)
  PROVE  LearningInv'
<1>1. /\ UNCHANGED <<stored, snapshot, ingests, drafts, composing>>
      /\ reading' = reading \cup {j} /\ drafts[j].at = "decided"
      /\ JournalSnapshotCompatible(drafts[j].snapshot, snapshot, AsOf, Motion)
  BY DEF CheckJournal
<1>2. UNCHANGED <<journals, certificates, index, bound>>
  BY <1>1 DEF stored
<1>3. StoreInv'
  BY <1>1, StoredSame DEF LearningInv
<1>4. JournalSnapshotCompatible(drafts[j].snapshot, snapshot, AsOf, ingests)
  BY <1>1 DEF JournalSnapshotCompatible, Motion
<1>5. ReadingOK'
  BY <1>1, <1>4 DEF LearningInv, RequestInv, ReadingOK, JournalSnapshotCompatible
<1>6. IngestsOK' /\ ComposingOK'
  BY <1>1, <1>2 DEF LearningInv, RequestInv, IngestsOK, ComposingOK, Active
<1>7. ASSUME NEW i \in Journals PROVE DraftOK(i)'
  <2>1. DraftOK(i) /\ drafts'[i] = drafts[i] /\ journals'[i] = journals[i]
    BY <1>1, <1>2 DEF LearningInv, RequestInv, DraftsOK
  <2> QED BY <1>1, <1>2, <2>1 DEF DraftOK, Captured, Unmoved, Outdated, KeyOf, Active
<1> QED BY <1>1, <1>3, <1>5, <1>6, <1>7 DEF LearningInv, RequestInv, DraftsOK

\* The journal is inserted with the keys of its draft.
LEMMA InsertKeeps ==
  ASSUME LearningInv, NEW j \in Journals, InsertJournal(j)
  PROVE  LearningInv'
<1> DEFINE r == [snapshot |-> drafts[j].snapshot, keys |-> drafts[j].keys,
                 macros |-> drafts[j].macros]
<1>1. /\ journals' = [journals EXCEPT ![j] = r] /\ reading' = reading \ {j} /\ j \in reading
      /\ drafts' = [drafts EXCEPT ![j] = Idle]
      /\ UNCHANGED <<certificates, index, bound, posteriors, exact, general, applied, snapshot,
                     ingests, composing>>
  BY DEF InsertJournal
<1>2. /\ DraftOK(j) /\ drafts[j].at = "decided"
      /\ DOMAIN drafts = Journals /\ DOMAIN journals = Journals
  BY <1>1 DEF LearningInv, StoreInv, JournalsOK, RequestInv, DraftsOK, ReadingOK
<1>3. KeysOK(drafts[j].keys) /\ r.keys = drafts[j].keys
  BY <1>2 DEF DraftOK
<1> HIDE DEF r
<1>4. \A i \in Journals : journals'[i] = IF i = j THEN r ELSE journals[i]
  BY <1>1, <1>2
<1>5. \A i \in Journals : KeysOK(journals'[i].keys)
  BY <1>3, <1>4 DEF LearningInv, StoreInv, JournalsOK, KeysOK
<1>6. StoreInv'
  <2>1. StoreTypeOK' /\ EvidenceApart'
    BY <1>1 DEF LearningInv, StoreInv, StoreTypeOK, EvidenceApart
  <2>2. DOMAIN journals' = Journals
    BY <1>1, <1>2
  <2>3. JournalsOK'
    BY <1>5, <2>2 DEF JournalsOK, KeysOK
  <2> QED BY <2>1, <2>3 DEF StoreInv
<1>7. drafts'[j].at = "idle"
  BY <1>1, <1>2 DEF Idle
<1>8. DraftOK(j)'
  BY <1>7 DEF DraftOK
<1>9. DOMAIN journals' = Journals /\ \A i \in Journals \ {j} : journals'[i] = journals[i]
  BY <1>1, <1>2, <1>4
<1>10. RequestInv'
  <2>1. /\ RequestInv /\ reading' = reading \ {j}
        /\ UNCHANGED <<certificates, index, bound, snapshot, ingests, composing>>
    BY <1>1 DEF LearningInv
  <2>2. PICK d : drafts' = [drafts EXCEPT ![j] = d]
    BY <1>1
  <2> QED BY <1>8, <1>9, <2>1, <2>2, DraftStep
<1> QED BY <1>6, <1>10 DEF LearningInv

\* A composition request passes its checks or is answered, an outcome is tested
\* for freshness, and a snap request begins or ends.
LEMMA OtherRequestKeeps ==
  ASSUME LearningInv,
         \/ \E x \in Compositions : ComposeInvariant(x) \/ CompositionStale(x)
         \/ \E k \in Outcomes : TestFreshness(k)
         \/ \E s \in Snaps : ProposeSnap(s) \/ SnapConflict(s)
  PROVE  LearningInv'
<1>1. UNCHANGED <<stored, snapshot, ingests, drafts, reading>>
  BY DEF ComposeInvariant, CompositionStale, Answered, TestFreshness, ProposeSnap, SnapConflict
<1>2. UNCHANGED <<journals, certificates, index, bound>>
  BY <1>1 DEF stored
<1>3. StoreInv'
  BY <1>1, StoredSame DEF LearningInv
<1>4. IngestsOK' /\ ReadingOK'
  BY <1>1 DEF LearningInv, RequestInv, IngestsOK, ReadingOK
<1>5. ASSUME NEW i \in Journals PROVE DraftOK(i)'
  <2>1. DraftOK(i) /\ drafts'[i] = drafts[i] /\ journals'[i] = journals[i]
    BY <1>1, <1>2 DEF LearningInv, RequestInv, DraftsOK
  <2> QED BY <1>1, <1>2, <2>1 DEF DraftOK, Captured, Unmoved, Outdated, KeyOf, Active
<1>6. DraftsOK'
  BY <1>1, <1>5 DEF DraftsOK, LearningInv, RequestInv
<1>7. ComposingOK'
  <2>0. /\ DOMAIN composing = Compositions /\ snapshot \in Snapshot /\ snapshot["runtime"] \in Nat
        /\ ComposingOK
    BY DEF LearningInv, RequestInv, ComposingOK, StoreInv, StoreTypeOK, Snapshot, Counters
  <2>1. CASE \E x \in Compositions : ComposeInvariant(x)
    <3>1. PICK x \in Compositions : ComposeInvariant(x)
      BY <2>1
    <3> DEFINE r == [at |-> "put", base |-> snapshot]
    <3>2. composing' = [composing EXCEPT ![x] = r] /\ Active(Authority[x], snapshot)
      BY <3>1 DEF ComposeInvariant
    <3>3. r.base = snapshot
      OBVIOUS
    <3> HIDE DEF r
    <3>4. \A y \in Compositions : composing'[y] = IF y = x THEN r ELSE composing[y]
      BY <2>0, <3>2
    <3>5. DOMAIN composing' = Compositions
      BY <2>0, <3>2
    <3> QED BY <1>1, <1>2, <2>0, <3>2, <3>3, <3>4, <3>5 DEF ComposingOK, Active
  <2>2. CASE \E x \in Compositions : CompositionStale(x)
    <3>1. PICK x \in Compositions : composing' = [composing EXCEPT ![x] = Idle]
      BY <2>2 DEF CompositionStale, Answered
    <3>2. /\ \A y \in Compositions : composing'[y] = IF y = x THEN Idle ELSE composing[y]
          /\ DOMAIN composing' = Compositions
      BY <2>0, <3>1
    <3> QED BY <1>1, <1>2, <2>0, <3>2 DEF ComposingOK, Active
  <2>3. CASE UNCHANGED composing
    BY <1>1, <1>2, <2>0, <2>3 DEF ComposingOK, Active
  <2> QED BY <2>1, <2>2, <2>3 DEF TestFreshness, ProposeSnap, SnapConflict
<1> QED BY <1>3, <1>4, <1>6, <1>7 DEF LearningInv, RequestInv

\* The daemon is opened again, perhaps under another policy.
LEMMA ReopenKeeps ==
  ASSUME LearningInv, Restart \/ BindBayesianPolicy
  PROVE  LearningInv'
<1>1. /\ UNCHANGED <<stored, ingests>> /\ reading' = {}
      /\ drafts' = [j \in Journals |-> Idle] /\ composing' = [x \in Compositions |-> Idle]
  BY DEF Restart, BindBayesianPolicy, Reopened
<1>2. snapshot' = snapshot \/ snapshot' = Advance(snapshot, PolicyBumps)
  BY DEF Restart, BindBayesianPolicy
<1>3. /\ snapshot' \in Snapshot /\ snapshot'["graph"] >= 1
      /\ snapshot["runtime"] \in Nat /\ snapshot["runtime"] <= snapshot'["runtime"]
  <2>1. snapshot \in Snapshot /\ snapshot["graph"] >= 1
    BY DEF LearningInv, StoreInv, StoreTypeOK
  <2> QED BY <1>2, <2>1 DEF Advance, PolicyBumps, Snapshot, Counters
<1>4. StoreInv'
  <2>1. StoreTypeOK'
    BY <1>1, <1>3 DEF LearningInv, StoreInv, StoreTypeOK, stored
  <2>2. EvidenceApart' /\ JournalsOK'
    BY <1>1 DEF LearningInv, StoreInv, EvidenceApart, JournalsOK, stored
  <2> QED BY <2>1, <2>2 DEF StoreInv
<1>5. IngestsOK' /\ ReadingOK' /\ ComposingOK'
  <2>1. IngestsOK'
    <3>1. \A v \in DOMAIN ingests : v \in Nat /\ v <= snapshot["runtime"]
      BY DEF LearningInv, RequestInv, IngestsOK
    <3>2. snapshot'["runtime"] \in Nat
      BY <1>3 DEF Snapshot, Counters
    <3> QED BY <1>1, <1>3, <3>1, <3>2 DEF IngestsOK
  <2> QED BY <1>1, <2>1 DEF ReadingOK, ComposingOK
<1>6. \A j \in Journals : drafts'[j].at = "idle"
  BY <1>1 DEF Idle
<1>7. DraftsOK'
  BY <1>1, <1>6 DEF DraftsOK, DraftOK
<1> QED BY <1>4, <1>5, <1>7 DEF LearningInv, RequestInv

-----------------------------------------------------------------------------
(* Commits. *)

\* A commit that leaves the beliefs and the certificates alone.
LEMMA PlainCommitKeeps ==
  ASSUME LearningInv, NEW bumps, "runtime" \in bumps, Commit(bumps),
         UNCHANGED <<certificates, index, posteriors, exact, general, applied, journals,
                     drafts, reading>>,
         composing' = composing \/ \E x : composing' = [composing EXCEPT ![x] = Idle],
         \/ UNCHANGED ingests
         \/ UNCHANGED bound /\ \E x : Ingest(x)
  PROVE  LearningInv'
<1>0. snapshot \in Snapshot /\ snapshot["graph"] >= 1
  BY DEF LearningInv, StoreInv, StoreTypeOK
<1>1. snapshot' \in Snapshot /\ \A c \in Counters : snapshot[c] <= snapshot'[c]
  BY <1>0, CommitMoves
<1>2. snapshot'["graph"] >= 1
  BY <1>0, <1>1 DEF Snapshot, Counters
<1>3. StoreInv'
  BY <1>1, <1>2 DEF LearningInv, StoreInv, StoreTypeOK, EvidenceApart, JournalsOK, KeysOK
<1>4. RequestInv'
  BY CommitKeepsRequests DEF LearningInv
<1> QED BY <1>3, <1>4 DEF LearningInv

\* Events and compositions come and go, and a selection is certified.
LEMMA EntriesKeep ==
  ASSUME LearningInv,
         \/ \E x \in Events : Put(x)
         \/ \E x : Delete(x)
         \/ \E before, limit : DeleteBefore(before, limit)
         \/ \E x \in Compositions : PutComposition(x) \/ DeleteComposition(x)
         \/ \E c \in Bindings : PublishBound(c)
  PROVE  LearningInv'
<1> USE DEF PutBumps, CompositionBumps, CertificateBumps, InvalidateBumps, requests
<1>1. CASE \E x \in Events : Put(x)
  BY <1>1, PlainCommitKeeps DEF Put
<1>2. CASE \E gone : Removed(gone)
  BY <1>2, PlainCommitKeeps DEF Removed
<1>3. CASE \E x \in Compositions : PutComposition(x)
  <2>1. PICK x \in Compositions : PutComposition(x)
    BY <1>3
  <2>2. /\ Commit(CompositionBumps) /\ Ingest(x)
        /\ UNCHANGED <<certificates, index, bound, posteriors, exact, general, applied,
                       journals, drafts, reading>>
        /\ composing' = [composing EXCEPT ![x] = Idle]
    BY <2>1 DEF PutComposition, Answered
  <2> QED BY <2>2, PlainCommitKeeps
<1>4. CASE \E x \in Compositions : DeleteComposition(x)
  BY <1>4, PlainCommitKeeps DEF DeleteComposition
<1>5. CASE \E c \in Bindings : PublishBound(c)
  BY <1>5, PlainCommitKeeps DEF PublishBound
<1> QED BY <1>1, <1>2, <1>3, <1>4, <1>5 DEF Delete, DeleteBefore

\* A certificate is published and takes over its members.
LEMMA PublishKeeps ==
  ASSUME LearningInv, NEW c \in Certificates, PublishAntiPigeonCertificate(c)
  PROVE  LearningInv'
<1>0. /\ snapshot \in Snapshot /\ snapshot["graph"] >= 1
      /\ certificates \in [Certificates -> [graph : Nat, epoch : Nat]]
      /\ index \in [Events -> Certificates \cup {NoCertificate}]
  BY DEF LearningInv, StoreInv, StoreTypeOK
<1>1. /\ certificates' = [certificates EXCEPT ![c] = Grounds(snapshot)]
      /\ index' = [e \in Events |-> IF e \in Members[c] THEN c ELSE index[e]]
      /\ Commit(CompositionBumps)
      /\ UNCHANGED <<posteriors, exact, general, applied, journals, ingests, drafts, reading,
                     composing>>
  BY DEF PublishAntiPigeonCertificate, requests
<1>2. snapshot' \in Snapshot /\ \A d \in Counters : snapshot[d] <= snapshot'[d]
  BY <1>0, <1>1, CommitMoves DEF CompositionBumps
<1>3. snapshot'["graph"] >= 1
  BY <1>0, <1>2 DEF Snapshot, Counters
<1>4. Grounds(snapshot) \in [graph : Nat, epoch : Nat]
  BY <1>0 DEF Grounds, Snapshot, Counters
<1>5. StoreTypeOK'
  <2>1. certificates' \in [Certificates -> [graph : Nat, epoch : Nat]]
    BY <1>0, <1>1, <1>4
  <2>2. index' \in [Events -> Certificates \cup {NoCertificate}]
    BY <1>0, <1>1
  <2> QED BY <1>1, <1>2, <1>3, <2>1, <2>2 DEF LearningInv, StoreInv, StoreTypeOK
<1>6. StoreInv'
  BY <1>1, <1>5 DEF LearningInv, StoreInv, EvidenceApart, JournalsOK, KeysOK
<1>7. RequestInv'
  BY <1>1, CommitKeepsRequests DEF LearningInv, CompositionBumps
<1> QED BY <1>6, <1>7 DEF LearningInv

\* A snap or its rollback only takes certified laws and residuals out of use.
LEMMA SnapKeeps ==
  ASSUME LearningInv, NEW s \in Snaps, NEW record, NEW next, WriteSnap(s, record, next)
  PROVE  LearningInv'
<1>0. /\ snapshot \in Snapshot /\ snapshot["graph"] >= 1
      /\ posteriors \in [PosteriorKeys -> Posterior]
      /\ exact \in [Events -> Residual] /\ general \in [PosteriorKeys -> Residual]
  BY DEF LearningInv, StoreInv, StoreTypeOK
<1>1. /\ posteriors' = [k \in PosteriorKeys |->
            [posteriors[k] EXCEPT !.certified = @ /\ k \notin Closure[s].keys]]
      /\ exact' = Disabled(exact, s) /\ general' = Disabled(general, s)
      /\ Commit(SnapBumps)
      /\ UNCHANGED <<certificates, index, bound, applied, journals, ingests, drafts, reading,
                     composing>>
  BY DEF WriteSnap
<1>2. snapshot' \in Snapshot /\ \A c \in Counters : snapshot[c] <= snapshot'[c]
  BY <1>0, <1>1, CommitMoves DEF SnapBumps
<1>3. snapshot'["graph"] >= 1
  BY <1>0, <1>2 DEF Snapshot, Counters
<1>4. \A k \in PosteriorKeys : /\ posteriors'[k] \in Posterior
                               /\ posteriors'[k].pool = posteriors[k].pool
                               /\ posteriors'[k].member = posteriors[k].member
  BY <1>0, <1>1 DEF Posterior
<1>5. exact' \in [Events -> Residual] /\ general' \in [PosteriorKeys -> Residual]
  <2>1. ASSUME NEW r \in Residual PROVE [r EXCEPT !.active = @ /\ ~InClosure(r, s)] \in Residual
    BY DEF Residual
  <2> QED BY <1>0, <1>1, <2>1 DEF Disabled
<1>6. StoreTypeOK'
  <2>1. posteriors' \in [PosteriorKeys -> Posterior]
    BY <1>1, <1>4
  <2> QED BY <1>1, <1>2, <1>3, <1>5, <2>1 DEF LearningInv, StoreInv, StoreTypeOK
<1>7. StoreInv'
  <2>1. EvidenceApart'
    BY <1>4 DEF LearningInv, StoreInv, EvidenceApart, PosteriorKeys
  <2> QED BY <1>1, <1>6, <2>1 DEF LearningInv, StoreInv, JournalsOK, KeysOK
<1>8. RequestInv'
  BY <1>1, CommitKeepsRequests DEF LearningInv, SnapBumps
<1> QED BY <1>7, <1>8 DEF LearningInv

-----------------------------------------------------------------------------
(* What one outcome does to a posterior. *)

\* A posterior whose statistics of each member are about that member.
Clean(p) == p \in Posterior /\ \A e \in Events : p.member[e] \subseteq About(e)

\* A posterior of another epoch starts again without evidence.
LEMMA CurrentClean ==
  ASSUME NEW p, Clean(p), NEW epoch \in Nat
  PROVE  LET q == Current(p, epoch)
         IN  /\ Clean(q) /\ q.pool \subseteq p.pool
             /\ q = p \/ \A e \in Events : q.member[e] = {}
<1>1. CASE p.epoch = epoch
  BY <1>1 DEF Current, Clean
<1>2. CASE p.epoch # epoch
  <2> DEFINE q == Fresh(epoch)
  <2>1. Current(p, epoch) = q
    BY <1>2 DEF Current
  <2>2. q.pool = {} /\ q.member = NoEvidence /\ q \in Posterior
    BY DEF Fresh, NoEvidence, Posterior
  <2>3. \A e \in Events : q.member[e] = {}
    BY <2>2 DEF NoEvidence
  <2> HIDE DEF q
  <2> QED BY <2>1, <2>2, <2>3 DEF Clean
<1> QED BY <1>1, <1>2

\* An outcome is absorbed in the pool and in the statistics of its event.
LEMMA AbsorbClean ==
  ASSUME NEW p, Clean(p), NEW k \in Outcomes, NEW change \in BOOLEAN
  PROVE  LET q == Absorb(p, k, change)
         IN  /\ Clean(q) /\ q.pool \subseteq p.pool \cup {k}
             /\ \A e \in Events : p.member[e] \subseteq q.member[e]
             /\ \A e \in Events \ {Outcome[k].event} : q.member[e] = p.member[e]
<1> DEFINE f == Outcome[k].event
           m == [p.member EXCEPT ![f] = @ \cup {k}]
           pool == IF change THEN {k} ELSE p.pool \cup {k}
           q == Absorb(p, k, change)
<1>1. f \in Events /\ k \in About(f) /\ p \in Posterior
  BY LearningAssumption DEF About, Clean
<1>2. p.member \in [Events -> SUBSET Outcomes] /\ p.pool \subseteq Outcomes
  BY <1>1 DEF Posterior
<1>3. /\ m \in [Events -> SUBSET Outcomes] /\ pool \subseteq Outcomes
      /\ pool \subseteq p.pool \cup {k}
      /\ \A e \in Events : m[e] = IF e = f THEN p.member[e] \cup {k} ELSE p.member[e]
  BY <1>1, <1>2
<1>4. q = [p EXCEPT !.pool = pool, !.member = m]
  BY DEF Absorb
<1> HIDE DEF m, pool, q
<1>5. q \in Posterior /\ q.pool = pool /\ q.member = m
  BY <1>1, <1>3, <1>4 DEF Posterior
<1>6. \A e \in Events : m[e] \subseteq About(e)
  BY <1>1, <1>3 DEF Clean
<1> QED BY <1>3, <1>5, <1>6 DEF Clean, q

\* The stored form holds no more evidence, and a split takes it out of use.
LEMMA RevisedClean ==
  ASSUME NEW p, Clean(p), NEW action, NEW change \in BOOLEAN, NEW epoch \in Nat
  PROVE  LET q == Revised(p, action, change, epoch)
         IN  Clean(q) /\ q.pool = p.pool /\ (RevisionSplits(action) => ~q.certified)
<1> DEFINE t == IF change THEN epoch ELSE p.epoch
           c == p.certified /\ ~RevisionSplits(action)
           m == IF change /\ ~RevisionSplits(action) THEN NoEvidence ELSE p.member
           q == Revised(p, action, change, epoch)
<1>1. p \in Posterior /\ p.member \in [Events -> SUBSET Outcomes] /\ p.epoch \in Nat
  BY DEF Clean, Posterior
<1>2. /\ m \in [Events -> SUBSET Outcomes] /\ \A e \in Events : m[e] \subseteq About(e)
      /\ t \in Nat /\ c \in BOOLEAN /\ (RevisionSplits(action) => ~c)
  BY <1>1 DEF NoEvidence, Clean
<1>3. q = [p EXCEPT !.epoch = t, !.certified = c, !.member = m]
  BY DEF Revised
<1> HIDE DEF t, c, m, q
<1>4. q \in Posterior /\ q.member = m /\ q.pool = p.pool /\ q.certified = c
  BY <1>1, <1>2, <1>3 DEF Posterior
<1> QED BY <1>2, <1>4 DEF Clean, q

\* A member's own posterior is what the shared one kept about it, or the outcome
\* that revealed the change.
LEMMA MemberClean ==
  ASSUME NEW p, Clean(p), NEW e \in Events, NEW k \in Outcomes, NEW change \in BOOLEAN,
         NEW epoch \in Nat
  PROVE  LET q == MemberPosterior(p, e, k, change, epoch)
         IN  /\ Clean(q) /\ q.certified /\ q.epoch = epoch /\ q.pool \subseteq About(e)
             /\ p.member[e] # {} => q.pool # {}
             /\ ~change => q.pool = p.member[e]
<1> DEFINE own == IF change /\ e = Outcome[k].event THEN {k} ELSE p.member[e]
           m == [NoEvidence EXCEPT ![e] = own]
           q == MemberPosterior(p, e, k, change, epoch)
<1>1. own \subseteq About(e) /\ (p.member[e] # {} => own # {}) /\ (~change => own = p.member[e])
  BY DEF Clean, About
<1>2. own \subseteq Outcomes
  BY <1>1 DEF About
<1> HIDE DEF own
<1>3. /\ m \in [Events -> SUBSET Outcomes]
      /\ \A f \in Events : m[f] = IF f = e THEN own ELSE {}
  BY <1>2 DEF NoEvidence
<1>4. q = [epoch |-> epoch, certified |-> TRUE, pool |-> own, member |-> m]
  BY DEF MemberPosterior, own
<1> HIDE DEF m, q
<1>5. /\ q \in Posterior /\ q.member = m /\ q.pool = own /\ q.certified = TRUE
      /\ q.epoch = epoch
  BY <1>2, <1>3, <1>4 DEF Posterior
<1>6. \A f \in Events : m[f] \subseteq About(f)
  BY <1>1, <1>3
<1> QED BY <1>1, <1>5, <1>6 DEF Clean, q

\* The parent pools what is about anything.
LEMMA ParentClean ==
  ASSUME NEW p, Clean(p), NEW k \in Outcomes, NEW epoch \in Nat
  PROVE  Clean(ParentUpdated(p, k, epoch))
<1> DEFINE c == Current(p, epoch)
           q == [c EXCEPT !.pool = @ \cup {k}]
<1>1. Clean(c)
  BY CurrentClean
<1>2. ParentUpdated(p, k, epoch) = q
  BY DEF ParentUpdated
<1> HIDE DEF c
<1>3. q \in Posterior /\ q.member = c.member
  BY <1>1 DEF Clean, Posterior
<1> QED BY <1>1, <1>2, <1>3 DEF Clean

\* A residual is updated in place or started for this event and posterior.
LEMMA ResidualTyped ==
  ASSUME NEW r \in Residual, NEW k \in Outcomes, NEW key \in PosteriorKeys,
         NEW s \in Snapshot, NEW splits \in BOOLEAN
  PROVE  ResidualUpdated(r, k, key, s, splits) \in Residual
<1> DEFINE fresh0 == [epoch |-> s["evidence"], policy |-> s["policy"], active |-> TRUE,
                      event |-> Outcome[k].event, key |-> key]
<1>1. s["evidence"] \in Nat /\ s["policy"] \in Nat /\ Outcome[k].event \in Events
  BY LearningAssumption DEF Snapshot, Counters
<1>2. fresh0 \in Residual
  BY <1>1 DEF Residual
<1>3. ASSUME NEW b \in Residual PROVE [b EXCEPT !.active = @ /\ ~splits] \in Residual
  BY DEF Residual
<1> HIDE DEF fresh0
<1>4. ResidualUpdated(r, k, key, s, splits) =
        LET base == IF r.epoch = s["evidence"] /\ r.policy = s["policy"] THEN r ELSE fresh0
        IN  [base EXCEPT !.active = @ /\ ~splits]
  BY DEF ResidualUpdated, fresh0
<1> QED BY <1>2, <1>3, <1>4

-----------------------------------------------------------------------------
(* An outcome. *)

KeyFor(k) == JournalOf(k).keys[Outcome[k].event]

Absorbed(k, change) ==
  Absorb(Current(posteriors[KeyFor(k)], snapshot["evidence"]), k, change)

Action(k, change, diverges) == AssessRevision(Group(KeyFor(k)), k, change, diverges)

\* The posterior stored under m when the step ends in epoch.
Stored(m, k, change, diverges, epoch) ==
  LET action == Action(k, change, diverges)
      p == Absorbed(k, change)
  IN  IF m = KeyFor(k) THEN Revised(p, action, change, epoch)
      ELSE IF RevisionSplits(action) /\ m \in Group(KeyFor(k))
           THEN MemberPosterior(p, m, k, change, epoch)
      ELSE IF m = Parent THEN ParentUpdated(posteriors[m], k, epoch)
      ELSE posteriors[m]

\* The posterior an outcome goes to, and when it may split it.
LEMMA OutcomeFacts ==
  ASSUME StoreInv, NEW k \in Outcomes, NEW change \in BOOLEAN, NEW diverges \in BOOLEAN,
         ApplyBayesianOutcome(k, change, diverges)
  PROVE  /\ Outcome[k].event \in Events /\ KeyFor(k) \in Certificates \cup {Outcome[k].event}
         /\ KeyFor(k) \in PosteriorKeys \ {Parent}
         /\ Clean(Absorbed(k, change))
         /\ Absorbed(k, change).pool \subseteq posteriors[KeyFor(k)].pool \cup {k}
         /\ RevisionSplits(Action(k, change, diverges)) =>
              /\ KeyFor(k) \in Certificates /\ diverges
              /\ Group(KeyFor(k)) = Members[KeyFor(k)]
              /\ MayDiverge(Absorbed(k, change), Members[KeyFor(k)])
<1> DEFINE e == Outcome[k].event
           key == KeyFor(k)
<1>1. e \in Events /\ Outcome[k].journal \in Journals
  BY LearningAssumption
<1>2. e \in DOMAIN JournalOf(k).keys /\ (diverges => MayDiverge(Absorbed(k, change), Group(key)))
  BY DEF ApplyBayesianOutcome, Attributable, Absorbed, KeyFor
<1>3. key \in Certificates \cup {e}
  BY <1>1, <1>2 DEF StoreInv, JournalsOK, KeysOK, KeyFor, JournalOf
<1>4. key \in PosteriorKeys \ {Parent}
  BY <1>1, <1>3, BeliefAssumption DEF PosteriorKeys
<1>5. snapshot["evidence"] \in Nat
  BY DEF StoreInv, StoreTypeOK, Snapshot, Counters
<1>6. Clean(posteriors[key])
  BY <1>4 DEF StoreInv, StoreTypeOK, EvidenceApart, Clean
<1>7. Clean(Absorbed(k, change)) /\ Absorbed(k, change).pool \subseteq posteriors[key].pool \cup {k}
  <2>1. /\ Clean(Current(posteriors[key], snapshot["evidence"]))
        /\ Current(posteriors[key], snapshot["evidence"]).pool \subseteq posteriors[key].pool
    BY <1>5, <1>6, CurrentClean
  <2> QED BY <2>1, AbsorbClean DEF Absorbed
<1>8. ASSUME RevisionSplits(Action(k, change, diverges))
      PROVE  diverges /\ Group(key) # {}
  BY <1>8 DEF RevisionSplits, Action, AssessRevision
<1>9. Group(key) # {} => key \in Certificates /\ Group(key) = Members[key]
  BY DEF Group
<1> QED BY <1>1, <1>2, <1>3, <1>4, <1>7, <1>8, <1>9

\* What an outcome writes.
LEMMA OutcomeWrites ==
  ASSUME StoreInv, NEW k \in Outcomes, NEW change \in BOOLEAN, NEW diverges \in BOOLEAN,
         ApplyBayesianOutcome(k, change, diverges)
  PROVE  LET key == KeyFor(k)
             splits == RevisionSplits(Action(k, change, diverges))
             bumps == IF change THEN InvalidateBumps ELSE IF splits THEN SplitBumps
                      ELSE OutcomeBumps
         IN  /\ Commit(bumps) /\ snapshot' = Advance(snapshot, bumps) /\ snapshot' \in Snapshot
             /\ snapshot'["graph"] >= 1
             /\ snapshot["evidence"] \in Nat /\ snapshot'["evidence"] \in Nat
             /\ snapshot'["evidence"] = IF change THEN snapshot["evidence"] + 1
                                        ELSE snapshot["evidence"]
             /\ posteriors' = [m \in PosteriorKeys |->
                                 Stored(m, k, change, diverges, snapshot'["evidence"])]
             /\ applied' = applied \cup {k}
             /\ exact' = [exact EXCEPT ![Outcome[k].event] =
                            ResidualUpdated(@, k, key, snapshot', splits)]
             /\ general' = [general EXCEPT ![key] = ResidualUpdated(@, k, key, snapshot', splits)]
             /\ certificates' = IF splits THEN [certificates EXCEPT ![key] = Unpublished]
                                ELSE certificates
             /\ index' = [m \in Events |-> IF splits /\ m \in Group(key) THEN NoCertificate
                                           ELSE index[m]]
             /\ UNCHANGED <<entries, bound, journals, graph, snaps, tombstones, ingests,
                            drafts, reading, composing, snapping>>
<1> DEFINE splits == RevisionSplits(Action(k, change, diverges))
           bumps == IF change THEN InvalidateBumps ELSE IF splits THEN SplitBumps
                    ELSE OutcomeBumps
<1>0. snapshot \in Snapshot /\ snapshot["graph"] >= 1
  BY DEF StoreInv, StoreTypeOK
<1>1. Commit(bumps)
  BY DEF ApplyBayesianOutcome, Action, KeyFor
<1>2. snapshot' = Advance(snapshot, bumps)
  BY <1>1 DEF Commit
<1>3. "runtime" \in bumps /\ (change <=> "evidence" \in bumps)
  BY DEF InvalidateBumps, SplitBumps, OutcomeBumps
<1>4. /\ snapshot' \in Snapshot /\ \A c \in Counters : snapshot[c] <= snapshot'[c]
      /\ \A c \in bumps \cap Counters : snapshot'[c] = snapshot[c] + 1
      /\ \A c \in Counters \ bumps : snapshot'[c] = snapshot[c]
  BY <1>0, <1>1, <1>3, CommitMoves
<1>5. /\ snapshot["evidence"] \in Nat /\ snapshot'["evidence"] \in Nat
      /\ snapshot["graph"] \in Nat /\ snapshot'["graph"] \in Nat
      /\ "evidence" \in Counters /\ "graph" \in Counters
  BY <1>0, <1>4 DEF Snapshot, Counters
<1>6. snapshot'["graph"] >= 1
  BY <1>0, <1>4, <1>5
<1>7. snapshot'["evidence"] = IF change THEN snapshot["evidence"] + 1 ELSE snapshot["evidence"]
  BY <1>3, <1>4, <1>5
<1>8. posteriors' = [m \in PosteriorKeys |->
                       Stored(m, k, change, diverges, Advance(snapshot, bumps)["evidence"])]
  BY DEF ApplyBayesianOutcome, Stored, Action, Absorbed, KeyFor
<1>9. /\ applied' = applied \cup {k}
      /\ exact' = [exact EXCEPT ![Outcome[k].event] =
                     ResidualUpdated(@, k, KeyFor(k), Advance(snapshot, bumps), splits)]
      /\ general' = [general EXCEPT ![KeyFor(k)] =
                       ResidualUpdated(@, k, KeyFor(k), Advance(snapshot, bumps), splits)]
      /\ certificates' = IF splits THEN [certificates EXCEPT ![KeyFor(k)] = Unpublished]
                         ELSE certificates
      /\ index' = [m \in Events |-> IF splits /\ m \in Group(KeyFor(k)) THEN NoCertificate
                                    ELSE index[m]]
      /\ UNCHANGED <<entries, bound, journals, graph, snaps, tombstones, ingests,
                     drafts, reading, composing, snapping>>
  BY DEF ApplyBayesianOutcome, Action, KeyFor
<1> HIDE DEF splits, bumps
<1>10. /\ posteriors' = [m \in PosteriorKeys |->
                           Stored(m, k, change, diverges, snapshot'["evidence"])]
       /\ exact' = [exact EXCEPT ![Outcome[k].event] =
                      ResidualUpdated(@, k, KeyFor(k), snapshot', splits)]
       /\ general' = [general EXCEPT ![KeyFor(k)] =
                        ResidualUpdated(@, k, KeyFor(k), snapshot', splits)]
  BY <1>2, <1>8, <1>9
<1> QED BY <1>1, <1>2, <1>4, <1>5, <1>6, <1>7, <1>9, <1>10 DEF splits, bumps

\* Evidence stays apart by event, whatever is shared, reset or split.
LEMMA OutcomeKeeps ==
  ASSUME LearningInv, NEW k \in Outcomes, NEW change \in BOOLEAN, NEW diverges \in BOOLEAN,
         ApplyBayesianOutcome(k, change, diverges)
  PROVE  LearningInv'
<1> DEFINE key == KeyFor(k)
           e == Outcome[k].event
           splits == RevisionSplits(Action(k, change, diverges))
           epoch == snapshot'["evidence"]
           p == Absorbed(k, change)
<1>0. StoreInv /\ RequestInv /\ StoreTypeOK /\ EvidenceApart
  BY DEF LearningInv, StoreInv
<1>1. /\ e \in Events /\ key \in Certificates \cup {e} /\ key \in PosteriorKeys \ {Parent}
      /\ Clean(p) /\ p.pool \subseteq posteriors[key].pool \cup {k}
      /\ splits => key \in Certificates /\ Group(key) = Members[key]
  BY <1>0, OutcomeFacts
<1>2. PICK bumps : /\ Commit(bumps) /\ "runtime" \in bumps /\ "posterior" \in bumps
  BY <1>0, OutcomeWrites DEF InvalidateBumps, SplitBumps, OutcomeBumps
<1>3. /\ snapshot' \in Snapshot /\ snapshot'["graph"] >= 1 /\ epoch \in Nat
      /\ posteriors' = [m \in PosteriorKeys |-> Stored(m, k, change, diverges, epoch)]
      /\ applied' = applied \cup {k}
      /\ exact' = [exact EXCEPT ![e] = ResidualUpdated(@, k, key, snapshot', splits)]
      /\ general' = [general EXCEPT ![key] = ResidualUpdated(@, k, key, snapshot', splits)]
      /\ certificates' = IF splits THEN [certificates EXCEPT ![key] = Unpublished]
                         ELSE certificates
      /\ index' = [m \in Events |-> IF splits /\ m \in Group(key) THEN NoCertificate
                                    ELSE index[m]]
      /\ UNCHANGED <<journals, ingests, drafts, reading, composing>>
  BY <1>0, OutcomeWrites
<1>4. ASSUME NEW m \in PosteriorKeys
      PROVE  /\ Clean(posteriors'[m])
             /\ m \in Events => posteriors'[m].pool \subseteq About(m)
  <2>0. posteriors'[m] = Stored(m, k, change, diverges, epoch)
    BY <1>3
  <2>1. Clean(posteriors[m]) /\ (m \in Events => posteriors[m].pool \subseteq About(m))
    BY <1>0 DEF StoreTypeOK, EvidenceApart, Clean
  <2>2. CASE m = key
    <3>1. /\ Clean(Revised(p, Action(k, change, diverges), change, epoch))
          /\ Revised(p, Action(k, change, diverges), change, epoch).pool = p.pool
      BY <1>1, <1>3, RevisedClean
    <3>2. m \in Events => m = e
      BY <1>1, <2>2, BeliefAssumption
    <3>3. k \in About(e)
      BY DEF About
    <3> QED BY <1>1, <2>0, <2>1, <2>2, <3>1, <3>2, <3>3 DEF Stored
  <2>3. CASE m # key /\ splits /\ m \in Group(key)
    <3>1. m \in Events
      BY <1>1, <2>3, BeliefAssumption
    <3>2. /\ Clean(MemberPosterior(p, m, k, change, epoch))
          /\ MemberPosterior(p, m, k, change, epoch).pool \subseteq About(m)
      BY <1>1, <1>3, <3>1, MemberClean
    <3> QED BY <2>0, <2>3, <3>2 DEF Stored
  <2>4. CASE m # key /\ ~(splits /\ m \in Group(key)) /\ m = Parent
    <3>1. Clean(ParentUpdated(posteriors[m], k, epoch)) /\ m \notin Events
      BY <1>3, <2>1, <2>4, ParentClean, BeliefAssumption
    <3> QED BY <2>0, <2>4, <3>1 DEF Stored
  <2>5. CASE m # key /\ ~(splits /\ m \in Group(key)) /\ m # Parent
    BY <2>0, <2>1, <2>5 DEF Stored
  <2> QED BY <2>2, <2>3, <2>4, <2>5
<1>5. StoreTypeOK'
  <2>1. posteriors' \in [PosteriorKeys -> Posterior]
    BY <1>3, <1>4 DEF Clean
  <2>2. splits \in BOOLEAN
    BY DEF RevisionSplits
  <2> HIDE DEF splits
  <2>3. exact' \in [Events -> Residual] /\ general' \in [PosteriorKeys -> Residual]
    <3>1. \A r \in Residual : ResidualUpdated(r, k, key, snapshot', splits) \in Residual
      BY <1>1, <1>3, <2>2, ResidualTyped
    <3> QED BY <1>0, <1>1, <1>3, <3>1 DEF StoreTypeOK
  <2>4. certificates' \in [Certificates -> [graph : Nat, epoch : Nat]]
    <3>1. Unpublished \in [graph : Nat, epoch : Nat]
      BY DEF Unpublished, Promise!Unpublished
    <3> QED BY <1>0, <1>3, <3>1 DEF StoreTypeOK
  <2>5. index' \in [Events -> Certificates \cup {NoCertificate}] /\ applied' \subseteq Outcomes
    BY <1>0, <1>3 DEF StoreTypeOK
  <2> QED BY <1>3, <2>1, <2>3, <2>4, <2>5 DEF StoreTypeOK
<1>6. EvidenceApart'
  BY <1>4 DEF EvidenceApart, Clean, PosteriorKeys
<1>7. StoreInv'
  BY <1>3, <1>5, <1>6 DEF LearningInv, StoreInv, JournalsOK, KeysOK
<1>8. RequestInv'
  BY <1>0, <1>2, <1>3, CommitKeepsRequests DEF SemanticCounters, Counters
<1> QED BY <1>7, <1>8 DEF LearningInv

-----------------------------------------------------------------------------

\* A preloaded store has no evidence and no requests.
LEMMA LearningStarts == Init => LearningInv
<1> SUFFICES ASSUME Init PROVE LearningInv
  OBVIOUS
<1> USE DEF Init, Promise!MemoryInit
<1>0. Promise!Cardinality(Preloaded) \in Nat
  <2>1. Promise!Cardinality(Preloaded) = Cardinality(Preloaded)
    BY DEF Promise!Cardinality, Cardinality
  <2> QED BY <2>1, LearningAssumption, FS_CardinalityType
<1>1. snapshot \in Snapshot /\ snapshot["graph"] >= 1
  <2> DEFINE n == Promise!Cardinality(Preloaded)
  <2>1. Promise!Counters = Counters
    BY DEF Promise!Counters, Counters
  <2>2. snapshot = [Promise!InitialSnapshot EXCEPT !["runtime"] = n, !["evidence"] = n]
    BY DEF Promise!PreloadedSnapshot
  <2>3. Promise!InitialSnapshot = [c \in Counters |-> IF c \in {"runtime", "evidence"} THEN 0 ELSE 1]
    BY <2>1 DEF Promise!InitialSnapshot
  <2> HIDE DEF n
  <2>4. snapshot = [c \in Counters |-> IF c \in {"runtime", "evidence"} THEN n ELSE 1]
    BY <2>2, <2>3
  <2>5. n \in Nat
    BY <1>0 DEF n
  <2>6. snapshot["graph"] = 1
    BY <2>4 DEF Counters
  <2> HIDE DEF Init
  <2> QED BY <2>4, <2>5, <2>6 DEF Snapshot
<1>2. \A m \in PosteriorKeys : /\ posteriors[m] \in Posterior /\ posteriors[m].pool = {}
                               /\ \A e \in Events : posteriors[m].member[e] = {}
  BY DEF Promise!PosteriorKeys, Promise!Parent, Promise!Absent, Promise!NoEvidence,
         PosteriorKeys, Parent, Posterior
<1>3. Promise!PosteriorKeys = PosteriorKeys
  BY DEF Promise!PosteriorKeys, Promise!Parent, PosteriorKeys, Parent
<1>4. Promise!NoResidual \in Residual
  BY DEF Promise!NoResidual, Residual
<1>5. certificates \in [Certificates -> [graph : Nat, epoch : Nat]]
  BY DEF Promise!Unpublished
<1>6. posteriors \in [PosteriorKeys -> Posterior]
  BY <1>2, <1>3
<1>7. StoreTypeOK
  BY <1>1, <1>3, <1>4, <1>5, <1>6 DEF StoreTypeOK, NoCertificate
<1>8. EvidenceApart
  BY <1>2 DEF EvidenceApart, PosteriorKeys
<1>9. DOMAIN Promise!NoJournal.keys = {} /\ DOMAIN <<>> = {}
  BY DEF Promise!NoJournal
<1>10. JournalsOK
  BY <1>9 DEF JournalsOK, KeysOK
<1>11. IngestsOK /\ ReadingOK /\ ComposingOK
  BY <1>9 DEF IngestsOK, ReadingOK, ComposingOK
<1>12. \A j \in Journals : drafts[j].at = "idle"
  BY DEF Idle
<1>13. DraftsOK
  BY <1>12 DEF DraftsOK, DraftOK
<1> QED BY <1>7, <1>8, <1>10, <1>11, <1>13 DEF LearningInv, StoreInv, RequestInv

\* Every step of the store and of its requests keeps the invariant.
LEMMA LearningKeeps == LearningInv /\ [Next]_vars => LearningInv'
<1> SUFFICES ASSUME LearningInv, [Next]_vars PROVE LearningInv'
  OBVIOUS
<1>1. CASE UNCHANGED vars
  <2>1. StoreInv'
    BY <1>1, StoredSame DEF LearningInv, vars
  <2>2. RequestInv'
    <3>1. UNCHANGED <<journals, certificates, index, bound, snapshot, ingests, drafts, reading,
                      composing>>
      BY <1>1 DEF vars, stored, requests
    <3>2. IngestsOK' /\ ReadingOK' /\ ComposingOK'
      BY <3>1 DEF LearningInv, RequestInv, IngestsOK, ReadingOK, ComposingOK, Active
    <3>3. ASSUME NEW i \in Journals PROVE DraftOK(i)'
      <4>1. DraftOK(i)
        BY DEF LearningInv, RequestInv, DraftsOK
      <4> QED BY <3>1, <4>1 DEF DraftOK, Captured, Unmoved, Outdated, KeyOf, Active
    <3> QED BY <3>1, <3>2, <3>3 DEF LearningInv, RequestInv, DraftsOK
  <2> QED BY <2>1, <2>2 DEF LearningInv
<1>2. CASE \E s \in Snaps : PublishPredictiveSnap(s) \/ RollbackPredictiveSnap(s)
  BY <1>2, SnapKeeps DEF PublishPredictiveSnap, RollbackPredictiveSnap
<1>3. CASE Next /\ ~(\E s \in Snaps : PublishPredictiveSnap(s) \/ RollbackPredictiveSnap(s))
  BY <1>3, EntriesKeep, PublishKeeps, ReopenKeeps, RecallStepKeeps, CheckKeeps, InsertKeeps,
     OtherRequestKeeps, OutcomeKeeps DEF Next
<1> QED BY <1>1, <1>2, <1>3

\* The inductive invariant of the learning store.
THEOREM LearningInvariant == Spec => []LearningInv
BY LearningStarts, LearningKeeps, PTL DEF Spec

\* OwnEvidence: an event's own posterior rests on evidence about that event only,
\* whatever ApplyBayesianOutcome shared, reset or split before.
THEOREM EvidenceIsOwn == Spec => []OwnEvidence
<1>1. LearningInv => OwnEvidence
  BY DEF LearningInv, StoreInv, StoreTypeOK, EvidenceApart, OwnEvidence, About
<1> QED BY <1>1, LearningInvariant, PTL

\* A certificate has two members at least, so besides any event another one.
LEMMA OtherMember ==
  ASSUME NEW c \in Certificates, NEW e
  PROVE  \E f \in Members[c] : f # e
<1> SUFFICES ASSUME \A f \in Members[c] : f = e PROVE FALSE
  OBVIOUS
<1>1. Members[c] = {} \/ Members[c] = {e}
  OBVIOUS
<1>2. Cardinality({}) = 0 /\ Cardinality({e}) = 1
  BY FS_EmptySet, FS_Singleton
<1>3. Cardinality(Members[c]) \in {0, 1}
  BY <1>1, <1>2
<1> QED BY <1>3, BeliefAssumption

\* A split loses nothing: a shared posterior that had to be started again has
\* evidence about one member only, and cannot be split.
LEMMA SplitComplete ==
  ASSUME LearningInv, NEW k \in Outcomes, NEW change \in BOOLEAN, NEW diverges \in BOOLEAN,
         ApplyBayesianOutcome(k, change, diverges),
         RevisionSplits(Action(k, change, diverges))
  PROVE  LET c == KeyFor(k)
         IN  /\ ~posteriors'[c].certified
             /\ \A e \in Members[c] :
                  /\ posteriors'[e].certified /\ posteriors'[e].epoch = snapshot'["evidence"]
                  /\ posteriors'[e].pool # {}
                  /\ snapshot'["evidence"] = snapshot["evidence"]
                       => posteriors[c].member[e] \subseteq posteriors'[e].pool
<1> DEFINE c == KeyFor(k)
           epoch == snapshot'["evidence"]
           q == Current(posteriors[c], snapshot["evidence"])
           p == Absorbed(k, change)
<1>0. StoreInv /\ StoreTypeOK /\ EvidenceApart
  BY DEF LearningInv, StoreInv
<1>1. /\ c \in Certificates /\ c \in PosteriorKeys /\ Clean(p) /\ Group(c) = Members[c]
      /\ MayDiverge(p, Members[c])
  BY <1>0, OutcomeFacts
<1>2. /\ snapshot["evidence"] \in Nat /\ epoch \in Nat
      /\ epoch = IF change THEN snapshot["evidence"] + 1 ELSE snapshot["evidence"]
      /\ \A m \in PosteriorKeys : posteriors'[m] = Stored(m, k, change, diverges, epoch)
  BY <1>0, OutcomeWrites
<1>3. ~posteriors'[c].certified
  <2>1. posteriors'[c] = Revised(p, Action(k, change, diverges), change, epoch)
    BY <1>1, <1>2 DEF Stored
  <2> HIDE DEF p, q, c, epoch
  <2>2. RevisionSplits(Action(k, change, diverges))
          => ~Revised(p, Action(k, change, diverges), change, epoch).certified
    BY <1>1, <1>2, RevisedClean
  <2> QED BY <2>1, <2>2
<1>4. Members[c] \subseteq Events /\ c \notin Members[c]
  BY <1>1, BeliefAssumption
<1>5. Clean(posteriors[c]) /\ p = Absorb(q, k, change)
  BY <1>0, <1>1 DEF StoreTypeOK, EvidenceApart, Clean, Absorbed
<1>6. Clean(q) /\ (q = posteriors[c] \/ \A e \in Events : q.member[e] = {})
  BY <1>2, <1>5, CurrentClean
<1> HIDE DEF q, p
<1>7. /\ \A e \in Events : q.member[e] \subseteq p.member[e]
      /\ \A e \in Events \ {Outcome[k].event} : p.member[e] = q.member[e]
  BY <1>5, <1>6, AbsorbClean
<1>8. q = posteriors[c]
  <2>1. PICK f \in Members[c] : f # Outcome[k].event
    BY <1>1, OtherMember
  <2>2. p.member[f] # {} /\ p.member[f] = q.member[f]
    BY <1>1, <1>4, <1>7, <2>1 DEF MayDiverge
  <2> QED BY <1>4, <1>6, <2>1, <2>2
<1>9. ASSUME NEW e \in Members[c]
      PROVE  /\ posteriors'[e].certified /\ posteriors'[e].epoch = epoch
             /\ posteriors'[e].pool # {}
             /\ epoch = snapshot["evidence"] => posteriors[c].member[e] \subseteq posteriors'[e].pool
  <2>1. e \in Events /\ e \in PosteriorKeys /\ e # c
    BY <1>4 DEF PosteriorKeys
  <2>2. posteriors'[e] = MemberPosterior(p, e, k, change, epoch)
    BY <1>1, <1>2, <2>1 DEF Stored, p
  <2>3. p.member[e] # {}
    BY <1>1 DEF MayDiverge
  <2>4. epoch = snapshot["evidence"] => ~change
    BY <1>2
  <2>5. /\ posteriors'[e].certified /\ posteriors'[e].epoch = epoch /\ posteriors'[e].pool # {}
        /\ ~change => posteriors'[e].pool = p.member[e]
    BY <1>1, <1>2, <2>1, <2>2, <2>3, MemberClean
  <2> QED BY <1>7, <1>8, <2>1, <2>4, <2>5
<1> QED BY <1>3, <1>9

\* SplitMaterialises: when revokeAntiPigeon takes a certificate away, every member
\* has a certified posterior of its own with the evidence the shared one held.
THEOREM SplitsMaterialise == Spec => SplitMaterialises
<1> DEFINE Materialised(c) ==
      /\ ~posteriors'[c].certified
      /\ \A e \in Members[c] :
           /\ posteriors'[e].certified /\ posteriors'[e].epoch = snapshot'["evidence"]
           /\ posteriors'[e].pool # {}
           /\ snapshot'["evidence"] = snapshot["evidence"]
                => posteriors[c].member[e] \subseteq posteriors'[e].pool
<1>1. ASSUME LearningInv, Next, NEW c \in Certificates,
             certificates[c] # Unpublished, certificates'[c] = Unpublished
      PROVE  Materialised(c)
  <2>0. DOMAIN certificates = Certificates
    BY <1>1 DEF LearningInv, StoreInv, StoreTypeOK
  <2>1. CASE \E k \in Outcomes, change, diverges \in BOOLEAN :
               ApplyBayesianOutcome(k, change, diverges)
    <3>1. PICK k \in Outcomes, change \in BOOLEAN, diverges \in BOOLEAN :
                 ApplyBayesianOutcome(k, change, diverges)
      BY <2>1
    <3>2. certificates' = IF RevisionSplits(Action(k, change, diverges))
                          THEN [certificates EXCEPT ![KeyFor(k)] = Unpublished]
                          ELSE certificates
      BY <1>1, <3>1, OutcomeWrites DEF LearningInv
    <3>3. RevisionSplits(Action(k, change, diverges)) /\ c = KeyFor(k)
      BY <1>1, <2>0, <3>2
    <3> QED BY <1>1, <3>1, <3>3, SplitComplete
  <2>2. CASE \E d \in Certificates : PublishAntiPigeonCertificate(d)
    <3>1. PICK d \in Certificates : PublishAntiPigeonCertificate(d)
      BY <2>2
    <3>2. /\ certificates[d] = Unpublished
          /\ certificates' = [certificates EXCEPT ![d] = Grounds(snapshot)]
      BY <3>1 DEF PublishAntiPigeonCertificate
    <3> QED BY <1>1, <2>0, <3>2
  <2>3. CASE UNCHANGED certificates
    BY <1>1, <2>3
  <2> QED BY <1>1, <2>1, <2>2, <2>3
      DEF Next, Put, Delete, DeleteBefore, Removed, ComposeInvariant, PutComposition,
          CompositionStale, DeleteComposition, PublishBound, BindBayesianPolicy, Reopened, Restart,
          Nominate, Capture, ReadKeys, JournalStale, Step, CheckJournal, InsertJournal,
          TestFreshness, ProposeSnap, PublishPredictiveSnap, SnapConflict,
          RollbackPredictiveSnap, WriteSnap, stored
<1>2. LearningInv /\ [Next]_vars =>
        [\A c \in Certificates :
           certificates[c] # Unpublished /\ certificates'[c] = Unpublished => Materialised(c)]_vars
  BY <1>1
<1> QED BY <1>2, LearningInvariant, PTL DEF Spec, SplitMaterialises

-----------------------------------------------------------------------------
(* The in-memory store.  The promise is an instance, so the operators both *)
(* specifications take from Beliefs and Snapshots are shown to be the same *)
(* before the actions are compared.                                        *)

\* The vectors and the counters each mutation moves.
LEMMA SameVectors ==
  /\ \A s, cs : Promise!Advance(s, cs) = Advance(s, cs)
  /\ \A a, b, t, m : Promise!JournalSnapshotCompatible(a, b, t, m)
                       <=> JournalSnapshotCompatible(a, b, t, m)
  /\ Promise!PutBumps = PutBumps /\ Promise!CompositionBumps = CompositionBumps
  /\ Promise!PolicyBumps = PolicyBumps /\ Promise!CertificateBumps = CertificateBumps
  /\ Promise!InvalidateBumps = InvalidateBumps /\ Promise!SnapBumps = SnapBumps
  /\ Promise!OutcomeBumps = OutcomeBumps /\ Promise!SplitBumps = SplitBumps
<1>1. Promise!Counters = Counters /\ Promise!SemanticCounters = SemanticCounters
  BY DEF Promise!Counters, Counters, Promise!SemanticCounters, SemanticCounters
<1>2. \A s, cs : Promise!Advance(s, cs) = Advance(s, cs)
  BY <1>1 DEF Promise!Advance, Advance
<1>3. \A a, b, t, m : Promise!JournalSnapshotCompatible(a, b, t, m)
                        <=> JournalSnapshotCompatible(a, b, t, m)
  BY <1>1 DEF Promise!JournalSnapshotCompatible, JournalSnapshotCompatible
<1>4. /\ Promise!PutBumps = PutBumps /\ Promise!CompositionBumps = CompositionBumps
      /\ Promise!PolicyBumps = PolicyBumps /\ Promise!CertificateBumps = CertificateBumps
      /\ Promise!InvalidateBumps = InvalidateBumps /\ Promise!SnapBumps = SnapBumps
      /\ Promise!OutcomeBumps = OutcomeBumps /\ Promise!SplitBumps = SplitBumps
  BY DEF Promise!PutBumps, PutBumps, Promise!CompositionBumps, CompositionBumps,
         Promise!PolicyBumps, PolicyBumps, Promise!CertificateBumps, CertificateBumps,
         Promise!InvalidateBumps, InvalidateBumps, Promise!SnapBumps, SnapBumps,
         Promise!OutcomeBumps, OutcomeBumps, Promise!SplitBumps, SplitBumps
<1> QED BY <1>2, <1>3, <1>4

\* The posteriors and the residuals.
LEMMA SameBeliefs ==
  /\ Promise!PosteriorKeys = PosteriorKeys /\ Promise!Parent = Parent
  /\ \A p, t : Promise!Current(p, t) = Current(p, t)
  /\ \A p, k, c : Promise!Absorb(p, k, c) = Absorb(p, k, c)
  /\ \A g, k, c, d : Promise!AssessRevision(g, k, c, d) = AssessRevision(g, k, c, d)
  /\ \A a : Promise!RevisionSplits(a) <=> RevisionSplits(a)
  /\ \A p, a, c, t : Promise!Revised(p, a, c, t) = Revised(p, a, c, t)
  /\ \A p, e, k, c, t : Promise!MemberPosterior(p, e, k, c, t) = MemberPosterior(p, e, k, c, t)
  /\ \A p, k, t : Promise!ParentUpdated(p, k, t) = ParentUpdated(p, k, t)
  /\ \A r, k, key, s, b : Promise!ResidualUpdated(r, k, key, s, b) = ResidualUpdated(r, k, key, s, b)
  /\ \A key, k : Promise!ResetAuthorized(key, k) <=> ResetAuthorized(key, k)
  /\ \A p, g : Promise!MayDiverge(p, g) <=> MayDiverge(p, g)
<1>1. /\ Promise!PosteriorKeys = PosteriorKeys /\ Promise!Parent = Parent
      /\ Promise!NoEvidence = NoEvidence
  BY DEF Promise!PosteriorKeys, PosteriorKeys, Promise!Parent, Parent, Promise!NoEvidence,
         NoEvidence
<1>2. \A p, t : Promise!Current(p, t) = Current(p, t)
  BY <1>1 DEF Promise!Current, Current, Promise!Fresh, Fresh
<1>3. \A p, k, c : Promise!Absorb(p, k, c) = Absorb(p, k, c)
  BY DEF Promise!Absorb, Absorb
<1>4. /\ \A k : Promise!ValidationEligible(k) <=> ValidationEligible(k)
      /\ \A key, k : Promise!ResetAuthorized(key, k) <=> ResetAuthorized(key, k)
  BY DEF Promise!ValidationEligible, ValidationEligible, Promise!ResetAuthorized, ResetAuthorized
<1>5. \A g, k, c, d : Promise!AssessRevision(g, k, c, d) = AssessRevision(g, k, c, d)
  BY <1>4 DEF Promise!AssessRevision, AssessRevision
<1>6. \A a : Promise!RevisionSplits(a) <=> RevisionSplits(a)
  BY DEF Promise!RevisionSplits, RevisionSplits
<1>7. \A p, a, c, t : Promise!Revised(p, a, c, t) = Revised(p, a, c, t)
  BY <1>1, <1>6 DEF Promise!Revised, Revised, Promise!RevisionSplits, RevisionSplits
<1>8. \A p, e, k, c, t : Promise!MemberPosterior(p, e, k, c, t) = MemberPosterior(p, e, k, c, t)
  BY <1>1 DEF Promise!MemberPosterior, MemberPosterior
<1>9. \A p, k, t : Promise!ParentUpdated(p, k, t) = ParentUpdated(p, k, t)
  BY <1>2 DEF Promise!ParentUpdated, ParentUpdated
<1>10. \A r, k, key, s, b : Promise!ResidualUpdated(r, k, key, s, b) = ResidualUpdated(r, k, key, s, b)
  BY DEF Promise!ResidualUpdated, ResidualUpdated
<1>11. \A p, g : Promise!MayDiverge(p, g) <=> MayDiverge(p, g)
  BY DEF Promise!MayDiverge, MayDiverge
<1> QED BY <1>1, <1>2, <1>3, <1>4, <1>5, <1>6, <1>7, <1>8, <1>9, <1>10, <1>11

\* The mutations that are one request of one step.
LEMMA EntriesImplement ==
  ASSUME \/ \E x \in Events : Put(x)
         \/ \E x : Delete(x)
         \/ \E before, limit : DeleteBefore(before, limit)
         \/ \E x \in Compositions : DeleteComposition(x)
         \/ \E c \in Bindings : PublishBound(c)
         \/ \E c \in Certificates : PublishAntiPigeonCertificate(c)
         \/ BindBayesianPolicy
  PROVE  Promise!MemoryNext
<1>1. ASSUME NEW x \in Events, Put(x) PROVE Promise!MemoryPut(x)
  <2>1. /\ x \notin entries /\ entries' = entries \cup {x}
        /\ snapshot' = Advance(snapshot, PutBumps)
        /\ Ingest(x)
        /\ UNCHANGED <<certificates, index, bound, posteriors, exact, general, applied,
                       journals, graph, snaps, tombstones>>
    BY <1>1 DEF Put, Commit
  <2>2. Advance(snapshot, PutBumps)["runtime"] = snapshot["runtime"] + 1
    BY DEF Advance, PutBumps, Counters
  <2>3. Promise!Ingested(x, Advance(snapshot, PutBumps))
    BY <2>1, <2>2 DEF Promise!Ingested, Ingest
  <2> QED BY <2>1, <2>3, SameVectors DEF Promise!MemoryPut
<1>2. ASSUME NEW gone \in SUBSET entries, gone # {}, Removed(gone)
      PROVE  Promise!MemoryRemove(gone)
  BY <1>2, SameVectors DEF Removed, Commit, Promise!MemoryRemove
<1>3. ASSUME NEW x, Delete(x) PROVE \E gone \in SUBSET entries : Promise!MemoryRemove(gone)
  <2>1. {x} \in SUBSET entries /\ {x} # {} /\ Removed({x})
    BY <1>3 DEF Delete
  <2> QED BY <1>2, <2>1
<1>4. ASSUME NEW before, NEW limit, DeleteBefore(before, limit)
      PROVE  \E gone \in SUBSET entries : Promise!MemoryRemove(gone)
  BY <1>2, <1>4 DEF DeleteBefore
<1>5. ASSUME NEW x \in Compositions, DeleteComposition(x) PROVE Promise!MemoryDecompose(x)
  BY <1>5, SameVectors DEF DeleteComposition, Commit, Promise!MemoryDecompose
<1>6. ASSUME NEW c \in Bindings, PublishBound(c) PROVE Promise!MemoryBind(c)
  BY <1>6, SameVectors DEF PublishBound, Support, Commit, Promise!MemoryBind
<1>7. ASSUME NEW c \in Certificates, PublishAntiPigeonCertificate(c)
      PROVE  Promise!MemoryPublish(c)
  BY <1>7, SameVectors DEF PublishAntiPigeonCertificate, Grounds, Commit, Promise!MemoryPublish
<1>8. ASSUME BindBayesianPolicy PROVE Promise!MemoryPolicy
  BY <1>8, SameVectors DEF BindBayesianPolicy, Reopened, stored, Promise!MemoryPolicy
<1> QED BY <1>1, <1>3, <1>4, <1>5, <1>6, <1>7, <1>8 DEF Promise!MemoryNext

\* A composition whose base is the snapshot is made under an active certificate.
LEMMA ComposeImplements ==
  ASSUME LearningInv, NEW x \in Compositions, PutComposition(x)
  PROVE  Promise!MemoryCompose(x)
<1> DEFINE c == Authority[x]
<1>1. /\ composing[x] # Idle /\ composing[x].base = snapshot /\ x \notin entries
      /\ c \in CertificateOf(Members[c]) /\ MembersReady(x)
      /\ entries' = entries \cup {x} /\ Ingest(x)
      /\ snapshot' = Advance(snapshot, CompositionBumps)
      /\ UNCHANGED <<certificates, index, bound, posteriors, exact, general, applied,
                     journals, graph, snaps, tombstones>>
  BY DEF PutComposition, Commit
<1>2. Active(c, snapshot)
  BY <1>1 DEF LearningInv, RequestInv, ComposingOK
<1>3. c \in Certificates /\ certificates[c] # Unpublished /\ \A e \in Members[c] : index[e] = c
  BY <1>1 DEF CertificateOf
<1>4. Members[c] # {}
  BY <1>3, OtherMember
<1>5. Promise!MemoryGroup(c) # {} /\ Promise!MemoryActive(c, snapshot)
  BY <1>2, <1>3, <1>4 DEF Promise!MemoryGroup, Promise!MemoryActive, Active, Grounds, Unpublished
<1>6. \A e \in Members[c] : e \in entries /\ Available[e] <= Available[x]
  BY <1>1 DEF MembersReady
<1>7. Advance(snapshot, CompositionBumps)["runtime"] = snapshot["runtime"] + 1
  BY DEF Advance, CompositionBumps, Counters
<1>8. Promise!Ingested(x, Advance(snapshot, CompositionBumps))
  BY <1>1, <1>7 DEF Promise!Ingested, Ingest
<1> QED BY <1>1, <1>5, <1>6, <1>8, SameVectors DEF Promise!MemoryCompose

\* Under a vector with a graph version, an active certificate is a published one.
LEMMA SameKey ==
  ASSUME NEW e, NEW s, Captured(s)
  PROVE  Promise!MemoryKey(e, s) = KeyOf(e, s)
<1>1. Grounds(s) # Unpublished
  BY DEF Grounds, Unpublished, Promise!Unpublished, Captured, Snapshot, Counters
<1>2. \A c : Promise!MemoryActive(c, s) <=> Active(c, s)
  BY <1>1 DEF Promise!MemoryActive, Active, Grounds, Unpublished
<1> QED BY <1>2 DEF Promise!MemoryKey, KeyOf, Support

\* A journal is inserted under a compatible snapshot with the keys the store still
\* gives: keys that have moved are a motion the compatibility test sees.
LEMMA JournalImplements ==
  ASSUME LearningInv, NEW j \in Journals, InsertJournal(j)
  PROVE  Promise!MemoryJournal(j)
<1> DEFINE s == drafts[j].snapshot
           r == [snapshot |-> s, keys |-> drafts[j].keys, macros |-> drafts[j].macros]
<1>1. /\ j \in reading /\ journals' = [journals EXCEPT ![j] = r]
      /\ UNCHANGED <<entries, certificates, index, bound, posteriors, exact, general, applied,
                     graph, snaps, tombstones, snapshot, ingests>>
  BY DEF InsertJournal
<1>2. /\ drafts[j].at = "decided" /\ DraftOK(j) /\ DOMAIN journals = Journals
      /\ JournalSnapshotCompatible(s, snapshot, AsOf, ingests)
  BY <1>1 DEF LearningInv, StoreInv, JournalsOK, RequestInv, ReadingOK, DraftsOK
<1>3. /\ journals[j] = NoJournal /\ Captured(s) /\ DOMAIN drafts[j].keys # {}
      /\ Unmoved(drafts[j].keys, s) \/ Outdated(s)
  BY <1>2 DEF DraftOK
<1>4. r.snapshot = s /\ r.keys = drafts[j].keys
  OBVIOUS
<1> HIDE DEF r
<1>5. journals'[j] = r
  BY <1>1, <1>2
<1>6. ~Outdated(s)
  BY <1>2 DEF JournalSnapshotCompatible, Outdated
<1>7. \A e \in DOMAIN r.keys : r.keys[e] = Promise!MemoryKey(e, s)
  BY <1>3, <1>4, <1>6, SameKey DEF Unmoved
<1>8. r # NoJournal
  <2>1. DOMAIN NoJournal.keys = {}
    BY DEF NoJournal, Promise!NoJournal
  <2> QED BY <1>3, <1>4, <2>1
<1>9. Promise!JournalSnapshotCompatible(s, snapshot, AsOf, ingests)
  BY <1>2, SameVectors
<1> QED BY <1>1, <1>3, <1>4, <1>5, <1>7, <1>8, <1>9 DEF Promise!MemoryJournal, NoJournal

\* An outcome updates, resets and splits what the in-memory store does.
LEMMA OutcomeImplements ==
  ASSUME LearningInv, NEW k \in Outcomes, NEW change \in BOOLEAN, NEW diverges \in BOOLEAN,
         ApplyBayesianOutcome(k, change, diverges)
  PROVE  Promise!MemoryOutcome(k, change, diverges)
<1> DEFINE e == Outcome[k].event
           key == KeyFor(k)
           group == Group(key)
           p == Absorbed(k, change)
           action == Action(k, change, diverges)
           splits == RevisionSplits(action)
           epoch == snapshot'["evidence"]
           bumps == IF change THEN InvalidateBumps ELSE IF splits THEN SplitBumps ELSE OutcomeBumps
           first == [posteriors EXCEPT ![key] = Revised(p, action, change, epoch)]
           second == IF splits
                     THEN [m \in PosteriorKeys |->
                             IF m \in group THEN MemberPosterior(p, m, k, change, epoch)
                             ELSE first[m]]
                     ELSE first
<1>0. /\ StoreInv /\ posteriors \in [PosteriorKeys -> Posterior]
      /\ index \in [Events -> Certificates \cup {NoCertificate}]
  BY DEF LearningInv, StoreInv, StoreTypeOK
<1>1. /\ e \in Events /\ key \in PosteriorKeys \ {Parent}
      /\ splits => key \in Certificates /\ group = Members[key]
  BY <1>0, OutcomeFacts
<1>2. /\ snapshot' = Advance(snapshot, bumps)
      /\ posteriors' = [m \in PosteriorKeys |-> Stored(m, k, change, diverges, epoch)]
      /\ applied' = applied \cup {k}
      /\ exact' = [exact EXCEPT ![e] = ResidualUpdated(@, k, key, snapshot', splits)]
      /\ general' = [general EXCEPT ![key] = ResidualUpdated(@, k, key, snapshot', splits)]
      /\ certificates' = IF splits THEN [certificates EXCEPT ![key] = Unpublished]
                         ELSE certificates
      /\ index' = [m \in Events |-> IF splits /\ m \in group THEN NoCertificate ELSE index[m]]
      /\ UNCHANGED <<entries, bound, journals, graph, snaps, tombstones, ingests>>
  BY <1>0, OutcomeWrites
<1>3. /\ k \notin applied /\ e \in DOMAIN JournalOf(k).keys /\ (change => ResetAuthorized(key, k))
      /\ diverges => MayDiverge(p, group)
  BY DEF ApplyBayesianOutcome, Attributable, KeyFor, Absorbed
<1>4. Promise!MemoryGroup(key) = group
  BY DEF Promise!MemoryGroup, Group, CertificateOf, Unpublished
<1>5. splits => group \subseteq Events /\ key \notin group /\ Parent \notin group
                /\ \A m \in group : index[m] = key
  <2>1. splits => Members[key] \subseteq Events /\ key \notin Events /\ Parent \notin Events
    BY <1>1, BeliefAssumption
  <2>2. splits => group # {}
    BY DEF RevisionSplits, Action, AssessRevision
  <2>3. splits => \A m \in group : index[m] = key
    BY <2>2 DEF Group, CertificateOf
  <2> QED BY <1>1, <2>1, <2>3
<1>6. posteriors' = [second EXCEPT ![Parent] = ParentUpdated(@, k, epoch)]
  <2>1. \A m \in PosteriorKeys :
          first[m] = IF m = key THEN Revised(p, action, change, epoch) ELSE posteriors[m]
    BY <1>0, <1>1
  <2>2. DOMAIN first = PosteriorKeys /\ first = [m \in PosteriorKeys |-> first[m]]
    BY <1>0
  <2> HIDE DEF first
  <2>3. second = [m \in PosteriorKeys |->
                    IF splits /\ m \in group THEN MemberPosterior(p, m, k, change, epoch)
                    ELSE first[m]]
    BY <2>2
  <2> HIDE DEF second
  <2>4. \A m \in PosteriorKeys : second[m] =
          IF m = key THEN Revised(p, action, change, epoch)
          ELSE IF splits /\ m \in group THEN MemberPosterior(p, m, k, change, epoch)
          ELSE posteriors[m]
    BY <1>5, <2>1, <2>3
  <2>5. Parent \in PosteriorKeys /\ Parent # key /\ (splits => Parent \notin group)
    BY <1>1, <1>5 DEF PosteriorKeys
  <2>6. \A m \in PosteriorKeys : Stored(m, k, change, diverges, epoch) =
          IF m = Parent THEN ParentUpdated(second[m], k, epoch) ELSE second[m]
    BY <2>4, <2>5 DEF Stored
  <2>7. [second EXCEPT ![Parent] = ParentUpdated(@, k, epoch)] =
          [m \in PosteriorKeys |->
             IF m = Parent THEN ParentUpdated(second[m], k, epoch) ELSE second[m]]
    BY <2>3, <2>5
  <2> HIDE DEF epoch
  <2> QED BY <1>2, <2>6, <2>7
<1>7. index' = IF splits
               THEN [m \in Events |-> IF m \in group /\ index[m] = key THEN NoCertificate
                                      ELSE index[m]]
               ELSE index
  BY <1>0, <1>2, <1>5
<1> HIDE DEF splits, action, p, group, key, bumps, first, second
<1> DEFINE mkey == journals[Outcome[k].journal].keys[e]
           mgroup == Promise!MemoryGroup(mkey)
           mp == Promise!Absorb(Promise!Current(posteriors[mkey], snapshot["evidence"]), k, change)
           maction == Promise!AssessRevision(mgroup, k, change, diverges)
           msplits == Promise!RevisionSplits(maction)
           mnext == Promise!Advance(snapshot, IF change THEN Promise!InvalidateBumps
                                              ELSE IF msplits THEN Promise!SplitBumps
                                              ELSE Promise!OutcomeBumps)
           mepoch == mnext["evidence"]
           mstored == [posteriors EXCEPT ![mkey] = Promise!Revised(mp, maction, change, mepoch)]
           msplit == IF msplits
                     THEN [m \in Promise!PosteriorKeys |->
                             IF m \in mgroup THEN Promise!MemberPosterior(mp, m, k, change, mepoch)
                             ELSE mstored[m]]
                     ELSE mstored
<1>8. mkey = key
  BY DEF key, KeyFor, JournalOf
<1> HIDE DEF mkey
<1>9. mgroup = group /\ mp = p
  BY <1>4, <1>8, SameBeliefs DEF p, Absorbed, key
<1> HIDE DEF mgroup, mp
<1>10. maction = action
  BY <1>9, SameBeliefs DEF action, group, key, Action
<1> HIDE DEF maction
<1>11. msplits <=> splits
  BY <1>10, SameBeliefs DEF splits
<1> HIDE DEF msplits
<1>12. mnext = snapshot'
  BY <1>2, <1>11, SameVectors DEF bumps
<1> HIDE DEF mnext
<1>13. mstored = first
  BY <1>8, <1>9, <1>10, <1>12, SameBeliefs DEF first
<1> HIDE DEF mstored
<1>14. msplit = second
  BY <1>9, <1>11, <1>12, <1>13, SameBeliefs DEF second
<1> HIDE DEF msplit
<1>15. posteriors' = [msplit EXCEPT ![Promise!Parent] = Promise!ParentUpdated(@, k, mepoch)]
  BY <1>6, <1>12, <1>14, SameBeliefs
<1>16. /\ exact' = [exact EXCEPT ![e] = Promise!ResidualUpdated(@, k, mkey, mnext, msplits)]
       /\ general' = [general EXCEPT ![mkey] = Promise!ResidualUpdated(@, k, mkey, mnext, msplits)]
  <2>1. splits = msplits
    BY <1>11 DEF splits, msplits, RevisionSplits, Promise!RevisionSplits
  <2> QED BY <1>2, <1>8, <1>12, <2>1, SameBeliefs
<1>17. /\ certificates' = IF msplits THEN [certificates EXCEPT ![mkey] = Promise!Unpublished]
                          ELSE certificates
       /\ index' = IF msplits
                   THEN [m \in Events |-> IF m \in mgroup /\ index[m] = mkey
                                          THEN Promise!NoCertificate ELSE index[m]]
                   ELSE index
  BY <1>2, <1>7, <1>8, <1>9, <1>11 DEF Unpublished, NoCertificate
<1>18. /\ k \notin applied /\ e \in DOMAIN journals[Outcome[k].journal].keys
       /\ change => Promise!ResetAuthorized(mkey, k)
       /\ diverges => Promise!MayDiverge(mp, mgroup)
  BY <1>3, <1>8, <1>9, SameBeliefs DEF JournalOf
<1> QED
  BY <1>2, <1>12, <1>15, <1>16, <1>17, <1>18
  DEF Promise!MemoryOutcome, msplit, mstored, mnext, msplits, maction, mp, mgroup, mkey

\* A snap and its rollback take out of use what the in-memory store does.
LEMMA WriteImplements ==
  ASSUME LearningInv, NEW s \in Snaps, NEW record, NEW next, WriteSnap(s, record, next)
  PROVE  Promise!Invalidated(s)
<1>0. /\ posteriors \in [PosteriorKeys -> Posterior]
      /\ exact \in [Events -> Residual] /\ general \in [PosteriorKeys -> Residual]
  BY DEF LearningInv, StoreInv, StoreTypeOK
<1>1. /\ posteriors' = [k \in PosteriorKeys |->
            [posteriors[k] EXCEPT !.certified = @ /\ k \notin Closure[s].keys]]
      /\ exact' = Disabled(exact, s) /\ general' = Disabled(general, s)
  BY DEF WriteSnap
<1>2. ASSUME NEW k \in PosteriorKeys
      PROVE  [posteriors[k] EXCEPT !.certified = @ /\ k \notin Closure[s].keys] =
               IF k \in Closure[s].keys THEN [posteriors[k] EXCEPT !.certified = FALSE]
               ELSE posteriors[k]
  BY <1>0 DEF Posterior
<1> DEFINE Off(x) == [x EXCEPT !.active = @ /\ x.key \notin Closure[s].keys
                                            /\ x.event \notin Closure[s].events]
<1>3. ASSUME NEW r \in Residual PROVE [r EXCEPT !.active = @ /\ ~InClosure(r, s)] = Off(r)
  <2>1. (r.active /\ ~InClosure(r, s))
        = (r.active /\ r.key \notin Closure[s].keys /\ r.event \notin Closure[s].events)
    BY DEF InClosure
  <2> QED BY <2>1
<1>4. exact' = [e \in Events |-> Off(exact[e])] /\ general' = [k \in PosteriorKeys |-> Off(general[k])]
  BY <1>0, <1>1, <1>3 DEF Disabled
<1>5. posteriors' = [k \in PosteriorKeys |->
        IF k \in Closure[s].keys THEN [posteriors[k] EXCEPT !.certified = FALSE]
        ELSE posteriors[k]]
  BY <1>1, <1>2
<1> HIDE DEF Off
<1> QED BY <1>4, <1>5, SameBeliefs DEF Promise!Invalidated, Off

LEMMA SnapsImplement ==
  ASSUME LearningInv, NEW s \in Snaps, PublishPredictiveSnap(s) \/ RollbackPredictiveSnap(s)
  PROVE  Promise!MemorySnap(s) \/ Promise!MemoryRollback(s)
<1>1. CASE PublishPredictiveSnap(s)
  <2> DEFINE record == [previous |-> snapping[s].previous.content, rolledBack |-> FALSE]
             next == [content |-> s, source |-> s]
  <2>1. /\ snapping[s].previous = CurrentGraph /\ snaps[s] = NoSnap
        /\ WriteSnap(s, record, next)
    BY <1>1 DEF PublishPredictiveSnap
  <2>2. snapping[s].previous.content = graph.content
    BY <2>1 DEF CurrentGraph
  <2>3. Promise!Invalidated(s)
    BY <2>1, WriteImplements
  <2>4. /\ snaps' = [snaps EXCEPT ![s] = record] /\ graph' = next
        /\ snapshot' = Advance(snapshot, SnapBumps)
        /\ UNCHANGED <<entries, certificates, index, bound, applied, journals, tombstones, ingests>>
    BY <2>1 DEF WriteSnap, Commit
  <2> QED BY <2>1, <2>2, <2>3, <2>4, SameVectors DEF Promise!MemorySnap, NoSnap
<1>2. CASE RollbackPredictiveSnap(s)
  <2> DEFINE record == [snaps[s] EXCEPT !.rolledBack = TRUE]
             next == [content |-> snaps[s].previous, source |-> "rollback"]
  <2>1. /\ snaps[s] # NoSnap /\ ~snaps[s].rolledBack /\ graph.source = s
        /\ WriteSnap(s, record, next)
    BY <1>2 DEF RollbackPredictiveSnap
  <2>2. Promise!Invalidated(s)
    BY <2>1, WriteImplements
  <2>3. /\ snaps' = [snaps EXCEPT ![s] = record] /\ graph' = next
        /\ snapshot' = Advance(snapshot, SnapBumps)
        /\ UNCHANGED <<entries, certificates, index, bound, applied, journals, tombstones, ingests>>
    BY <2>1 DEF WriteSnap, Commit
  <2> QED BY <2>1, <2>2, <2>3, SameVectors DEF Promise!MemoryRollback, NoSnap
<1> QED BY <1>1, <1>2

\* Implements: the durable store with requests in flight and restarts does nothing
\* the in-memory store with atomic requests does not do.
THEOREM StoreImplementsMemory == Spec => Implements
<1>1. Init => Promise!MemoryInit
  BY DEF Init
<1>2. ASSUME LearningInv, Next PROVE Promise!MemoryNext \/ UNCHANGED Promise!memoryVars
  <2>1. CASE \E k \in Outcomes, change, diverges \in BOOLEAN :
               ApplyBayesianOutcome(k, change, diverges)
    BY <1>2, <2>1, OutcomeImplements DEF Promise!MemoryNext
  <2>2. CASE \E s \in Snaps : PublishPredictiveSnap(s) \/ RollbackPredictiveSnap(s)
    BY <1>2, <2>2, SnapsImplement DEF Promise!MemoryNext
  <2>3. CASE \E j \in Journals : InsertJournal(j)
    BY <1>2, <2>3, JournalImplements DEF Promise!MemoryNext
  <2>4. CASE \E x \in Compositions : PutComposition(x)
    BY <1>2, <2>4, ComposeImplements DEF Promise!MemoryNext
  <2>5. CASE UNCHANGED <<stored, snapshot, ingests>>
    BY <2>5 DEF Promise!memoryVars, stored
  <2> QED BY <1>2, <2>1, <2>2, <2>3, <2>4, <2>5, EntriesImplement
      DEF Next, ComposeInvariant, CompositionStale, Nominate, Capture, ReadKeys, JournalStale,
          Step, CheckJournal, TestFreshness, ProposeSnap, SnapConflict, Restart, Reopened
<1>3. LearningInv /\ [Next]_vars => [Promise!MemoryNext]_(Promise!memoryVars)
  <2>1. UNCHANGED vars => UNCHANGED Promise!memoryVars
    BY DEF vars, stored, Promise!memoryVars
  <2> QED BY <1>2, <2>1
<1> QED BY <1>1, <1>3, LearningInvariant, PTL DEF Spec, Implements, Promise!MemorySpec
=============================================================================
