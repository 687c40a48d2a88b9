---------------------------- MODULE RecallProofs ----------------------------
(***************************************************************************)
(* Theorems about RecallJournal, for any number of recalls, events,        *)
(* outcomes and concurrent requests, any retry limit and any length of the *)
(* ingest history: what a committed recall read is current, epochs are not *)
(* mixed, and an attempt fails only because of a mutation.                 *)
(***************************************************************************)
EXTENDS RecallJournal, TLAPS

Posterior == [certified : BOOLEAN, epoch : Nat, updatedAt : Nat,
              absorbed : [Outcomes -> Nat]]

RecallRecord == [at : Points, attempts : Nat, found : SUBSET Evidence, graph : Nat,
                 captured : Snapshot, active : SUBSET Certificates,
                 read : SUBSET (Certificates \cup Evidence),
                 beliefs : [Evidence -> Posterior],
                 eligible : SUBSET Evidence, since : Nat]

\* The types of the state.  An ingest is remembered under a version that was.
StoreTypeOK ==
  /\ DOMAIN events \subseteq Evidence
  /\ graph \in Nat
  /\ posteriors \in [Evidence -> Posterior]
  /\ snapshot \in Snapshot
  /\ DOMAIN motion \subseteq 1..snapshot["runtime"]
  /\ bound \in [Certificates -> [policy : Nat, epoch : Nat]]
  /\ sending \in [Senders -> Outcomes \cup {Free}]

RecallTypeOK == recalls \in [Recalls -> RecallRecord]

\* The recall has captured the snapshot of its current attempt.
Captured(r) == recalls[r].at \in {"certificates", "posteriors", "commit"}

\* The vector only moves forward, and never without its runtime counter.
CapturedBehind(r) ==
  Captured(r) => /\ \A c \in Counters : recalls[r].captured[c] <= snapshot[c]
                 /\ recalls[r].captured["runtime"] = snapshot["runtime"]
                      => recalls[r].captured = snapshot

\* Certificates are read in order, before the posteriors.
ReadInOrder(r) ==
  /\ recalls[r].at = "certificates" => recalls[r].read \subseteq {"selection"}
  /\ recalls[r].at \in {"posteriors", "commit"} => Certificates \subseteq recalls[r].read
  /\ Captured(r) => recalls[r].active \subseteq recalls[r].read

\* What recall r has read since the capture is what the store holds.
ReadIsCurrent(r) ==
  /\ recalls[r].eligible = EligibleEvidence(r)
  /\ \A c \in Certificates \cap recalls[r].read :
       c \in recalls[r].active <=> Binds(c, recalls[r].captured)
  /\ \A e \in Evidence \cap recalls[r].read : recalls[r].beliefs[e] = posteriors[e]

\* Whatever a recall has read can have moved only together with something the
\* commit notices.
MotionNoticed(r) == Captured(r) /\ Compatible(r) => ReadIsCurrent(r)

\* Every attempt that is behind has a mutation of its own behind it.
AttemptsOvertaken(r) ==
  /\ recalls[r].since + recalls[r].attempts <= snapshot["runtime"]
  /\ Captured(r) => recalls[r].since + recalls[r].attempts
                      <= recalls[r].captured["runtime"]
  /\ Running(r) => recalls[r].attempts < MaxAttempts
  /\ recalls[r].at = "failed" => recalls[r].attempts = MaxAttempts

RecallOK(r) == /\ CapturedBehind(r) /\ ReadInOrder(r) /\ MotionNoticed(r)
               /\ AttemptsOvertaken(r)

\* What a posterior has absorbed is on record, under the epoch it is of.
AbsorbedOnRecord ==
  \A e \in Evidence : \A k \in Outcomes :
    posteriors[e].absorbed[k] > 0
      => k \in DOMAIN applied /\ applied[k] = posteriors[e].epoch

\* The inductive invariant.
RecallInv == /\ StoreTypeOK /\ RecallTypeOK /\ AbsorbedOnRecord
             /\ \A r \in Recalls : RecallOK(r)

-----------------------------------------------------------------------------

\* One mutation: no counter goes back, the runtime counter moves by one.
LEMMA AdvanceMoves ==
  ASSUME NEW s \in Snapshot, NEW cs, "runtime" \in cs
  PROVE  /\ Advance(s, cs) \in Snapshot
         /\ Advance(s, cs)["runtime"] = s["runtime"] + 1
         /\ \A c \in Counters : s[c] <= Advance(s, cs)[c]
BY DEF Advance, Snapshot, Counters

\* The invariant holds in an empty store.
LEMMA RecallStarts == Init => RecallInv
<1> SUFFICES ASSUME Init PROVE RecallInv
  OBVIOUS
<1> USE RecallAssumption
<1>1. /\ InitialSnapshot \in Snapshot /\ InitialSnapshot["runtime"] = 0
      /\ NoPosterior \in Posterior
  BY DEF InitialSnapshot, Snapshot, Counters, NoPosterior, Posterior
<1>2. StoreTypeOK
  BY <1>1 DEF Init, StoreTypeOK, Unpublished
<1>3. NewRecall \in RecallRecord
  BY <1>1 DEF NewRecall, RecallRecord, Points
<1>4. RecallTypeOK
  BY <1>3 DEF Init, RecallTypeOK
<1>5. AbsorbedOnRecord
  BY DEF Init, AbsorbedOnRecord, NoPosterior
<1>6. ASSUME NEW r \in Recalls PROVE RecallOK(r)
  <2>1. recalls[r].at = "start" /\ recalls[r].attempts = 0 /\ recalls[r].since = 0
    BY DEF Init, NewRecall
  <2>2. ~Captured(r)
    BY <2>1 DEF Captured
  <2>3. snapshot["runtime"] = 0
    BY <1>1 DEF Init
  <2> QED BY <2>1, <2>2, <2>3
       DEF RecallOK, CapturedBehind, ReadInOrder, MotionNoticed, AttemptsOvertaken, Running
<1> QED BY <1>2, <1>4, <1>5, <1>6 DEF RecallInv

\* A step of one recall leaves the others what they were.
LEMMA OneRecallSteps ==
  ASSUME RecallInv, NEW r \in Recalls, NEW rec \in RecallRecord,
         recalls' = [recalls EXCEPT ![r] = rec],
         UNCHANGED <<events, graph, bound, posteriors, snapshot, motion, sending, applied>>,
         RecallOK(r)'
  PROVE  RecallInv'
<1>1. RecallTypeOK' /\ \A q \in Recalls \ {r} : recalls'[q] = recalls[q]
  BY DEF RecallInv, RecallTypeOK
<1>2. StoreTypeOK' /\ AbsorbedOnRecord'
  BY DEF RecallInv, StoreTypeOK, AbsorbedOnRecord
<1>3. ASSUME NEW q \in Recalls \ {r} PROVE RecallOK(q)'
  <2>1. RecallOK(q) /\ recalls'[q] = recalls[q]
    BY <1>1 DEF RecallInv
  <2>2. (Captured(q)' <=> Captured(q)) /\ (Compatible(q)' <=> Compatible(q))
        /\ (Running(q)' <=> Running(q))
    BY <2>1 DEF Captured, Compatible, Running
  <2>3. CapturedBehind(q)' /\ ReadInOrder(q)' /\ AttemptsOvertaken(q)'
    BY <2>1, <2>2 DEF RecallOK, CapturedBehind, ReadInOrder, AttemptsOvertaken
  <2>4. ReadIsCurrent(q) => ReadIsCurrent(q)'
    BY <2>1 DEF ReadIsCurrent, EligibleEvidence, Binds
  <2> QED BY <2>1, <2>2, <2>3, <2>4 DEF RecallOK, MotionNoticed
<1> QED BY <1>1, <1>2, <1>3 DEF RecallInv

\* A write that was not the ingest of an event: no recall that captured its
\* snapshot before can be committed after.
LEMMA MutationsNoticed ==
  ASSUME RecallInv, NEW cs, "runtime" \in cs, snapshot' = Advance(snapshot, cs),
         UNCHANGED <<recalls, motion>>, NEW r \in Recalls
  PROVE  RecallOK(r)'
<1>1. RecallOK(r) /\ snapshot \in Snapshot /\ recalls[r] \in RecallRecord
  BY DEF RecallInv, StoreTypeOK, RecallTypeOK
<1>2. /\ snapshot' \in Snapshot /\ snapshot'["runtime"] = snapshot["runtime"] + 1
      /\ \A c \in Counters : snapshot[c] <= snapshot'[c]
  BY <1>1, AdvanceMoves
<1>3. "runtime" \in Counters /\ snapshot["runtime"] \in Nat
      /\ recalls[r].captured \in Snapshot /\ recalls[r].captured["runtime"] \in Nat
      /\ recalls[r].since \in Nat /\ recalls[r].attempts \in Nat
  BY <1>1 DEF Counters, Snapshot, RecallRecord
<1>4. (Captured(r)' <=> Captured(r)) /\ (Running(r)' <=> Running(r))
  BY DEF Captured, Running
<1>5. CapturedBehind(r)'
  <2> SUFFICES ASSUME Captured(r) PROVE CapturedBehind(r)'
    BY <1>4 DEF CapturedBehind
  <2>1. \A c \in Counters : recalls[r].captured[c] <= snapshot[c]
    BY <1>1 DEF RecallOK, CapturedBehind
  <2>2. \A c \in Counters : /\ recalls[r].captured[c] \in Nat /\ snapshot[c] \in Nat
                            /\ snapshot'[c] \in Nat
    BY <1>1, <1>2, <1>3 DEF Snapshot
  <2>3. \A c \in Counters : recalls[r].captured[c] <= snapshot'[c]
    BY <2>1, <2>2, <1>2
  <2>4. recalls[r].captured["runtime"] < snapshot'["runtime"]
    BY <2>1, <1>2, <1>3
  <2> QED BY <2>3, <2>4, <1>2, <1>3 DEF CapturedBehind
<1>6. Captured(r) => ~Compatible(r)'
  <2> SUFFICES ASSUME Captured(r) PROVE ~Compatible(r)'
    OBVIOUS
  <2>1. recalls[r].captured["runtime"] <= snapshot["runtime"]
    BY <1>1, <1>3 DEF RecallOK, CapturedBehind
  <2>2. snapshot'["runtime"] \notin DOMAIN motion
    BY <1>2, <1>3 DEF RecallInv, StoreTypeOK
  <2>3. snapshot'["runtime"] \in (recalls[r].captured["runtime"] + 1)..snapshot'["runtime"]
    BY <1>2, <1>3, <2>1
  <2> QED BY <2>2, <2>3 DEF Compatible, JournalSnapshotCompatible
<1>7. ReadInOrder(r)'
  BY <1>1, <1>4 DEF RecallOK, ReadInOrder
<1>8. AttemptsOvertaken(r)'
  BY <1>1, <1>2, <1>3, <1>4 DEF RecallOK, AttemptsOvertaken
<1> QED BY <1>4, <1>5, <1>6, <1>7, <1>8 DEF RecallOK, MotionNoticed

\* What a store action may read of the state's types.
LEMMA Typed ==
  ASSUME RecallInv, NEW r \in Recalls
  PROVE  /\ recalls[r] \in RecallRecord
         /\ recalls[r].captured \in Snapshot /\ snapshot \in Snapshot
         /\ recalls[r].captured["runtime"] \in Nat /\ snapshot["runtime"] \in Nat
         /\ recalls[r].since \in Nat /\ recalls[r].attempts \in Nat
         /\ RecallOK(r)
BY DEF RecallInv, RecallTypeOK, StoreTypeOK, RecallRecord, Snapshot, Counters

\* A recall that has not captured a snapshot yet owes only its attempts.
LEMMA NotCaptured ==
  ASSUME NEW r \in Recalls, ~Captured(r)', AttemptsOvertaken(r)'
  PROVE  RecallOK(r)'
<1>1. recalls'[r].at \notin {"certificates", "posteriors", "commit"}
  BY DEF Captured
<1> QED BY <1>1 DEF RecallOK, CapturedBehind, ReadInOrder, MotionNoticed, Captured

\* The steps before the capture.
LEMMA BeforeCapture ==
  ASSUME RecallInv, NEW r \in Recalls, Nominate(r) \/ ReadGraph(r)
  PROVE  RecallInv'
<1>0. /\ recalls[r] \in RecallRecord /\ snapshot["runtime"] \in Nat
      /\ recalls[r].since \in Nat /\ recalls[r].attempts \in Nat /\ AttemptsOvertaken(r)
      /\ DOMAIN events \subseteq Evidence /\ graph \in Nat
      /\ recalls \in [Recalls -> RecallRecord]
  BY Typed DEF RecallOK, RecallInv, StoreTypeOK, RecallTypeOK
<1>1. CASE Nominate(r)
  <2> DEFINE rec == [recalls[r] EXCEPT !.at = "graph", !.found = EligibleEvidence(r),
                  !.since = IF recalls[r].attempts = 0 THEN snapshot["runtime"] ELSE @]
  <2>1. recalls' = [recalls EXCEPT ![r] = rec]
    BY <1>1 DEF Nominate, StepTo
  <2>2. rec \in RecallRecord
    BY <1>0 DEF RecallRecord, Points, EligibleEvidence
  <2>3. /\ rec.at = "graph" /\ rec.attempts = recalls[r].attempts
        /\ rec.since = IF recalls[r].attempts = 0 THEN snapshot["runtime"] ELSE recalls[r].since
    BY <1>0 DEF RecallRecord
  <2>4. recalls'[r] = rec /\ UNCHANGED snapshot
    BY <2>1, <1>0, <1>1 DEF Nominate, StepTo
  <2> HIDE DEF rec
  <2>5. ~Captured(r)' /\ Running(r)
    BY <2>3, <2>4, <1>1 DEF Captured, Running, Nominate
  <2>6. AttemptsOvertaken(r)'
    BY <2>3, <2>4, <2>5, <1>0 DEF AttemptsOvertaken
  <2>7. RecallOK(r)'
    BY <2>5, <2>6, NotCaptured
  <2> QED BY <2>1, <2>2, <2>7, <1>1, OneRecallSteps DEF Nominate, StepTo
<1>2. CASE ReadGraph(r)
  <2> DEFINE rec == [recalls[r] EXCEPT !.at = "capture", !.graph = graph]
  <2>1. recalls' = [recalls EXCEPT ![r] = rec]
    BY <1>2 DEF ReadGraph, StepTo
  <2>2. rec \in RecallRecord
    BY <1>0 DEF RecallRecord, Points
  <2>3. /\ rec.at = "capture" /\ rec.attempts = recalls[r].attempts
        /\ rec.since = recalls[r].since
    BY <1>0 DEF RecallRecord
  <2>4. recalls'[r] = rec /\ UNCHANGED snapshot
    BY <2>1, <1>0, <1>2 DEF ReadGraph, StepTo
  <2> HIDE DEF rec
  <2>5. ~Captured(r)' /\ Running(r)
    BY <2>3, <2>4, <1>2 DEF Captured, Running, ReadGraph
  <2>6. AttemptsOvertaken(r)'
    BY <2>3, <2>4, <2>5, <1>0 DEF AttemptsOvertaken
  <2>7. RecallOK(r)'
    BY <2>5, <2>6, NotCaptured
  <2> QED BY <2>1, <2>2, <2>7, <1>2, OneRecallSteps DEF ReadGraph, StepTo
<1> QED BY <1>1, <1>2

\* The capture: nothing has been read under the snapshot yet.
LEMMA CaptureKeeps ==
  ASSUME RecallInv, NEW r \in Recalls, Capture(r)
  PROVE  RecallInv'
<1> DEFINE rec == [recalls[r] EXCEPT !.at = "certificates", !.captured = snapshot,
                     !.active = {}, !.read = {}, !.eligible = EligibleEvidence(r),
                     !.beliefs = [e \in Evidence |-> NoPosterior]]
<1>1. /\ recalls[r] \in RecallRecord /\ snapshot \in Snapshot /\ snapshot["runtime"] \in Nat
      /\ recalls[r].since \in Nat /\ recalls[r].attempts \in Nat /\ AttemptsOvertaken(r)
      /\ DOMAIN events \subseteq Evidence /\ recalls \in [Recalls -> RecallRecord]
  BY Typed DEF RecallOK, RecallInv, StoreTypeOK, RecallTypeOK
<1>2. /\ recalls' = [recalls EXCEPT ![r] = rec] /\ recalls'[r] = rec /\ Running(r)
      /\ UNCHANGED <<events, graph, bound, posteriors, snapshot, motion, sending, applied>>
  BY <1>1 DEF Capture, StepTo, Running
<1>3. NoPosterior \in Posterior
  BY DEF NoPosterior, Posterior
<1>4. rec \in RecallRecord
  BY <1>1, <1>3 DEF RecallRecord, Points, EligibleEvidence
<1>5. /\ rec.at = "certificates" /\ rec.attempts = recalls[r].attempts
      /\ rec.since = recalls[r].since /\ rec.captured = snapshot
      /\ rec.read = {} /\ rec.active = {} /\ rec.eligible = EligibleEvidence(r)
  BY <1>1 DEF RecallRecord
<1> HIDE DEF rec
<1>6. CapturedBehind(r)'
  BY <1>1, <1>2, <1>5 DEF CapturedBehind, Snapshot
<1>7. ReadInOrder(r)'
  BY <1>2, <1>5 DEF ReadInOrder
<1>8. AttemptsOvertaken(r)'
  BY <1>1, <1>2, <1>5 DEF AttemptsOvertaken, Running
<1>9. MotionNoticed(r)'
  BY <1>2, <1>5 DEF MotionNoticed, ReadIsCurrent, EligibleEvidence
<1> QED BY <1>2, <1>4, <1>6, <1>7, <1>8, <1>9, OneRecallSteps DEF RecallOK

\* What a step that goes on under the captured snapshot owes.
LEMMA UnderSnapshot ==
  ASSUME RecallInv, NEW r \in Recalls, NEW rec \in RecallRecord,
         Captured(r), rec.at \in {"certificates", "posteriors", "commit"},
         rec.captured = recalls[r].captured, rec.attempts = recalls[r].attempts,
         rec.since = recalls[r].since, rec.eligible = recalls[r].eligible,
         StepTo(r, rec),
         rec.at = "certificates" => rec.read \subseteq {"selection"},
         rec.at \in {"posteriors", "commit"} => Certificates \subseteq rec.read,
         rec.active \subseteq rec.read,
         ReadIsCurrent(r) =>
           /\ \A c \in Certificates \cap rec.read :
                c \in rec.active <=> Binds(c, rec.captured)
           /\ \A e \in Evidence \cap rec.read : rec.beliefs[e] = posteriors[e]
  PROVE  RecallInv'
<1>1. /\ recalls' = [recalls EXCEPT ![r] = rec] /\ recalls'[r] = rec
      /\ UNCHANGED <<events, graph, bound, posteriors, snapshot, motion, sending, applied>>
  BY DEF StepTo, RecallInv, RecallTypeOK
<1>2. RecallOK(r) /\ Running(r) /\ recalls[r].at # "failed"
  BY DEF RecallInv, Captured, Running
<1>3. CapturedBehind(r)' /\ ReadInOrder(r)'
  BY <1>1, <1>2 DEF RecallOK, CapturedBehind, ReadInOrder
<1>4. AttemptsOvertaken(r)'
  BY <1>1, <1>2 DEF RecallOK, AttemptsOvertaken
<1>5. Compatible(r)' <=> Compatible(r)
  BY <1>1 DEF Compatible
<1>6. ReadIsCurrent(r) => ReadIsCurrent(r)'
  BY <1>1 DEF ReadIsCurrent, EligibleEvidence, Binds
<1>7. MotionNoticed(r)'
  BY <1>2, <1>5, <1>6 DEF RecallOK, MotionNoticed
<1> QED BY <1>1, <1>3, <1>4, <1>7, OneRecallSteps DEF RecallOK

\* The two certificates, one after the other.
LEMMA ReadCertificateKeeps ==
  ASSUME RecallInv, NEW r \in Recalls, ReadCertificate(r)
  PROVE  RecallInv'
<1> DEFINE first == "selection" \notin recalls[r].read
           c == IF first THEN "selection" ELSE "omitted"
           active == IF Binds(c, recalls[r].captured) THEN recalls[r].active \cup {c}
                     ELSE recalls[r].active
           rec == [recalls[r] EXCEPT !.active = active, !.read = recalls[r].read \cup {c},
                     !.at = IF first THEN "certificates"
                            ELSE IF active = Certificates THEN "posteriors"
                            ELSE "commit"]
<1> USE DEF Certificates
<1>1. /\ recalls[r] \in RecallRecord /\ ReadInOrder(r) /\ recalls[r].at = "certificates"
      /\ Captured(r) /\ StepTo(r, rec)
  BY Typed DEF RecallOK, Captured, ReadCertificate
<1>2. /\ recalls[r].read \subseteq {"selection"} /\ recalls[r].active \subseteq recalls[r].read
      /\ c \notin recalls[r].read
  BY <1>1 DEF ReadInOrder
<1>3. rec \in RecallRecord
  BY <1>1 DEF RecallRecord, Points
<1>4. /\ rec.active = active /\ rec.read = recalls[r].read \cup {c}
      /\ rec.at = IF first THEN "certificates"
                  ELSE IF active = Certificates THEN "posteriors" ELSE "commit"
      /\ rec.captured = recalls[r].captured /\ rec.attempts = recalls[r].attempts
      /\ rec.since = recalls[r].since /\ rec.eligible = recalls[r].eligible
      /\ rec.beliefs = recalls[r].beliefs
  BY <1>1 DEF RecallRecord
<1> HIDE DEF rec
<1>5. ReadIsCurrent(r) =>
        /\ \A d \in Certificates \cap rec.read : d \in rec.active <=> Binds(d, rec.captured)
        /\ \A e \in Evidence \cap rec.read : rec.beliefs[e] = posteriors[e]
  BY <1>2, <1>4, RecallAssumption DEF ReadIsCurrent
<1>6. /\ rec.at = "certificates" => rec.read \subseteq {"selection"}
      /\ rec.at \in {"posteriors", "commit"} => Certificates \subseteq rec.read
      /\ rec.active \subseteq rec.read
      /\ rec.at \in {"certificates", "posteriors", "commit"}
  BY <1>2, <1>4
<1> QED BY <1>1, <1>3, <1>4, <1>5, <1>6, UnderSnapshot

\* The posteriors, one event at a time.
LEMMA ReadPosteriorKeeps ==
  ASSUME RecallInv, NEW r \in Recalls, NEW e \in Evidence, ReadPosterior(r, e)
  PROVE  RecallInv'
<1> DEFINE rec == [recalls[r] EXCEPT !.read = @ \cup {e}, !.beliefs[e] = posteriors[e]]
<1>1. /\ recalls[r] \in RecallRecord /\ ReadInOrder(r) /\ recalls[r].at = "posteriors"
      /\ Captured(r) /\ StepTo(r, rec) /\ posteriors[e] \in Posterior
  BY Typed DEF RecallOK, Captured, ReadPosterior, RecallInv, StoreTypeOK
<1>2. rec \in RecallRecord
  BY <1>1 DEF RecallRecord
<1>3. /\ rec.read = recalls[r].read \cup {e} /\ rec.at = "posteriors"
      /\ rec.beliefs = [recalls[r].beliefs EXCEPT ![e] = posteriors[e]]
      /\ rec.captured = recalls[r].captured /\ rec.attempts = recalls[r].attempts
      /\ rec.since = recalls[r].since /\ rec.eligible = recalls[r].eligible
      /\ rec.active = recalls[r].active /\ recalls[r].beliefs \in [Evidence -> Posterior]
  BY <1>1 DEF RecallRecord
<1> HIDE DEF rec
<1>4. Certificates \subseteq rec.read /\ rec.active \subseteq rec.read
  BY <1>1, <1>3 DEF ReadInOrder
<1>5. ReadIsCurrent(r) =>
        /\ \A c \in Certificates \cap rec.read : c \in rec.active <=> Binds(c, rec.captured)
        /\ \A x \in Evidence \cap rec.read : rec.beliefs[x] = posteriors[x]
  BY <1>3, RecallAssumption DEF ReadIsCurrent
<1> QED BY <1>1, <1>2, <1>3, <1>4, <1>5, UnderSnapshot

\* The end of the reads: everything found has been read.
LEMMA AllReadKeeps ==
  ASSUME RecallInv, NEW r \in Recalls, AllRead(r)
  PROVE  RecallInv'
<1> DEFINE rec == [recalls[r] EXCEPT !.at = "commit"]
<1>1. /\ recalls[r] \in RecallRecord /\ ReadInOrder(r) /\ recalls[r].at = "posteriors"
      /\ Captured(r) /\ StepTo(r, rec)
  BY Typed DEF RecallOK, Captured, AllRead
<1>2. rec \in RecallRecord
  BY <1>1 DEF RecallRecord, Points
<1>3. /\ rec.at = "commit" /\ rec.read = recalls[r].read /\ rec.active = recalls[r].active
      /\ rec.captured = recalls[r].captured /\ rec.attempts = recalls[r].attempts
      /\ rec.since = recalls[r].since /\ rec.eligible = recalls[r].eligible
      /\ rec.beliefs = recalls[r].beliefs
  BY <1>1 DEF RecallRecord
<1> HIDE DEF rec
<1>4. ReadIsCurrent(r) =>
        /\ \A c \in Certificates \cap rec.read : c \in rec.active <=> Binds(c, rec.captured)
        /\ \A x \in Evidence \cap rec.read : rec.beliefs[x] = posteriors[x]
  BY <1>3 DEF ReadIsCurrent
<1> QED BY <1>1, <1>2, <1>3, <1>4, UnderSnapshot DEF ReadInOrder

\* A recall leaves the store: it is committed, cancelled, or tried again.  A
\* refusal had a mutation since the capture, so one more attempt is accounted for.
LEMMA LeavingKeeps ==
  ASSUME RecallInv, NEW r \in Recalls, Commit(r) \/ Refuse(r) \/ Cancel(r)
  PROVE  RecallInv'
<1>1. /\ recalls[r] \in RecallRecord /\ recalls \in [Recalls -> RecallRecord]
      /\ snapshot["runtime"] \in Nat /\ snapshot \in Snapshot
      /\ recalls[r].captured \in Snapshot /\ recalls[r].captured["runtime"] \in Nat
      /\ recalls[r].since \in Nat /\ recalls[r].attempts \in Nat
      /\ CapturedBehind(r) /\ AttemptsOvertaken(r)
  BY Typed DEF RecallOK, RecallInv, RecallTypeOK
<1>2. ASSUME NEW at \in {"done", "killed"}, Running(r),
             recalls' = [recalls EXCEPT ![r].at = at],
             UNCHANGED <<events, graph, bound, posteriors, snapshot, motion, sending, applied>>
      PROVE  RecallInv'
  <2> DEFINE rec == [recalls[r] EXCEPT !.at = at]
  <2>1. recalls' = [recalls EXCEPT ![r] = rec] /\ recalls'[r] = rec
    BY <1>1, <1>2
  <2>2. rec \in RecallRecord
    BY <1>1 DEF RecallRecord, Points
  <2>3. rec.at = at /\ rec.attempts = recalls[r].attempts /\ rec.since = recalls[r].since
    BY <1>1 DEF RecallRecord
  <2> HIDE DEF rec
  <2>4. ~Captured(r)' /\ AttemptsOvertaken(r)'
    BY <1>1, <1>2, <2>1, <2>3 DEF Captured, AttemptsOvertaken, Running
  <2>5. RecallOK(r)'
    BY <2>4, NotCaptured
  <2> QED BY <1>2, <2>1, <2>2, <2>5, OneRecallSteps
<1>3. CASE Commit(r)
  BY <1>2, <1>3 DEF Commit, Running
<1>4. CASE Cancel(r)
  <2>1. recalls' = [recalls EXCEPT ![r].at = "killed"]
    BY <1>1, <1>4 DEF Cancel, StepTo
  <2> QED BY <1>2, <1>4, <2>1 DEF Cancel, StepTo
<1>5. CASE Refuse(r)
  <2> DEFINE rec == [recalls[r] EXCEPT !.attempts = @ + 1,
                       !.at = IF recalls[r].attempts + 1 < MaxAttempts
                              THEN "start" ELSE "failed"]
  <2>1. /\ recalls' = [recalls EXCEPT ![r] = rec] /\ recalls'[r] = rec
        /\ UNCHANGED <<events, graph, bound, posteriors, snapshot, motion, sending, applied>>
    BY <1>1, <1>5 DEF Refuse, StepTo
  <2>2. rec \in RecallRecord
    <3>1. recalls[r].attempts + 1 \in Nat
      BY <1>1
    <3> QED BY <3>1, <1>1 DEF RecallRecord, Points
  <2>3. /\ rec.at = IF recalls[r].attempts + 1 < MaxAttempts THEN "start" ELSE "failed"
        /\ rec.attempts = recalls[r].attempts + 1 /\ rec.since = recalls[r].since
    BY <1>1 DEF RecallRecord
  <2> HIDE DEF rec
  <2>4. Captured(r) /\ Running(r) /\ ~Compatible(r)
    BY <1>5 DEF Captured, Running, Refuse
  <2>5. recalls[r].captured["runtime"] < snapshot["runtime"]
    <3>1. recalls[r].captured["runtime"] <= snapshot["runtime"]
      BY <1>1, <2>4 DEF CapturedBehind, Counters
    <3>2. recalls[r].captured # snapshot
      BY <1>1, <2>4 DEF Compatible, JournalSnapshotCompatible
    <3> QED BY <1>1, <2>4, <3>1, <3>2 DEF CapturedBehind
  <2>6. ~Captured(r)'
    BY <2>1, <2>3 DEF Captured
  <2>7. AttemptsOvertaken(r)'
    BY <1>1, <2>1, <2>3, <2>4, <2>5, <2>6, RecallAssumption DEF AttemptsOvertaken, Running
  <2>8. RecallOK(r)'
    BY <2>6, <2>7, NotCaptured
  <2> QED BY <2>1, <2>2, <2>8, OneRecallSteps
<1> QED BY <1>3, <1>4, <1>5

\* A write other than an ingest, of any part of the store.
LEMMA WriteKeeps ==
  ASSUME RecallInv, NEW cs, "runtime" \in cs, snapshot' = Advance(snapshot, cs),
         UNCHANGED <<recalls, motion>>,
         DOMAIN events' \subseteq Evidence, graph' \in Nat,
         posteriors' \in [Evidence -> Posterior],
         bound' \in [Certificates -> [policy : Nat, epoch : Nat]],
         sending' \in [Senders -> Outcomes \cup {Free}], AbsorbedOnRecord'
  PROVE  RecallInv'
<1>1. /\ snapshot \in Snapshot /\ snapshot["runtime"] \in Nat
      /\ DOMAIN motion \subseteq 1..snapshot["runtime"]
  BY DEF RecallInv, StoreTypeOK, Snapshot, Counters
<1>2. snapshot' \in Snapshot /\ snapshot'["runtime"] = snapshot["runtime"] + 1
  BY <1>1, AdvanceMoves
<1>3. StoreTypeOK'
  BY <1>1, <1>2 DEF StoreTypeOK
<1>4. RecallTypeOK'
  BY DEF RecallInv, RecallTypeOK
<1>5. \A r \in Recalls : RecallOK(r)'
  BY MutationsNoticed
<1> QED BY <1>3, <1>4, <1>5 DEF RecallInv

\* An outcome: what a posterior has absorbed already is of the epoch it goes on
\* under, or is forgotten.
LEMMA ApplyKeeps ==
  ASSUME RecallInv, NEW s \in Senders, NEW changed \in BOOLEAN, Apply(s, changed)
  PROVE  RecallInv'
<1> DEFINE k == sending[s]
           e == Outcome[k].event
           cs == IF changed THEN InvalidateBumps ELSE OutcomeBumps
           next == Advance(snapshot, cs)
           old == IF changed THEN NoPosterior ELSE Current(e)
           new == [certified |-> Current(e).certified, epoch |-> next["evidence"],
                   updatedAt |-> Outcome[k].availableAt,
                   absorbed |-> [old.absorbed EXCEPT ![k] = @ + 1]]
<1>1. /\ posteriors \in [Evidence -> Posterior] /\ snapshot \in Snapshot
      /\ sending \in [Senders -> Outcomes \cup {Free}] /\ AbsorbedOnRecord
      /\ snapshot["evidence"] \in Nat
  BY DEF RecallInv, StoreTypeOK, Snapshot, Counters
<1>2. /\ k \in Outcomes /\ e \in Evidence /\ Outcome[k].availableAt \in Nat
      /\ k \notin DOMAIN applied
  BY <1>1, RecallAssumption DEF Apply, OutcomeType
<1>3. /\ "runtime" \in cs /\ snapshot' = next /\ next \in Snapshot /\ next["evidence"] \in Nat
      /\ posteriors' = [posteriors EXCEPT ![e] = new]
      /\ applied' = [x \in DOMAIN applied \cup {k} |->
                       IF x = k THEN next["evidence"] ELSE applied[x]]
      /\ sending' = [sending EXCEPT ![s] = Free]
      /\ UNCHANGED <<events, graph, bound, motion, recalls, journals>>
  <2>1. "runtime" \in cs
    BY DEF InvalidateBumps, OutcomeBumps
  <2>2. next \in Snapshot /\ next["evidence"] \in Nat
    BY <2>1, <1>1, AdvanceMoves DEF Snapshot, Counters
  <2> QED BY <2>1, <2>2 DEF Apply
<1>4. ~changed => next["evidence"] = snapshot["evidence"]
  BY DEF Advance, OutcomeBumps, Counters
<1>5. NoPosterior \in Posterior /\ \A x \in Outcomes : NoPosterior.absorbed[x] = 0
  BY DEF NoPosterior, Posterior
<1>6. /\ Current(e) \in Posterior
      /\ \A x \in Outcomes : Current(e).absorbed[x] > 0 =>
           x \in DOMAIN applied /\ applied[x] = snapshot["evidence"]
  <2>1. CASE posteriors[e] = NoPosterior \/ posteriors[e].epoch # snapshot["evidence"]
    <3>1. Current(e) = [NoPosterior EXCEPT !.certified = TRUE, !.epoch = snapshot["evidence"]]
      BY <2>1 DEF Current
    <3>2. Current(e) = [certified |-> TRUE, epoch |-> snapshot["evidence"], updatedAt |-> 0,
                        absorbed |-> [x \in Outcomes |-> 0]]
      BY <3>1 DEF NoPosterior
    <3> HIDE DEF e
    <3>3. Current(e) \in Posterior
      BY <3>2, <1>1 DEF Posterior
    <3>4. \A x \in Outcomes : Current(e).absorbed[x] = 0
      BY <3>2
    <3> QED BY <3>3, <3>4
  <2>2. CASE ~(posteriors[e] = NoPosterior \/ posteriors[e].epoch # snapshot["evidence"])
    <3>1. Current(e) = posteriors[e]
      BY <2>2 DEF Current
    <3> QED BY <3>1, <2>2, <1>1, <1>2 DEF AbsorbedOnRecord
  <2> QED BY <2>1, <2>2
<1>7. /\ old \in Posterior
      /\ \A x \in Outcomes : old.absorbed[x] > 0 =>
           x \in DOMAIN applied /\ applied[x] = next["evidence"]
  BY <1>4, <1>5, <1>6
<1> HIDE DEF k, e, cs, next, old
<1>8. /\ new \in Posterior /\ new.epoch = next["evidence"]
      /\ \A x \in Outcomes \ {k} : new.absorbed[x] = old.absorbed[x]
  BY <1>2, <1>3, <1>6, <1>7 DEF Posterior
<1> HIDE DEF new
<1>9. posteriors' \in [Evidence -> Posterior] /\ posteriors'[e] = new
      /\ \A x \in Evidence \ {e} : posteriors'[x] = posteriors[x]
  BY <1>1, <1>2, <1>3, <1>8
<1>10. AbsorbedOnRecord'
  <2> SUFFICES ASSUME NEW x \in Evidence, NEW j \in Outcomes, posteriors'[x].absorbed[j] > 0
               PROVE  j \in DOMAIN applied' /\ applied'[j] = posteriors'[x].epoch
    BY DEF AbsorbedOnRecord
  <2>1. CASE x = e /\ j = k
    BY <2>1, <1>3, <1>8, <1>9
  <2>2. CASE x = e /\ j # k
    <3>1. j \in DOMAIN applied /\ applied[j] = next["evidence"]
      BY <2>2, <1>7, <1>8, <1>9
    <3> QED BY <3>1, <2>2, <1>3, <1>8, <1>9
  <2>3. CASE x # e
    <3>1. j \in DOMAIN applied /\ applied[j] = posteriors[x].epoch
      BY <2>3, <1>1, <1>9 DEF AbsorbedOnRecord
    <3>2. j # k
      BY <3>1, <1>2
    <3> QED BY <3>1, <3>2, <2>3, <1>3, <1>9
  <2> QED BY <2>1, <2>2, <2>3
<1>11. sending' \in [Senders -> Outcomes \cup {Free}]
  BY <1>1, <1>3
<1>12. DOMAIN events' \subseteq Evidence /\ graph' \in Nat
       /\ bound' \in [Certificates -> [policy : Nat, epoch : Nat]]
  BY <1>3 DEF RecallInv, StoreTypeOK
<1> QED BY <1>3, <1>9, <1>10, <1>11, <1>12, WriteKeeps DEF next

\* An ingest: a recall that may still be committed was captured before an event
\* that only became available after its as_of.
LEMMA PutKeeps ==
  ASSUME RecallInv, NEW e \in Evidence, NEW t \in Times, Put(e, t)
  PROVE  RecallInv'
<1>1. /\ snapshot \in Snapshot /\ snapshot["runtime"] \in Nat
      /\ DOMAIN motion \subseteq 1..snapshot["runtime"] /\ t \in Nat /\ Retained \in Nat
      /\ DOMAIN events \subseteq Evidence /\ AsOf \in [Recalls -> Nat]
  BY RecallAssumption DEF RecallInv, StoreTypeOK, Snapshot, Counters
<1>2. /\ snapshot' \in Snapshot /\ snapshot'["runtime"] = snapshot["runtime"] + 1
      /\ \A c \in Counters : snapshot[c] <= snapshot'[c]
      /\ \A c \in Counters : c \notin {"runtime", "evidence"} => snapshot'[c] = snapshot[c]
  <2>1. snapshot' = Advance(snapshot, PutBumps) /\ "runtime" \in PutBumps
    BY DEF Put, PutBumps
  <2>2. \A c \in Counters : c \notin {"runtime", "evidence"} => snapshot'[c] = snapshot[c]
    BY <2>1 DEF PutBumps, Advance
  <2> QED BY <1>1, <2>1, <2>2, AdvanceMoves
<1>3. /\ e \notin DOMAIN events
      /\ events' = [x \in DOMAIN events \cup {e} |-> IF x = e THEN t ELSE events[x]]
      /\ motion' = Recorded(snapshot["runtime"] + 1, t)
      /\ UNCHANGED <<graph, bound, posteriors, recalls, journals, sending, applied>>
  BY <1>2 DEF Put
<1>4. /\ DOMAIN motion' \subseteq DOMAIN motion \cup {snapshot["runtime"] + 1}
      /\ \A v \in DOMAIN motion' : motion'[v] = IF v = snapshot["runtime"] + 1 THEN t ELSE motion[v]
  BY <1>3 DEF Recorded
<1>5. StoreTypeOK' /\ RecallTypeOK' /\ AbsorbedOnRecord'
  BY <1>1, <1>2, <1>3, <1>4 DEF RecallInv, StoreTypeOK, RecallTypeOK, AbsorbedOnRecord
<1>6. ASSUME NEW r \in Recalls PROVE RecallOK(r)'
  <2>1. /\ RecallOK(r) /\ recalls[r].captured \in Snapshot
        /\ recalls[r].captured["runtime"] \in Nat
        /\ recalls[r].since \in Nat /\ recalls[r].attempts \in Nat
    BY Typed
  <2>2. (Captured(r)' <=> Captured(r)) /\ (Running(r)' <=> Running(r))
    BY <1>3 DEF Captured, Running
  <2>3. ReadInOrder(r)' /\ AttemptsOvertaken(r)'
    BY <1>1, <1>2, <1>3, <2>1, <2>2 DEF RecallOK, ReadInOrder, AttemptsOvertaken
  <2>4. ASSUME Captured(r)
        PROVE  /\ \A c \in Counters : recalls[r].captured[c] <= snapshot'[c]
               /\ recalls[r].captured["runtime"] <= snapshot["runtime"]
    <3>1. \A c \in Counters : recalls[r].captured[c] <= snapshot[c]
      BY <2>1, <2>4 DEF RecallOK, CapturedBehind
    <3>2. \A c \in Counters : /\ recalls[r].captured[c] \in Nat /\ snapshot[c] \in Nat
                              /\ snapshot'[c] \in Nat
      BY <1>1, <1>2, <2>1 DEF Snapshot
    <3> QED BY <3>1, <3>2, <1>2 DEF Counters
  <2>5. CapturedBehind(r)'
    BY <1>1, <1>2, <1>3, <2>1, <2>2, <2>4 DEF CapturedBehind
  <2>6. ASSUME Captured(r), Compatible(r)' PROVE Compatible(r) /\ t > AsOf[r]
    <3>1. /\ \A c \in SemanticCounters : recalls[r].captured[c] = snapshot'[c]
          /\ \A v \in (recalls[r].captured["runtime"] + 1)..snapshot'["runtime"] :
               v \in DOMAIN motion' /\ motion'[v] > AsOf[r]
      BY <1>3, <2>6 DEF Compatible, JournalSnapshotCompatible
    <3>2. \A c \in SemanticCounters : recalls[r].captured[c] = snapshot[c]
      BY <3>1, <1>2 DEF SemanticCounters
    <3>3. \A v \in (recalls[r].captured["runtime"] + 1)..snapshot["runtime"] :
            v \in DOMAIN motion /\ motion[v] > AsOf[r]
      BY <3>1, <1>1, <1>2, <1>4, <2>1
    <3>4. t > AsOf[r]
      BY <3>1, <1>1, <1>2, <1>4, <2>1, <2>4, <2>6
    <3> QED BY <3>2, <3>3, <3>4, <2>4, <2>6, <1>1, <2>1
         DEF Compatible, JournalSnapshotCompatible
  <2>7. t > AsOf[r] => EligibleEvidence(r)' = EligibleEvidence(r)
    BY <1>1, <1>3 DEF EligibleEvidence
  <2>8. t > AsOf[r] /\ ReadIsCurrent(r) => ReadIsCurrent(r)'
    BY <1>3, <2>7 DEF ReadIsCurrent, Binds
  <2>9. MotionNoticed(r)'
    BY <2>1, <2>2, <2>6, <2>8 DEF RecallOK, MotionNoticed
  <2> QED BY <2>3, <2>5, <2>9 DEF RecallOK
<1> QED BY <1>5, <1>6 DEF RecallInv

\* A restart: every recall that captured a snapshot is gone.
LEMMA RestartKeeps ==
  ASSUME RecallInv, NEW rebind \in BOOLEAN, Restart(rebind)
  PROVE  RecallInv'
<1>1. /\ snapshot \in Snapshot /\ snapshot["runtime"] \in Nat
      /\ recalls \in [Recalls -> RecallRecord]
  BY DEF RecallInv, StoreTypeOK, RecallTypeOK, Snapshot, Counters
<1>2. "runtime" \in PolicyBumps
  BY DEF PolicyBumps
<1>3. snapshot' \in Snapshot /\ snapshot'["runtime"] \in Nat
      /\ snapshot["runtime"] <= snapshot'["runtime"]
  BY <1>1, <1>2, AdvanceMoves DEF Restart
<1>4. StoreTypeOK' /\ AbsorbedOnRecord'
  BY <1>3 DEF Restart, RecallInv, StoreTypeOK, AbsorbedOnRecord
<1>5. ASSUME NEW r \in Recalls PROVE recalls'[r] \in RecallRecord /\ RecallOK(r)'
  <2>1. /\ recalls[r] \in RecallRecord /\ RecallOK(r)
        /\ recalls[r].since \in Nat /\ recalls[r].attempts \in Nat
    BY Typed
  <2>2. CASE Running(r) /\ recalls[r] # NewRecall
    <3>1. recalls'[r] = [recalls[r] EXCEPT !.at = "killed"]
      BY <2>2 DEF Restart
    <3>2. /\ recalls'[r] \in RecallRecord /\ recalls'[r].at = "killed"
          /\ recalls'[r].since = recalls[r].since /\ recalls'[r].attempts = recalls[r].attempts
      BY <2>1, <3>1 DEF RecallRecord, Points
    <3>3. ~Captured(r)' /\ AttemptsOvertaken(r)'
      BY <1>1, <1>3, <2>1, <3>2 DEF Captured, AttemptsOvertaken, RecallOK, Running
    <3> QED BY <3>2, <3>3, NotCaptured
  <2>3. CASE ~(Running(r) /\ recalls[r] # NewRecall)
    <3>1. recalls'[r] = recalls[r]
      BY <2>3 DEF Restart
    <3>2. recalls[r].at \notin {"certificates", "posteriors", "commit"}
      BY <2>3 DEF Running, NewRecall
    <3>3. ~Captured(r)' /\ ~Captured(r)
      BY <3>1, <3>2 DEF Captured
    <3>4. AttemptsOvertaken(r)'
      BY <1>1, <1>3, <2>1, <3>1, <3>3 DEF AttemptsOvertaken, RecallOK, Running
    <3> QED BY <2>1, <3>1, <3>3, <3>4, NotCaptured
  <2> QED BY <2>2, <2>3
<1>6. RecallTypeOK'
  BY <1>5 DEF Restart, RecallTypeOK
<1> QED BY <1>4, <1>5, <1>6 DEF RecallInv

\* The writers of the environment other than ingests and restarts.
LEMMA OtherWritesKeep ==
  ASSUME RecallInv,
         \/ \E e \in Evidence : Delete(e)
         \/ \E closure \in SUBSET Evidence : PublishSnap(closure)
         \/ \E c \in Certificates : PublishCertificate(c)
         \/ AgencyMotion
  PROVE  RecallInv'
<1>1. /\ DOMAIN events \subseteq Evidence /\ graph \in Nat
      /\ posteriors \in [Evidence -> Posterior] /\ snapshot \in Snapshot
      /\ snapshot["policy"] \in Nat /\ snapshot["evidence"] \in Nat
      /\ bound \in [Certificates -> [policy : Nat, epoch : Nat]]
      /\ sending \in [Senders -> Outcomes \cup {Free}] /\ AbsorbedOnRecord
  BY DEF RecallInv, StoreTypeOK, Snapshot, Counters
<1>2. /\ "runtime" \in InvalidateBumps /\ "runtime" \in SnapBumps
      /\ "runtime" \in CertificateBumps /\ "runtime" \in AgencyBumps
  BY DEF InvalidateBumps, SnapBumps, CertificateBumps, AgencyBumps
<1>3. ASSUME NEW e \in Evidence, Delete(e) PROVE RecallInv'
  <2>1. DOMAIN events' \subseteq Evidence
    BY <1>1, <1>3 DEF Delete
  <2>2. AbsorbedOnRecord'
    BY <1>1, <1>3 DEF Delete, AbsorbedOnRecord
  <2> QED BY <1>1, <1>2, <1>3, <2>1, <2>2, WriteKeeps DEF Delete
<1>4. ASSUME NEW closure \in SUBSET Evidence, PublishSnap(closure) PROVE RecallInv'
  <2>1. \A e \in Evidence : /\ posteriors'[e] \in Posterior
                            /\ posteriors'[e].absorbed = posteriors[e].absorbed
                            /\ posteriors'[e].epoch = posteriors[e].epoch
    BY <1>1, <1>4 DEF PublishSnap, Posterior
  <2>2. posteriors' \in [Evidence -> Posterior]
    BY <2>1, <1>4 DEF PublishSnap
  <2>3. AbsorbedOnRecord'
    BY <1>1, <1>4, <2>1 DEF PublishSnap, AbsorbedOnRecord
  <2> QED BY <1>1, <1>2, <1>4, <2>2, <2>3, WriteKeeps DEF PublishSnap
<1>5. ASSUME NEW c \in Certificates, PublishCertificate(c) PROVE RecallInv'
  <2>1. bound' \in [Certificates -> [policy : Nat, epoch : Nat]]
    BY <1>1, <1>5 DEF PublishCertificate
  <2>2. AbsorbedOnRecord'
    BY <1>1, <1>5 DEF PublishCertificate, AbsorbedOnRecord
  <2> QED BY <1>1, <1>2, <1>5, <2>1, <2>2, WriteKeeps DEF PublishCertificate
<1>6. CASE AgencyMotion
  <2>1. AbsorbedOnRecord'
    BY <1>1, <1>6 DEF AgencyMotion, AbsorbedOnRecord
  <2> QED BY <1>1, <1>2, <1>6, <2>1, WriteKeeps DEF AgencyMotion
<1> QED BY <1>3, <1>4, <1>5, <1>6

\* Steps that leave everything of the invariant alone but the requests in
\* progress.
LEMMA QuietKeeps ==
  ASSUME RecallInv, sending' \in [Senders -> Outcomes \cup {Free}],
         UNCHANGED <<events, graph, bound, posteriors, snapshot, motion, recalls, applied>>
  PROVE  RecallInv'
<1>1. StoreTypeOK' /\ RecallTypeOK' /\ AbsorbedOnRecord'
  BY DEF RecallInv, StoreTypeOK, RecallTypeOK, AbsorbedOnRecord
<1>2. \A r \in Recalls : RecallOK(r)'
  BY DEF RecallInv, RecallOK, CapturedBehind, ReadInOrder, MotionNoticed, AttemptsOvertaken,
         Captured, Running, Compatible, ReadIsCurrent, EligibleEvidence, Binds
<1> QED BY <1>1, <1>2 DEF RecallInv

\* Every step of the recall, of an outcome or of the environment.
LEMMA RecallKeeps == RecallInv /\ [Next]_vars => RecallInv'
<1> SUFFICES ASSUME RecallInv, [Next]_vars PROVE RecallInv'
  OBVIOUS
<1>0. sending \in [Senders -> Outcomes \cup {Free}]
  BY DEF RecallInv, StoreTypeOK
<1>1. ASSUME NEW r \in Recalls, RecallStep(r) PROVE RecallInv'
  BY <1>1, BeforeCapture, CaptureKeeps, ReadCertificateKeeps, ReadPosteriorKeeps,
     AllReadKeeps, LeavingKeeps DEF RecallStep
<1>2. ASSUME NEW r \in Recalls, Cancel(r) PROVE RecallInv'
  BY <1>2, LeavingKeeps
<1>3. ASSUME NEW s \in Senders, OutcomeStep(s) PROVE RecallInv'
  <2>1. ASSUME NEW k \in Outcomes, Check(s, k) PROVE RecallInv'
    BY <1>0, <2>1, QuietKeeps DEF Check
  <2>2. CASE ApplyDuplicate(s)
    BY <1>0, <2>2, QuietKeeps DEF ApplyDuplicate
  <2> QED BY <1>3, <2>1, <2>2, ApplyKeeps DEF OutcomeStep
<1>4. CASE Write
  BY <1>4, PutKeeps, RestartKeeps, OtherWritesKeep DEF Write
<1>5. CASE UNCHANGED vars
  BY <1>0, <1>5, QuietKeeps DEF vars
<1> QED BY <1>1, <1>2, <1>3, <1>4, <1>5 DEF Next

\* The invariant holds throughout.
THEOREM RecallInvariant == Spec => []RecallInv
BY RecallStarts, RecallKeeps, PTL DEF Spec

\* EpochsNotMixed: ApplyBayesianOutcome never lets a posterior mix outcomes of
\* different evidence epochs.
THEOREM EpochsStayApart == Spec => []EpochsNotMixed
<1>1. RecallInv /\ DOMAIN applied \subseteq Outcomes => EpochsNotMixed
  BY DEF RecallInv, AbsorbedOnRecord, EpochsNotMixed
<1>2. Spec => [](DOMAIN applied \subseteq Outcomes)
  <2>1. Init => DOMAIN applied \subseteq Outcomes
    BY DEF Init
  <2>2. RecallInv /\ DOMAIN applied \subseteq Outcomes /\ [Next]_vars
          => (DOMAIN applied \subseteq Outcomes)'
    <3> SUFFICES ASSUME RecallInv, DOMAIN applied \subseteq Outcomes, Next
                 PROVE  DOMAIN applied' \subseteq Outcomes
      BY DEF vars
    <3>1. sending \in [Senders -> Outcomes \cup {Free}]
      BY DEF RecallInv, StoreTypeOK
    <3>2. ASSUME NEW s \in Senders, NEW changed \in BOOLEAN, Apply(s, changed)
          PROVE  DOMAIN applied' \subseteq Outcomes
      BY <3>1, <3>2 DEF Apply
    <3> QED BY <3>2 DEF Next, RecallStep, OutcomeStep, Write, Nominate, ReadGraph, Capture,
              ReadCertificate, ReadPosterior, AllRead, Commit, Refuse, Cancel, StepTo, Check,
              ApplyDuplicate, Put, Delete, PublishSnap, PublishCertificate, AgencyMotion, Restart
  <2> QED BY <2>1, <2>2, RecallInvariant, PTL DEF Spec
<1> QED BY <1>1, <1>2, RecallInvariant, PTL

\* FailureNeedsMotion: Recall gives up only after a mutation of the store for
\* every one of its attempts.
THEOREM FailuresHaveMotion == Spec => []FailureNeedsMotion
<1>1. RecallInv => FailureNeedsMotion
  BY DEF RecallInv, RecallOK, AttemptsOvertaken, FailureNeedsMotion
<1> QED BY <1>1, RecallInvariant, PTL

\* ReadsCurrent: PutBayesianJournal commits a recall only while all it read since
\* its capture is what the store holds, whatever the other requests did between.
THEOREM CommitsAreCurrent == Spec => ReadsCurrent
<1> DEFINE Now == \A r \in Recalls : Commits(r) =>
             /\ recalls[r].eligible = EligibleEvidence(r)
             /\ \A c \in Certificates :
                  c \in recalls[r].active <=> Binds(c, recalls[r].captured)
             /\ \A e \in recalls[r].read \cap Evidence : recalls[r].beliefs[e] = posteriors[e]
<1>1. RecallInv /\ [Next]_vars => [Now]_vars
  <2> SUFFICES ASSUME RecallInv, Next, NEW r \in Recalls, Commits(r)
               PROVE  /\ recalls[r].eligible = EligibleEvidence(r)
                      /\ \A c \in Certificates :
                           c \in recalls[r].active <=> Binds(c, recalls[r].captured)
                      /\ \A e \in recalls[r].read \cap Evidence :
                           recalls[r].beliefs[e] = posteriors[e]
    OBVIOUS
  <2>1. journals' # journals
    BY DEF Commits
  <2>2. PICK q \in Recalls : Commit(q)
    BY <2>1 DEF Next, RecallStep, OutcomeStep, Write, Nominate, ReadGraph, Capture,
         ReadCertificate, ReadPosterior, AllRead, Refuse, Cancel, StepTo, Check,
         ApplyDuplicate, Apply, Put, Delete, PublishSnap, PublishCertificate, AgencyMotion,
         Restart
  <2>3. q = r
    BY <2>2 DEF Commit, Commits
  <2>4. RecallOK(r) /\ recalls[r].at = "commit" /\ Captured(r) /\ Compatible(r)
    BY <2>2, <2>3 DEF RecallInv, Commit, Captured
  <2>5. ReadIsCurrent(r) /\ Certificates \subseteq recalls[r].read
    BY <2>4 DEF RecallOK, MotionNoticed, ReadInOrder
  <2> QED BY <2>5 DEF ReadIsCurrent
<1> QED BY <1>1, RecallInvariant, PTL DEF Spec, ReadsCurrent
=============================================================================
