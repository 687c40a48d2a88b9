--------------------------- MODULE RecallJournal ---------------------------
(***************************************************************************)
(* Recall and learning: a recall reads evidence, the predictive graph, the *)
(* certificates and the posteriors in separate calls to the store, without *)
(* a lock around them, and is journalled only if nothing that matters      *)
(* moved since its snapshot was captured; an outcome reported against the  *)
(* journal feeds the posteriors that later recalls read.                   *)
(*                                                                         *)
(* One tenant.  Every write of the store is one transaction under writeMu, *)
(* hence one action.  A posterior is abstracted to the outcomes it has     *)
(* absorbed, a graph to the number of publications; the detector's verdict *)
(* that the law of an event changed is a free choice.  Every event keeps a *)
(* posterior of its own (no Anti-Pigeon certificate), residuals move with  *)
(* the posteriors, and certificates do not run out by time.                *)
(***************************************************************************)
EXTENDS Snapshots, FiniteSets

CONSTANTS
  Recalls,       \* recall requests
  Evidence,      \* event identifiers
  Outcomes,      \* idempotency keys of outcome requests
  Senders,       \* concurrent outcome requests in the daemon
  AsOf,          \* AsOf[r]: logical time of recall r
  Outcome,       \* Outcome[k]: what the request with key k reports
  Times,         \* availability times of events
  MaxAttempts,   \* snapshotAttempts of Recall
  Retained,      \* retainedVersions of recordIngestMotion
  MaxRuntime,    \* bound: no writer of the environment beyond this version
  Writers        \* what the environment does

WriterKinds == {"put", "delete", "snap", "certificate", "agency", "cancel",
                "restart"}

Certificates == {"selection", "omitted"}

OutcomeType == [recall : Recalls, event : Evidence, availableAt : Nat,
                source : {"full_stream", "selected"}]

ASSUME RecallAssumption ==
  /\ AsOf \in [Recalls -> Nat]
  /\ Outcome \in [Outcomes -> OutcomeType]
  /\ \A k \in Outcomes : Outcome[k].availableAt >= AsOf[Outcome[k].recall]
  /\ Times \subseteq Nat /\ Certificates \cap Evidence = {}
  /\ MaxAttempts \in Nat \ {0} /\ Retained \in Nat /\ MaxRuntime \in Nat
  /\ Writers \subseteq WriterKinds

VARIABLES
  events,      \* stored evidence: event -> availability time
  graph,       \* publications of the predictive graph so far
  bound,       \* per certificate: the policy version and epoch it binds
  posteriors,  \* event -> posterior
  snapshot,    \* the runtime version vector
  motion,      \* ingestMotion: runtime version -> availability time
  recalls,     \* recalls in progress
  journals,    \* committed journals: recall -> decision
  sending,     \* outcome requests in progress: sender -> key, or Free
  applied      \* durable outcome records: key -> epoch they were counted in

vars == <<events, graph, bound, posteriors, snapshot, motion, recalls,
          journals, sending, applied>>

Free == "free"

\* A posterior: how often each outcome was counted, under which epoch, and
\* the availability time of the outcome applied last.
NoPosterior == [certified |-> FALSE, epoch |-> 0, updatedAt |-> 0,
                absorbed |-> [k \in Outcomes |-> 0]]

\* A certificate that was never published binds the impossible version 0.
Unpublished == [policy |-> 0, epoch |-> 0]

Points == {"start", "graph", "capture", "certificates", "posteriors",
           "commit", "done", "failed", "killed"}

\* Two fields are not in the code: eligible, the evidence the request could
\* see when its snapshot was captured, and since, the runtime version the
\* first attempt started at.
NewRecall == [at |-> "start", attempts |-> 0, found |-> {}, graph |-> 0,
              captured |-> InitialSnapshot, active |-> {}, read |-> {},
              beliefs |-> [e \in Evidence |-> NoPosterior],
              eligible |-> {}, since |-> 0]

EligibleEvidence(r) == {e \in DOMAIN events : events[e] <= AsOf[r]}

-----------------------------------------------------------------------------
(* The steps of a recall: one per call to the store. *)

StepTo(r, changes) ==
  /\ recalls' = [recalls EXCEPT ![r] = changes]
  /\ UNCHANGED <<events, graph, bound, posteriors, snapshot, motion, journals,
                 sending, applied>>

\* Search: the evidence available at as_of.
Nominate(r) ==
  /\ recalls[r].at = "start"
  /\ StepTo(r, [recalls[r] EXCEPT !.at = "graph", !.found = EligibleEvidence(r),
                  !.since = IF recalls[r].attempts = 0 THEN snapshot["runtime"] ELSE @])

\* GetPredictiveGraph
ReadGraph(r) ==
  /\ recalls[r].at = "graph"
  /\ StepTo(r, [recalls[r] EXCEPT !.at = "capture", !.graph = graph])

\* Snapshot: what the journal will be compared with.
Capture(r) ==
  /\ recalls[r].at = "capture"
  /\ StepTo(r, [recalls[r] EXCEPT !.at = "certificates", !.captured = snapshot,
                  !.active = {}, !.read = {}, !.eligible = EligibleEvidence(r),
                  !.beliefs = [e \in Evidence |-> NoPosterior]])

\* selectionCertificateActive, omittedInfluenceCertificateActive
Binds(c, s) == bound[c] = [policy |-> s["policy"], epoch |-> s["evidence"]]

\* The two certificates are read one after the other; posteriors are read
\* only when both are active.
ReadCertificate(r) ==
  LET rec == recalls[r]
      first == "selection" \notin rec.read
      c == IF first THEN "selection" ELSE "omitted"
      active == IF Binds(c, rec.captured) THEN rec.active \cup {c} ELSE rec.active
  IN /\ rec.at = "certificates"
     /\ StepTo(r, [rec EXCEPT !.active = active, !.read = rec.read \cup {c},
                     !.at = IF first THEN "certificates"
                            ELSE IF active = Certificates THEN "posteriors"
                            ELSE "commit"])

\* GetBayesianPosterior for each nominated event.
ReadPosterior(r, e) ==
  /\ recalls[r].at = "posteriors" /\ e \in recalls[r].found \ recalls[r].read
  /\ StepTo(r, [recalls[r] EXCEPT !.read = @ \cup {e}, !.beliefs[e] = posteriors[e]])

AllRead(r) ==
  /\ recalls[r].at = "posteriors" /\ recalls[r].found \subseteq recalls[r].read
  /\ StepTo(r, [recalls[r] EXCEPT !.at = "commit"])

\* The posterior enters the score: certified, of the captured epoch, and not
\* updated after as_of.
Usable(r, e) ==
  LET p == recalls[r].beliefs[e]
  IN /\ e \in recalls[r].read
     /\ p.certified
     /\ p.epoch = recalls[r].captured["evidence"]
     /\ p.updatedAt <= AsOf[r]

Compatible(r) ==
  JournalSnapshotCompatible(recalls[r].captured, snapshot, AsOf[r], motion)

\* PutBayesianJournal: the decision becomes durable.
Commit(r) ==
  /\ recalls[r].at = "commit" /\ Compatible(r)
  /\ recalls' = [recalls EXCEPT ![r].at = "done"]
  /\ journals' = [x \in DOMAIN journals \cup {r} |->
       IF x # r THEN journals[x]
       ELSE [found |-> recalls[r].found, captured |-> recalls[r].captured,
             active |-> recalls[r].active,
             used |-> {k \in Outcomes : \E e \in Evidence :
                         Usable(r, e) /\ recalls[r].beliefs[e].absorbed[k] > 0}]]
  /\ UNCHANGED <<events, graph, bound, posteriors, snapshot, motion, sending,
                 applied>>

\* Fault: a retry compares with the snapshot captured first.
RefuseKeepingSnapshot(r) ==
  /\ recalls[r].at = "commit" /\ ~Compatible(r)
  /\ StepTo(r, [recalls[r] EXCEPT !.attempts = @ + 1,
                  !.at = IF recalls[r].attempts + 1 < MaxAttempts
                         THEN "commit" ELSE "failed"])

\* Fault: the last attempt is not given up.
RefuseForever(r) ==
  /\ recalls[r].at = "commit" /\ ~Compatible(r)
  /\ recalls[r].attempts + 1 < MaxAttempts
  /\ StepTo(r, [recalls[r] EXCEPT !.attempts = @ + 1, !.at = "start"])

\* ErrStaleSnapshot: the whole recall is repeated, a bounded number of times.
Refuse(r) ==
  /\ recalls[r].at = "commit" /\ ~Compatible(r)
  /\ StepTo(r, [recalls[r] EXCEPT !.attempts = @ + 1,
                  !.at = IF recalls[r].attempts + 1 < MaxAttempts
                         THEN "start" ELSE "failed"])

Running(r) == recalls[r].at \notin {"done", "failed", "killed"}

\* The caller gives up: the context ends between or within attempts.
Cancel(r) ==
  /\ "cancel" \in Writers
  /\ Running(r) /\ recalls[r] # NewRecall
  /\ StepTo(r, [recalls[r] EXCEPT !.at = "killed"])

-----------------------------------------------------------------------------
(* Outcomes. *)

\* ObserveBayesianOutcome up to its call of the store: the journal is durable
\* and immutable, but the current snapshot is read outside the lock.
Check(s, k) ==
  LET r == Outcome[k].recall
  IN /\ sending[s] = Free
     /\ r \in DOMAIN journals /\ Outcome[k].event \in journals[r].found
     /\ Outcome[k].source = "selected"
        => /\ "selection" \in journals[r].active
           /\ \A c \in {"policy", "evidence"} :
                journals[r].captured[c] = snapshot[c]
     /\ sending' = [sending EXCEPT ![s] = k]
     /\ UNCHANGED <<events, graph, bound, posteriors, snapshot, motion, recalls,
                    journals, applied>>

\* Fault: a posterior of an earlier epoch is carried on.
CurrentKept(e) ==
  IF posteriors[e] = NoPosterior
  THEN [NoPosterior EXCEPT !.certified = TRUE, !.epoch = snapshot["evidence"]]
  ELSE [posteriors[e] EXCEPT !.epoch = snapshot["evidence"]]

\* The posterior an outcome is added to: a new one when there is none, or
\* none of the current epoch.
Current(e) ==
  IF posteriors[e] = NoPosterior \/ posteriors[e].epoch # snapshot["evidence"]
  THEN [NoPosterior EXCEPT !.certified = TRUE, !.epoch = snapshot["evidence"]]
  ELSE posteriors[e]

\* ApplyBayesianOutcome of an outcome that is already recorded.
ApplyDuplicate(s) ==
  /\ sending[s] \in DOMAIN applied
  /\ sending' = [sending EXCEPT ![s] = Free]
  /\ UNCHANGED <<events, graph, bound, posteriors, snapshot, motion, recalls,
                 journals, applied>>

\* ApplyBayesianOutcome: the outcome is counted, or it reveals a change and
\* the posterior starts again from it under a new epoch.
Apply(s, changed) ==
  LET k == sending[s]
      e == Outcome[k].event
      next == Advance(snapshot, IF changed THEN InvalidateBumps ELSE OutcomeBumps)
      old == IF changed THEN NoPosterior ELSE Current(e)
  IN /\ k # Free /\ k \notin DOMAIN applied
     /\ posteriors' = [posteriors EXCEPT ![e] =
          [certified |-> Current(e).certified, epoch |-> next["evidence"],
           updatedAt |-> Outcome[k].availableAt,
           absorbed |-> [old.absorbed EXCEPT ![k] = @ + 1]]]
     /\ snapshot' = next
     /\ applied' = [x \in DOMAIN applied \cup {k} |->
                      IF x = k THEN next["evidence"] ELSE applied[x]]
     /\ sending' = [sending EXCEPT ![s] = Free]
     /\ UNCHANGED <<events, graph, bound, motion, recalls, journals>>

-----------------------------------------------------------------------------
(* The other writers of the store. *)

Writes(kind) == kind \in Writers /\ snapshot["runtime"] < MaxRuntime

\* recordIngestMotion
Recorded(version, t) ==
  [v \in (DOMAIN motion \cup {version}) \ {version - Retained} |->
     IF v = version THEN t ELSE motion[v]]

Put(e, t) ==
  /\ Writes("put")
  /\ e \notin DOMAIN events
  /\ events' = [x \in DOMAIN events \cup {e} |-> IF x = e THEN t ELSE events[x]]
  /\ snapshot' = Advance(snapshot, PutBumps)
  /\ motion' = Recorded(snapshot'["runtime"], t)
  /\ UNCHANGED <<graph, bound, posteriors, recalls, journals, sending, applied>>

Delete(e) ==
  /\ Writes("delete")
  /\ e \in DOMAIN events
  /\ events' = [x \in DOMAIN events \ {e} |-> events[x]]
  /\ snapshot' = Advance(snapshot, InvalidateBumps)
  /\ UNCHANGED <<graph, bound, posteriors, motion, recalls, journals, sending,
                 applied>>

\* PublishPredictiveSnap, RollbackPredictiveSnap: a new graph; the posteriors
\* in its dependency closure lose their certification.
PublishSnap(closure) ==
  /\ Writes("snap")
  /\ graph' = graph + 1
  /\ posteriors' = [e \in Evidence |->
       IF e \in closure THEN [posteriors[e] EXCEPT !.certified = FALSE]
       ELSE posteriors[e]]
  /\ snapshot' = Advance(snapshot, SnapBumps)
  /\ UNCHANGED <<events, bound, motion, recalls, journals, sending, applied>>

\* PublishSelectionCertificate, PublishOmittedInfluenceCertificate
PublishCertificate(c) ==
  /\ Writes("certificate")
  /\ bound' = [bound EXCEPT ![c] = [policy |-> snapshot["policy"],
                                    epoch |-> snapshot["evidence"]]]
  /\ snapshot' = Advance(snapshot, CertificateBumps)
  /\ UNCHANGED <<events, graph, posteriors, motion, recalls, journals, sending,
                 applied>>

\* Any operation of the agency queue.
AgencyMotion ==
  /\ Writes("agency")
  /\ snapshot' = Advance(snapshot, AgencyBumps)
  /\ UNCHANGED <<events, graph, bound, posteriors, motion, recalls, journals,
                 sending, applied>>

\* The daemon is restarted, perhaps under another policy: requests die and
\* the ingest motion, kept in memory only, is forgotten.
Restart(rebind) ==
  /\ "restart" \in Writers
  /\ rebind => snapshot["runtime"] < MaxRuntime
  /\ snapshot' = IF rebind THEN Advance(snapshot, PolicyBumps) ELSE snapshot
  /\ motion' = [v \in {} |-> 0]
  /\ recalls' = [r \in Recalls |->
       IF Running(r) /\ recalls[r] # NewRecall
       THEN [recalls[r] EXCEPT !.at = "killed"] ELSE recalls[r]]
  /\ sending' = [s \in Senders |-> Free]
  /\ UNCHANGED <<events, graph, bound, posteriors, journals, applied>>

-----------------------------------------------------------------------------
Init ==
  /\ events = [e \in {} |-> 0]
  /\ graph = 0
  /\ bound = [c \in Certificates |-> Unpublished]
  /\ posteriors = [e \in Evidence |-> NoPosterior]
  /\ snapshot = InitialSnapshot
  /\ motion = [v \in {} |-> 0]
  /\ recalls = [r \in Recalls |-> NewRecall]
  /\ journals = [r \in {} |-> 0]
  /\ sending = [s \in Senders |-> Free]
  /\ applied = [k \in {} |-> 0]

RecallStep(r) ==
  \/ Nominate(r) \/ ReadGraph(r) \/ Capture(r) \/ ReadCertificate(r)
  \/ \E e \in Evidence : ReadPosterior(r, e)
  \/ AllRead(r) \/ Commit(r) \/ Refuse(r)

OutcomeStep(s) ==
  \/ \E k \in Outcomes : Check(s, k)
  \/ ApplyDuplicate(s)
  \/ \E changed \in BOOLEAN : Apply(s, changed)

Write ==
  \/ \E e \in Evidence : Delete(e) \/ \E t \in Times : Put(e, t)
  \/ \E closure \in SUBSET Evidence : PublishSnap(closure)
  \/ \E c \in Certificates : PublishCertificate(c)
  \/ AgencyMotion
  \/ \E rebind \in BOOLEAN : Restart(rebind)

Next == \/ \E r \in Recalls : RecallStep(r)
        \/ \E r \in Recalls : Cancel(r)
        \/ \E s \in Senders : OutcomeStep(s)
        \/ Write

Spec == Init /\ [][Next]_vars

\* Calls to the store return.
FairSpec == Spec /\ \A r \in Recalls : WF_vars(RecallStep(r))
-----------------------------------------------------------------------------
(* Properties. *)

Commits(r) == r \notin DOMAIN journals /\ r \in DOMAIN journals'

\* PutBayesianJournal: whatever ran between the capture of a snapshot and the
\* commit, everything read since is still what the store holds, and the
\* evidence visible at as_of is what it was.
ReadsCurrent ==
  [][\A r \in Recalls : Commits(r) =>
       /\ recalls[r].eligible = EligibleEvidence(r)
       /\ \A c \in Certificates :
            c \in recalls[r].active <=> Binds(c, recalls[r].captured)
       /\ \A e \in recalls[r].read \cap Evidence :
            recalls[r].beliefs[e] = posteriors[e]]_vars

\* A posterior never mixes outcomes of different evidence epochs.
EpochsNotMixed ==
  \A e \in Evidence : \A k \in DOMAIN applied :
    posteriors[e].absorbed[k] > 0 => applied[k] = posteriors[e].epoch

\* Every attempt that Recall gives up was overtaken by a mutation of its own:
\* fewer mutations than attempts never make a recall fail.
FailureNeedsMotion ==
  \A r \in Recalls :
    /\ recalls[r].since + recalls[r].attempts <= snapshot["runtime"]
    /\ recalls[r].at = "failed" => recalls[r].attempts = MaxAttempts

\* docs/protocol.md: "Concurrent policy, graph, [...] motion returns HTTP 409":
\* a committed decision used the current graph.
GraphMotionRefused ==
  [][\A r \in Recalls : Commits(r) => recalls[r].graph = graph]_vars

\* Every recall that was started ends, in a journal or in an error.
RecallsEnd == \A r \in Recalls : recalls[r].at = "graph" ~> ~Running(r)
=============================================================================
