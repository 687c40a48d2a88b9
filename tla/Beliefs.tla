------------------------------ MODULE Beliefs ------------------------------
(***************************************************************************)
(* What one outcome does to a posterior (package bayes): both stores call  *)
(* these functions.  A posterior is abstracted to the outcomes its Beta    *)
(* law has absorbed since it was created or reset, and to the outcomes     *)
(* behind the sufficient statistics it keeps per member event.  The        *)
(* detector's verdict that the law changed and the comparison's verdict    *)
(* that the members diverge are arguments.                                 *)
(***************************************************************************)
EXTENDS Naturals, FiniteSets

CONSTANTS
  Events,        \* identifiers of ordinary events
  Certificates,  \* identifiers of Anti-Pigeon certificates
  Members,       \* Members[c]: the events certificate c lets share a posterior
  Outcomes,      \* idempotency keys of outcome requests
  Outcome        \* Outcome[k]: what the request with key k reports

\* parentPosteriorKey: every outcome also feeds this posterior.
Parent == "global"

\* An event's own posterior, a certificate's shared one ("ap:" and the
\* certificate), and the parent.
PosteriorKeys == Events \cup Certificates \cup {Parent}

ASSUME BeliefAssumption ==
  /\ Members \in [Certificates -> SUBSET Events]
  /\ \A c \in Certificates : Cardinality(Members[c]) >= 2
  /\ Events \cap Certificates = {} /\ Parent \notin Events \cup Certificates

NoEvidence == [e \in Events |-> {}]

\* No posterior is stored under the key; evidence epochs are positive once
\* an event has been ingested.
Absent == [epoch |-> 0, certified |-> FALSE, pool |-> {}, member |-> NoEvidence]

Fresh(epoch) == [epoch |-> epoch, certified |-> TRUE, pool |-> {}, member |-> NoEvidence]

\* A posterior of another epoch is started again.
Current(p, epoch) == IF p.epoch = epoch THEN p ELSE Fresh(epoch)

\* Full-stream and independently audited outcomes may validate or revoke;
\* selected ones only update.
ValidationEligible(k) == Outcome[k].source \in {"full_stream", "independent_audit"}

\* ApplyOutcomeAuthorized may reset the posterior on a change of law only
\* when the outcome is eligible or the posterior is not shared.
ResetAuthorized(key, k) == ValidationEligible(k) \/ key \notin Certificates

\* ApplyOutcomeAuthorized and UpdateMemberEvidence
Absorb(p, k, change) ==
  [p EXCEPT !.pool = IF change THEN {k} ELSE @ \cup {k},
            !.member[Outcome[k].event] = @ \cup {k}]

\* CompareGroup recommends a split only with evidence for every member.
MayDiverge(p, group) == \A e \in group : p.member[e] # {}

AssessRevision(group, k, change, diverges) ==
  IF group = {} THEN IF change THEN "individual_reset" ELSE "retain"
  ELSE IF diverges /\ ValidationEligible(k) THEN IF change THEN "split_reset" ELSE "split"
  ELSE IF change THEN "shared_reset" ELSE "retain"

RevisionSplits(action) == action \in {"split", "split_reset"}

\* Fault: a split leaves the shared posterior certified.
RevisedKept(p, action, change, epoch) ==
  [p EXCEPT !.epoch = IF change THEN epoch ELSE @,
            !.member = IF change /\ ~RevisionSplits(action) THEN NoEvidence ELSE @]

\* The stored form of the posterior the outcome was applied to: a reset that
\* does not split forgets the members, a split disables the shared law.
Revised(p, action, change, epoch) ==
  [p EXCEPT !.epoch = IF change THEN epoch ELSE @,
            !.certified = @ /\ ~RevisionSplits(action),
            !.member = IF change /\ ~RevisionSplits(action) THEN NoEvidence ELSE @]

\* Fault: every member inherits the pooled law.
MemberPosteriorPooled(p, e, k, change, epoch) ==
  LET own == IF change /\ e = Outcome[k].event THEN {k} ELSE p.pool
  IN [epoch |-> epoch, certified |-> TRUE, pool |-> own,
      member |-> [NoEvidence EXCEPT ![e] = own]]

\* materializedMemberPosterior and, for the event that revealed a change,
\* resetMemberPosterior.
MemberPosterior(p, e, k, change, epoch) ==
  LET own == IF change /\ e = Outcome[k].event THEN {k} ELSE p.member[e]
  IN [epoch |-> epoch, certified |-> TRUE, pool |-> own,
      member |-> [NoEvidence EXCEPT ![e] = own]]

\* The parent absorbs the outcome under the epoch the commit ends in.
ParentUpdated(p, k, epoch) ==
  LET current == Current(p, epoch) IN [current EXCEPT !.pool = @ \cup {k}]

\* A residual correction: the versions it binds, the event and the posterior
\* it was learnt from, and whether it may be applied.
NoResidual == [epoch |-> 0, policy |-> 0, active |-> FALSE, event |-> "", key |-> ""]

\* residual.Update, then Active cleared by a split.
ResidualUpdated(r, k, key, s, splits) ==
  LET kept == r.epoch = s["evidence"] /\ r.policy = s["policy"]
      base == IF kept THEN r
              ELSE [epoch |-> s["evidence"], policy |-> s["policy"], active |-> TRUE,
                    event |-> Outcome[k].event, key |-> key]
  IN [base EXCEPT !.active = @ /\ ~splits]
=============================================================================
