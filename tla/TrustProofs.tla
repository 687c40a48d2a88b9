----------------------------- MODULE TrustProofs -----------------------------
(***************************************************************************)
(* Theorems about keys and the trust put in them.                          *)
(*                                                                         *)
(* EvidenceTrust, for any registries, requests, posteriors and concurrent  *)
(* reporters, any size of the cache and any sequence of starts: an         *)
(* observation is learnt once, and an authenticated recall rests only on   *)
(* outcomes its own registry has verified.  Daemon, for any number of      *)
(* starts and of generated keys: the key files agree with what any process *)
(* works with.                                                             *)
(*                                                                         *)
(* The argument for EvidenceTrust: what is in the cache has a genuine      *)
(* signature, and the cache does not outlive its registry; a reporter past *)
(* the verification has an outcome of this registry; so the ledger records *)
(* with every outcome the registry that vouches for it.  What was learnt   *)
(* from is on record from then on, so no later check misses it.  A         *)
(* posterior is tagged with the registry of all it absorbed; a residual is *)
(* of the current registry as long as it is of the current policy version. *)
(***************************************************************************)
EXTENDS EvidenceTrust, Daemon, TLAPS

\* Outcomes registry t vouches for.
Vouched(r, t) == /\ Content[r].signed /\ ~Enrolled[t][Content[r].issuer][Content[r].key].revoked

GenuineMaterial == {Material(Content[r]) : r \in {x \in Requests : Content[x].genuine}}

\* The cache holds what was verified.
CacheGenuine == verified \in Seq(GenuineMaterial)

\* A reporter has a request of this registry, genuine once it is verified.
ReportOK(s) ==
  report[s].at \in {"missed", "verified"} =>
    /\ report[s].request \in Requests
    /\ trust # Unsigned =>
         /\ Vouched(report[s].request, trust)
         /\ report[s].at = "verified" => Content[report[s].request].genuine

ReportsOK == DOMAIN report = Reporters /\ \A s \in Reporters : ReportOK(s)

\* A record is under the identity of its observation, with the registry that
\* vouches for it.
RecordOK(k) ==
  LET r == ledger[k].request
  IN  /\ r \in Requests /\ k = LedgerKey(Content[r]) /\ ~Content[r].derived
      /\ ledger[k].under # Unsigned =>
           Vouched(r, ledger[k].under) /\ Content[r].genuine

LedgerOK == \A k \in DOMAIN ledger : RecordOK(k)

\* What a posterior has absorbed is on record under the registry of its tag.
PosteriorOK(p) ==
  \A k \in posterior[p].absorbed :
    /\ k \in DOMAIN ledger
    /\ posterior[p].trust # Unsigned => ledger[k].under = posterior[p].trust

\* A residual of the current policy is of the current registry.
ResidualOK(p) ==
  /\ residual[p].policy \in Nat /\ residual[p].policy <= policy
  /\ \A k \in residual[p].absorbed :
       /\ k \in DOMAIN ledger
       /\ residual[p].policy = policy => ledger[k].under = trust

LearningOK ==
  /\ DOMAIN posterior = Posteriors /\ DOMAIN residual = Posteriors
  /\ policy \in Nat /\ bound = PolicyDigest(trust)
  /\ \A p \in Posteriors : PosteriorOK(p) /\ ResidualOK(p)

\* A request for which something moved is the one on record under its key.
Counted(r) ==
  /\ learnt[r] \in {0, 1}
  /\ learnt[r] = 1 => /\ LedgerKey(Content[r]) \in DOMAIN ledger
                      /\ ledger[LedgerKey(Content[r])].request = r

LearntOK == DOMAIN learnt = Requests /\ \A r \in Requests : Counted(r)

\* The inductive invariant.
TrustInv == CacheGenuine /\ ReportsOK /\ LedgerOK /\ LearningOK /\ LearntOK

-----------------------------------------------------------------------------

\* The cache after a use holds what it held, and the entry used.
LEMMA UsedHolds ==
  ASSUME NEW S, verified \in Seq(S), NEW m \in S
  PROVE  Used(m) \in Seq(S)
<1>1. CASE Contains(verified, m)
  <2> DEFINE i == CHOOSE i \in DOMAIN verified : verified[i] = m
  <2>0. DOMAIN verified = 1..Len(verified) /\ \E j \in DOMAIN verified : verified[j] = m
    BY <1>1 DEF Contains
  <2>1. i \in DOMAIN verified
    BY <2>0, Zenon
  <2>2. SubSeq(verified, 1, i - 1) \in Seq(S) /\ SubSeq(verified, i + 1, Len(verified)) \in Seq(S)
    BY <2>0, <2>1
  <2> HIDE DEF i
  <2>3. RemoveAt(verified, i) \in Seq(S) /\ <<m>> \in Seq(S)
    BY <2>2 DEF RemoveAt
  <2>4. <<m>> \o RemoveAt(verified, i) \in Seq(S)
    BY <2>3
  <2> QED BY <1>1, <2>4 DEF Used, i
<1>2. CASE ~Contains(verified, m)
  <2> DEFINE n == IF Len(verified) < CacheEntries THEN Len(verified) ELSE CacheEntries - 1
  <2>1. n \in Nat /\ n <= Len(verified)
    BY EvidenceTrustAssumption
  <2>2. SubSeq(verified, 1, n) \in Seq(S) /\ <<m>> \in Seq(S)
    BY <2>1
  <2> HIDE DEF n
  <2>3. <<m>> \o SubSeq(verified, 1, n) \in Seq(S)
    BY <2>2
  <2> QED BY <1>2, <2>3 DEF Used, n
<1> QED BY <1>1, <1>2

\* Requests of the same signed bytes and signature are alike genuine.
LEMMA SameMaterial ==
  ASSUME NEW r \in Requests, NEW q \in Requests,
         Material(Content[r]) = Material(Content[q]), Content[q].genuine
  PROVE  Content[r].genuine
<1>1. Material(Content[r])["genuine"] = Content[r]["genuine"]
  BY EvidenceTrustAssumption DEF Material, ContentFields
<1>2. Material(Content[q])["genuine"] = Content[q]["genuine"]
  BY EvidenceTrustAssumption DEF Material, ContentFields
<1> QED BY <1>1, <1>2

\* The invariant holds at the first start.
LEMMA TrustStarts == TrustInit => TrustInv
<1> SUFFICES ASSUME TrustInit PROVE TrustInv
  OBVIOUS
<1>1. CacheGenuine
  BY DEF TrustInit, CacheGenuine
<1>2. ReportsOK
  BY DEF TrustInit, ReportsOK, ReportOK, NoReport
<1>3. LedgerOK
  BY DEF TrustInit, LedgerOK
<1>4. LearningOK
  BY DEF TrustInit, LearningOK, PosteriorOK, ResidualOK, NoLearning
<1>5. LearntOK
  BY DEF TrustInit, LearntOK, Counted
<1> QED BY <1>1, <1>2, <1>3, <1>4, <1>5 DEF TrustInv

\* A step of one reporter leaves the others what they were.
LEMMA OneReports ==
  ASSUME ReportsOK, NEW s \in Reporters, NEW v, report' = [report EXCEPT ![s] = v],
         UNCHANGED trust, ReportOK(s)'
  PROVE  ReportsOK'
BY DEF ReportsOK, ReportOK

\* A step that learns nothing keeps what was learnt.
LEMMA NothingLearnt ==
  ASSUME LedgerOK, LearningOK, LearntOK,
         UNCHANGED <<trust, bound, policy, ledger, posterior, residual, learnt>>
  PROVE  LedgerOK' /\ LearningOK' /\ LearntOK'
<1>1. LedgerOK' /\ LearningOK'
  BY DEF LedgerOK, RecordOK, LearningOK, PosteriorOK, ResidualOK
<1>2. LearntOK'
  BY DEF LearntOK, Counted
<1> QED BY <1>1, <1>2

\* A restart: a change of the registry leaves no residual of the current policy.
LEMMA ReloadKeeps ==
  ASSUME TrustInv, NEW t, Reload(t)
  PROVE  TrustInv'
<1>1. CacheGenuine'
  BY DEF Reload, CacheGenuine
<1>2. ReportsOK'
  BY DEF Reload, ReportsOK, ReportOK, NoReport
<1>3. LedgerOK'
  BY DEF TrustInv, Reload, LedgerOK, RecordOK
<1>4. policy \in Nat /\ policy' \in Nat /\ policy <= policy' /\ (policy' = policy => trust' = trust)
  BY DEF TrustInv, LearningOK, Reload, PolicyDigest
<1>5. bound' = PolicyDigest(trust')
  BY DEF Reload
<1>6. \A p \in Posteriors : PosteriorOK(p)' /\ ResidualOK(p)'
  BY <1>4 DEF TrustInv, LearningOK, PosteriorOK, ResidualOK, Reload
<1>7. LearningOK'
  BY <1>4, <1>5, <1>6 DEF TrustInv, LearningOK, Reload
<1>8. LearntOK'
  BY DEF TrustInv, LearntOK, Counted, Reload
<1> QED BY <1>1, <1>2, <1>3, <1>7, <1>8 DEF TrustInv

\* The verification: a hit is of the same bytes as an entry that was genuine.
LEMMA VerifyKeeps ==
  ASSUME TrustInv, NEW s \in Reporters,
         \/ \E r \in Requests : Submit(s, r) \/ SubmitUnsigned(s, r)
         \/ CheckSignature(s) \/ Withhold(s)
  PROVE  TrustInv'
<1> USE DEF TrustInv
<1>0. /\ DOMAIN report = Reporters /\ verified \in Seq(GenuineMaterial)
      /\ UNCHANGED <<trust, bound, policy, ledger, posterior, residual, learnt>>
  BY DEF Submit, SubmitUnsigned, CheckSignature, Withhold, ReportsOK, CacheGenuine
<1>1. LedgerOK' /\ LearningOK' /\ LearntOK'
  BY <1>0, NothingLearnt
<1>2. ASSUME report' = [report EXCEPT ![s] = NoReport] PROVE ReportsOK'
  <2>1. ReportOK(s)'
    BY <1>0, <1>2 DEF ReportOK, NoReport
  <2> QED BY <1>0, <1>2, <2>1, OneReports
<1>3. ASSUME NEW r \in Requests, Submit(s, r) PROVE CacheGenuine' /\ ReportsOK'
  <2> DEFINE m == Material(Content[r])
  <2>1. trust # Unsigned /\ Vouched(r, trust)
    BY <1>3 DEF Submit, KeyServes, Vouched
  <2>2. CASE Contains(verified, m)
    <3>1. verified' = Used(m) /\ report' = [report EXCEPT ![s] = [request |-> r, at |-> "verified"]]
      BY <1>3, <2>2 DEF Submit, Moves
    <3>2. m \in GenuineMaterial
      BY <1>0, <2>2 DEF Contains
    <3>3. Content[r].genuine
      BY <3>2, SameMaterial DEF GenuineMaterial
    <3>4. CacheGenuine'
      BY <1>0, <3>1, <3>2, UsedHolds DEF CacheGenuine
    <3>5. ReportOK(s)'
      BY <1>0, <2>1, <3>1, <3>3 DEF ReportOK, Vouched
    <3> QED BY <1>0, <3>1, <3>4, <3>5, OneReports
  <2>3. CASE ~Contains(verified, m)
    <3>1. UNCHANGED verified /\ report' = [report EXCEPT ![s] = [request |-> r, at |-> "missed"]]
      BY <1>3, <2>3 DEF Submit, Moves
    <3>2. ReportOK(s)'
      BY <1>0, <2>1, <3>1 DEF ReportOK, Vouched
    <3>3. CacheGenuine'
      BY <1>0, <3>1 DEF CacheGenuine
    <3> QED BY <1>0, <3>1, <3>2, <3>3, OneReports
  <2> QED BY <2>2, <2>3
<1>4. ASSUME NEW r \in Requests, SubmitUnsigned(s, r) PROVE CacheGenuine' /\ ReportsOK'
  <2>1. /\ report' = [report EXCEPT ![s] = [request |-> r, at |-> "verified"]]
        /\ UNCHANGED verified /\ trust = Unsigned
    BY <1>4 DEF SubmitUnsigned, Moves
  <2>2. ReportOK(s)'
    BY <1>0, <2>1 DEF ReportOK
  <2>3. CacheGenuine'
    BY <1>0, <2>1 DEF CacheGenuine
  <2> QED BY <1>0, <2>1, <2>2, <2>3, OneReports
<1>5. CASE CheckSignature(s)
  <2> DEFINE r == report[s].request
             m == Material(Content[r])
  <2>1. r \in Requests /\ (trust # Unsigned => Vouched(r, trust))
    BY <1>5 DEF CheckSignature, ReportsOK, ReportOK
  <2>2. CASE Content[r].genuine
    <3>1. verified' = Used(m) /\ report' = [report EXCEPT ![s] = [request |-> r, at |-> "verified"]]
      BY <1>5, <2>2 DEF CheckSignature, Moves
    <3>2. m \in GenuineMaterial
      BY <2>1, <2>2 DEF GenuineMaterial
    <3> HIDE DEF r, m
    <3>3. CacheGenuine'
      BY <1>0, <3>1, <3>2, UsedHolds DEF CacheGenuine
    <3>4. ReportOK(s)'
      BY <1>0, <2>1, <2>2, <3>1 DEF ReportOK, Vouched
    <3> QED BY <1>0, <1>1, <3>1, <3>3, <3>4, OneReports
  <2>3. CASE ~Content[r].genuine
    BY <1>0, <1>1, <1>2, <1>5, <2>3 DEF CheckSignature, CacheGenuine
  <2> QED BY <2>2, <2>3
<1>6. CASE Withhold(s)
  BY <1>0, <1>1, <1>2, <1>6 DEF Withhold, CacheGenuine
<1> QED BY <1>1, <1>3, <1>4, <1>5, <1>6

\* An outcome is learnt: it enters the ledger under this registry, and a
\* posterior or residual of another one starts over.
LEMMA LearnKeeps ==
  ASSUME TrustInv, NEW s \in Reporters, NEW changed \in BOOLEAN, Learn(s, changed)
  PROVE  TrustInv'
<1> DEFINE r == report[s].request
           k == LedgerKey(Content[r])
           p == Content[r].posterior
           after == Tagged(p, k, changed)
           corrected == Corrected(p, k, after.epoch)
<1>0. /\ DOMAIN report = Reporters /\ UNCHANGED <<trust, bound, policy, verified>>
      /\ report' = [report EXCEPT ![s] = NoReport]
      /\ DOMAIN posterior = Posteriors /\ DOMAIN residual = Posteriors
      /\ policy \in Nat /\ bound = PolicyDigest(trust)
  BY DEF TrustInv, Learn, ReportsOK, LearningOK
<1>1. CacheGenuine'
  BY <1>0 DEF TrustInv, CacheGenuine
<1>2. ReportsOK'
  <2>1. ReportOK(s)'
    BY <1>0 DEF ReportOK, NoReport
  <2> QED BY <1>0, <2>1, OneReports DEF TrustInv
<1>3. CASE k \in DOMAIN ledger
  <2>1. UNCHANGED <<ledger, posterior, residual, learnt>>
    BY <1>3 DEF Learn, Recorded
  <2> QED BY <1>0, <1>1, <1>2, <2>1, NothingLearnt DEF TrustInv
<1>4. CASE k \notin DOMAIN ledger
  <2>1. /\ r \in Requests /\ ~Content[r].derived
        /\ trust # Unsigned => Vouched(r, trust) /\ Content[r].genuine
    BY DEF TrustInv, Learn, ReportsOK, ReportOK
  <2>2. /\ posterior' = [posterior EXCEPT ![p] = after]
        /\ residual' = [residual EXCEPT ![p] = corrected]
        /\ ledger' = [j \in DOMAIN ledger \cup {k} |->
                        IF j = k THEN [request |-> r, under |-> trust] ELSE ledger[j]]
        /\ learnt' = [learnt EXCEPT ![r] = @ + 1]
    BY <1>4 DEF Learn, Recorded
  <2>3. /\ after.trust = trust /\ k \in after.absorbed
        /\ after.absorbed \subseteq Continued(p) \cup {k}
    BY DEF Tagged
  <2>4. /\ corrected.policy = policy
        /\ \A j \in corrected.absorbed :
             j = k \/ (residual[p].policy = policy /\ j \in residual[p].absorbed)
    BY DEF Corrected
  <2>5. k = LedgerKey(Content[r])
    OBVIOUS
  <2> HIDE DEF r, k, p, after, corrected
  <2>6. LedgerOK'
    <3> SUFFICES ASSUME NEW j \in DOMAIN ledger' PROVE RecordOK(j)'
      BY DEF LedgerOK
    <3>1. CASE j = k
      <4>1. ledger'[j].request = r /\ ledger'[j].under = trust
        BY <2>2, <3>1
      <4> QED BY <2>1, <2>5, <3>1, <4>1, <1>0 DEF RecordOK, Vouched, LedgerKey
    <3>2. CASE j # k
      <4>1. j \in DOMAIN ledger /\ ledger'[j] = ledger[j] /\ RecordOK(j)
        BY <2>2, <3>2 DEF TrustInv, LedgerOK
      <4> QED BY <4>1 DEF RecordOK, Vouched, LedgerKey
    <3> QED BY <3>1, <3>2
  <2>7. \A j \in DOMAIN ledger : j \in DOMAIN ledger' /\ ledger'[j] = ledger[j]
    BY <1>4, <2>2
  <2>8. k \in DOMAIN ledger' /\ ledger'[k].under = trust
    BY <2>2
  <2>9. ASSUME NEW q \in Posteriors PROVE PosteriorOK(q)'
    <3>0. PosteriorOK(q)
      BY DEF TrustInv, LearningOK
    <3>1. CASE q # p
      BY <1>0, <2>2, <2>7, <3>0, <3>1 DEF PosteriorOK
    <3>2. CASE q = p
      <4>1. posterior'[q] = after
        BY <1>0, <2>2, <3>2
      <4>2. \A j \in Continued(p) : /\ j \in DOMAIN ledger
                                    /\ trust # Unsigned => ledger[j].under = trust
        BY <3>0, <3>2 DEF Continued, PosteriorOK
      <4> QED BY <2>3, <2>7, <2>8, <4>1, <4>2 DEF PosteriorOK
    <3> QED BY <3>1, <3>2
  <2>10. ASSUME NEW q \in Posteriors PROVE ResidualOK(q)'
    <3>0. ResidualOK(q)
      BY DEF TrustInv, LearningOK
    <3>1. CASE q # p
      BY <1>0, <2>2, <2>7, <3>0, <3>1 DEF ResidualOK
    <3>2. CASE q = p
      <4>1. residual'[q] = corrected
        BY <1>0, <2>2, <3>2
      <4> QED BY <1>0, <2>4, <2>7, <2>8, <3>0, <3>2, <4>1 DEF ResidualOK
    <3> QED BY <3>1, <3>2
  <2>11. LearningOK'
    BY <1>0, <2>2, <2>9, <2>10 DEF LearningOK
  <2>12. LearntOK'
    <3>1. DOMAIN learnt = Requests /\ \A q \in Requests : Counted(q)
      BY DEF TrustInv, LearntOK
    <3>2. learnt[r] = 0
      BY <1>4, <2>1, <2>5, <3>1 DEF Counted
    <3>3. ASSUME NEW q \in Requests PROVE Counted(q)'
      <4>1. CASE q = r
        <5>1. learnt'[q] = 1 /\ ledger'[k].request = r
          BY <2>1, <2>2, <3>1, <3>2, <4>1
        <5> QED BY <2>5, <2>8, <4>1, <5>1 DEF Counted
      <4>2. CASE q # r
        <5>1. learnt'[q] = learnt[q] /\ Counted(q)
          BY <2>2, <3>1, <4>2
        <5> QED BY <2>7, <5>1 DEF Counted
      <4> QED BY <4>1, <4>2
    <3> QED BY <2>2, <3>1, <3>3 DEF LearntOK
  <2> QED BY <1>1, <1>2, <2>6, <2>11, <2>12 DEF TrustInv
<1> QED BY <1>3, <1>4

\* Every step keeps the invariant.
LEMMA TrustKeeps == TrustInv /\ [TrustNext]_trustVars => TrustInv'
<1> SUFFICES ASSUME TrustInv, [TrustNext]_trustVars PROVE TrustInv'
  OBVIOUS
<1>1. ASSUME UNCHANGED <<trust, bound, policy, verified, report, ledger, posterior, residual,
                         learnt>>
      PROVE  TrustInv'
  <2>1. CacheGenuine' /\ ReportsOK'
    BY <1>1 DEF TrustInv, CacheGenuine, ReportsOK, ReportOK
  <2> QED BY <1>1, <2>1, NothingLearnt DEF TrustInv
<1>2. CASE TrustTick
  BY <1>1, <1>2 DEF TrustTick
<1>3. CASE UNCHANGED trustVars
  BY <1>1, <1>3 DEF trustVars
<1> QED BY <1>2, <1>3, ReloadKeeps, VerifyKeeps, LearnKeeps DEF TrustNext

\* The invariant holds throughout.
THEOREM TrustInvariant == TrustSpec => []TrustInv
BY TrustStarts, TrustKeeps, PTL DEF TrustSpec

\* ObservationOnce: whatever key signed it, whichever requests carried it, in
\* whatever order they were served and whatever restarts, change points and
\* evictions lie between, posteriors and residuals move once for an observation.
THEOREM ObservationsOnce == TrustSpec => []ObservationOnce
<1>1. TrustInv => ObservationOnce
  <2> SUFFICES ASSUME TrustInv, NEW r \in Requests, NEW q \in Requests,
                      SameOutcome(r, q), learnt[r] > 0, learnt[q] > 0
               PROVE  r = q /\ learnt[r] = 1
    BY DEF ObservationOnce
  <2>1. Counted(r) /\ Counted(q)
    BY DEF TrustInv, LearntOK
  <2>2. learnt[r] = 1 /\ learnt[q] = 1
    BY <2>1 DEF Counted
  <2>3. LedgerKey(Content[r]) = LedgerKey(Content[q])
    BY DEF SameOutcome, LedgerKey
  <2> QED BY <2>1, <2>2, <2>3 DEF Counted
<1> QED BY <1>1, TrustInvariant, PTL

\* TrustServed: an authenticated recall rests only on underived outcomes that
\* the registry of this start has verified with a genuine signature.
THEOREM OnlyTrustedServed == TrustSpec => []TrustServed
<1>1. TrustInv => TrustServed
  <2> SUFFICES ASSUME TrustInv, trust # Unsigned, NEW p \in Posteriors, NEW k \in Basis(p)
               PROVE  /\ ledger[k].under = trust
                      /\ Vouched(ledger[k].request, trust)
                      /\ Content[ledger[k].request].genuine
                      /\ ~Content[ledger[k].request].derived
    BY DEF TrustServed, Vouched
  <2>1. PosteriorOK(p) /\ ResidualOK(p)
    BY DEF TrustInv, LearningOK
  <2>2. k \in DOMAIN ledger /\ ledger[k].under = trust
    BY <2>1 DEF Basis, PosteriorUsable, Eligible, PosteriorOK, ResidualOK
  <2> QED BY <2>2 DEF TrustInv, LedgerOK, RecordOK
<1> QED BY <1>1, TrustInvariant, PTL

-----------------------------------------------------------------------------
(* The key files.  A file that holds a value keeps it, because O_EXCL lets *)
(* a process create only an absent file and only its creator writes it. So *)
(* what a start has settled stays true while it goes on.  The public key   *)
(* file is only ever written, or accepted, by a process that has settled   *)
(* the private one.                                                        *)

Values == 1..MaxKeys

OnTheWay == {"look", "create", "write"}
Through == {"contracts", "service", "listen", "bind", "serving"}

Steps == [do : OnTheWay, i : 1..4] \cup
         [do : {"store", "deltas", "closing", "stopped", "crashed"} \cup Through, i : {0}]

\* How many files are settled at step s, and by process d.
SettledAt(s) == IF s.do \in OnTheWay THEN s.i - 1
                ELSE IF s.do \in Through THEN 4 ELSE 0
SettledFiles(d) == SettledAt(step[d])

DaemonTypeOK ==
  /\ file \in [Files -> 0..(MaxKeys + 1)]
  /\ step \in [Processes -> Steps]
  /\ holds \in [Processes -> [Files -> 0..(MaxKeys + 1)]]
  /\ generated \in 0..MaxKeys

\* What was settled is what the files hold.
Kept ==
  \A d \in Processes : \A j \in 1..4 :
    j <= SettledFiles(d) => /\ file[KeyFiles[j]] \in Values
                            /\ holds[d][KeyFiles[j]] = file[KeyFiles[j]]

\* A file being made will hold a value, the public key that of the pair.
Making ==
  \A d \in Processes :
    step[d].do \in {"create", "write"} =>
      /\ holds[d][KeyFiles[step[d].i]] \in Values
      /\ step[d].i = 2 => holds[d]["public"] = holds[d]["private"]

\* A file being written is torn, and has one writer.
Writing ==
  \A d \in Processes :
    step[d].do = "write" =>
      /\ file[KeyFiles[step[d].i]] = Torn
      /\ \A e \in Processes : step[e] = step[d] => e = d

\* A public key is that of the private one.
Paired == file["public"] \in Values => file["public"] = file["private"]

\* What was signed verifies.
SignedVerify == \A k \in signed : k \in Values /\ file["public"] = k

DaemonInv == DaemonTypeOK /\ Kept /\ Making /\ Writing /\ Paired /\ SignedVerify

-----------------------------------------------------------------------------

\* The four key files, each at one place.
LEMMA FilesKnown ==
  /\ DOMAIN KeyFiles = 1..4 /\ Len(KeyFiles) = 4
  /\ KeyFiles[1] = "private" /\ KeyFiles[2] = "public"
  /\ KeyFiles[3] = "issuer" /\ KeyFiles[4] = "authority"
  /\ Files = {"private", "public", "issuer", "authority"}
  /\ \A i \in 1..4 : KeyFiles[i] \in Files
  /\ \A i, j \in 1..4 : KeyFiles[i] = KeyFiles[j] => i = j
<1>1. DOMAIN KeyFiles = 1..4 /\ Len(KeyFiles) = 4
  BY DEF KeyFiles
<1>2. /\ KeyFiles[1] = "private" /\ KeyFiles[2] = "public"
      /\ KeyFiles[3] = "issuer" /\ KeyFiles[4] = "authority"
  BY DEF KeyFiles
<1>3. Files = {"private", "public", "issuer", "authority"}
  BY <1>1, <1>2 DEF Files
<1>4. \A i \in 1..4 : KeyFiles[i] \in Files
  BY <1>1 DEF Files
<1>5. \A i, j \in 1..4 : KeyFiles[i] = KeyFiles[j] => i = j
  BY <1>2
<1> QED BY <1>1, <1>2, <1>3, <1>4, <1>5

\* The invariant holds before any process has started.
LEMMA DaemonStarts == DaemonInit => DaemonInv
<1> SUFFICES ASSUME DaemonInit PROVE DaemonInv
  OBVIOUS
<1> USE DaemonAssumption, FilesKnown
<1>1. DaemonTypeOK
  BY DEF DaemonInit, DaemonTypeOK, Plain, Turn, Absent, Steps
<1>2. \A d \in Processes : step[d].do = "store" /\ SettledFiles(d) = 0
  BY DEF DaemonInit, Plain, Turn, SettledFiles, SettledAt, OnTheWay, Through
<1>3. Kept /\ Making /\ Writing
  BY <1>2 DEF Kept, Making, Writing
<1>4. Paired /\ SignedVerify
  BY DEF DaemonInit, Paired, SignedVerify, Absent, Values
<1> QED BY <1>1, <1>3, <1>4 DEF DaemonInv

\* A file that holds a value keeps it: only an absent file is created, and only
\* a torn one is written.
LEMMA ValuesStay ==
  ASSUME DaemonInv, DaemonNext, NEW f \in Files, file[f] \in Values
  PROVE  file'[f] = file[f]
<1> USE DaemonAssumption, FilesKnown
<1>1. PICK d \in Processes :
        \/ OpenStores(d) \/ Look(d) \/ Create(d) \/ WriteKey(d)
        \/ Assemble(d) \/ Listen(d) \/ SignProposal(d)
        \/ ShutDown(d) \/ Abort(d) \/ Kill(d)
  BY DEF DaemonNext
<1>2. CASE Create(d)
  BY <1>2 DEF Create, Absent, Values, DaemonInv, DaemonTypeOK
<1>3. CASE WriteKey(d)
  BY <1>3 DEF WriteKey, At, FileOf, Torn, Values, DaemonInv, DaemonTypeOK, Writing
<1>4. CASE \/ OpenStores(d) \/ Look(d) \/ Assemble(d) \/ Listen(d)
           \/ SignProposal(d) \/ ShutDown(d) \/ Abort(d) \/ Kill(d)
  BY <1>4 DEF OpenStores, Look, Assemble, Listen, SignProposal, ShutDown, Abort, Kill
<1> QED BY <1>1, <1>2, <1>3, <1>4

\* A step that only moves a process on, to where no more is settled than before
\* and no file is being made, keeps the invariant.
LEMMA MovesOn ==
  ASSUME DaemonInv, NEW d \in Processes, NEW s \in Steps,
         s.do \notin {"create", "write"}, SettledAt(s) <= SettledFiles(d),
         step' = [step EXCEPT ![d] = s],
         UNCHANGED <<file, holds, generated, signed>>
  PROVE  DaemonInv'
<1> USE DaemonAssumption, FilesKnown
<1>0. \A e \in Processes : step'[e] = IF e = d THEN s ELSE step[e]
  BY DEF DaemonInv, DaemonTypeOK
<1>1. DaemonTypeOK'
  BY DEF DaemonInv, DaemonTypeOK
<1>2. Kept'
  <2> SUFFICES ASSUME NEW e \in Processes, NEW j \in 1..4, j <= SettledFiles(e)'
               PROVE  (file[KeyFiles[j]] \in Values /\ holds[e][KeyFiles[j]] = file[KeyFiles[j]])'
    BY DEF Kept
  <2>1. SettledAt(s) \in 0..4 /\ SettledFiles(d) \in 0..4
    BY DEF SettledAt, SettledFiles, Steps, OnTheWay, Through, DaemonInv, DaemonTypeOK
  <2>2. j <= SettledFiles(e)
    BY <1>0, <2>1 DEF SettledFiles
  <2> QED BY <2>2 DEF DaemonInv, Kept, Values
<1>3. Making'
  BY <1>0 DEF DaemonInv, Making, Values
<1>4. Writing'
  BY <1>0 DEF DaemonInv, Writing, Torn
<1>5. Paired' /\ SignedVerify'
  BY DEF DaemonInv, Paired, SignedVerify, Values
<1> QED BY <1>1, <1>2, <1>3, <1>4, <1>5 DEF DaemonInv

\* The steps that touch neither key files nor what is held of them.
LEMMA OtherStepsKeep ==
  ASSUME DaemonInv, NEW d \in Processes,
         OpenStores(d) \/ Assemble(d) \/ Listen(d) \/ ShutDown(d) \/ Abort(d) \/ Kill(d)
  PROVE  DaemonInv'
<1>1. PICK s \in Steps : /\ s.do \notin {"create", "write"}
                         /\ SettledAt(s) <= SettledFiles(d)
                         /\ step' = [step EXCEPT ![d] = s]
                         /\ UNCHANGED <<file, holds, generated, signed>>
  <2> DEFINE Moved(s) == /\ s \in Steps /\ s.do \notin {"create", "write"}
                         /\ SettledAt(s) <= SettledFiles(d)
                         /\ step' = [step EXCEPT ![d] = s]
                         /\ UNCHANGED <<file, holds, generated, signed>>
  <2> USE DEF Steps, OnTheWay, Through, SettledAt, SettledFiles, At, Plain, Turn
  <2>0. SettledFiles(d) \in 0..4 /\ step[d] \in Steps
    BY DEF DaemonInv, DaemonTypeOK
  <2>1. CASE OpenStores(d)
    <3>1. Moved(Plain("deltas")) \/ Moved(Turn("look", 1))
      BY <2>0, <2>1 DEF OpenStores
    <3> QED BY <3>1
  <2>2. CASE Assemble(d)
    <3>1. Moved(Plain("service")) \/ Moved(Plain("listen"))
      BY <2>0, <2>2 DEF Assemble
    <3> QED BY <3>1
  <2>3. CASE Listen(d)
    <3>1. Moved(Plain("bind")) \/ Moved(Plain("serving"))
      BY <2>0, <2>3 DEF Listen
    <3> QED BY <3>1
  <2>4. CASE ShutDown(d)
    <3>1. Moved(Plain("closing")) \/ Moved(Plain("stopped"))
      BY <2>0, <2>4 DEF ShutDown
    <3> QED BY <3>1
  <2>5. CASE Abort(d)
    <3>1. Moved(Plain("stopped"))
      BY <2>0, <2>5 DEF Abort
    <3> QED BY <3>1
  <2>6. CASE Kill(d)
    <3>1. Moved(Plain("crashed"))
      BY <2>0, <2>6 DEF Kill
    <3> QED BY <3>1
  <2> QED BY <2>1, <2>2, <2>3, <2>4, <2>5, <2>6
<1> QED BY <1>1, MovesOn

\* A process settles its file: the file now holds the value it works with.
LEMMA SettlingKeeps ==
  ASSUME DaemonInv, DaemonNext, NEW d \in Processes, NEW i \in 1..4, NEW v \in Values,
         step[d].do \in OnTheWay, step[d].i = i, Settle(d, v),
         file' \in [Files -> 0..(MaxKeys + 1)],
         file'[KeyFiles[i]] = v,
         \A j \in 1..4 \ {i} : file'[KeyFiles[j]] = file[KeyFiles[j]],
         i = 2 => v = holds[d]["private"],
         file' = file \/ step[d].do = "write",
         UNCHANGED <<generated, signed>>
  PROVE  DaemonInv'
<1> USE DaemonAssumption, FilesKnown
<1> DEFINE next == AfterFile(i)
<1>0. /\ DaemonTypeOK /\ Kept /\ Making /\ Writing /\ Paired /\ SignedVerify
      /\ v \in 0..(MaxKeys + 1)
  BY DEF DaemonInv, Values
<1>1. next \in Steps /\ SettledAt(next) = i /\ next.do \notin {"create", "write"}
  BY DEF AfterFile, Turn, Plain, Steps, OnTheWay, Through, SettledAt
<1>2. /\ step' = [step EXCEPT ![d] = next]
      /\ holds' = [holds EXCEPT ![d][KeyFiles[i]] = v]
  BY DEF Settle, FileOf
<1>3. /\ \A e \in Processes : step'[e] = IF e = d THEN next ELSE step[e]
      /\ \A e \in Processes \ {d} : holds'[e] = holds[e]
      /\ holds'[d][KeyFiles[i]] = v
      /\ \A j \in 1..4 \ {i} : holds'[d][KeyFiles[j]] = holds[d][KeyFiles[j]]
  BY <1>0, <1>2 DEF DaemonTypeOK
<1>4. SettledFiles(d) = i - 1
  BY DEF SettledFiles, SettledAt
<1>5. \A f \in Files : file[f] \in Values => file'[f] = file[f]
  BY ValuesStay
<1>6. DaemonTypeOK'
  BY <1>0, <1>1, <1>2 DEF DaemonTypeOK
<1>7. Kept'
  <2> SUFFICES ASSUME NEW e \in Processes, NEW j \in 1..4, j <= SettledFiles(e)'
               PROVE  file'[KeyFiles[j]] \in Values /\ holds'[e][KeyFiles[j]] = file'[KeyFiles[j]]
    BY DEF Kept, Values
  <2>1. CASE e # d
    <3>1. j <= SettledFiles(e)
      BY <1>3, <2>1 DEF SettledFiles
    <3> QED BY <1>0, <1>3, <1>5, <2>1, <3>1 DEF Kept
  <2>2. CASE e = d /\ j = i
    BY <1>3, <2>2
  <2>3. CASE e = d /\ j # i
    <3>1. j <= SettledFiles(d)
      BY <1>1, <1>3, <1>4, <2>3 DEF SettledFiles
    <3> QED BY <1>0, <1>3, <1>5, <2>3, <3>1 DEF Kept
  <2> QED BY <2>1, <2>2, <2>3
<1>8. Making'
  BY <1>0, <1>1, <1>3 DEF Making, Values
<1>9. Writing'
  <2> SUFFICES ASSUME NEW e \in Processes, step'[e].do = "write"
               PROVE  /\ file'[KeyFiles[step'[e].i]] = Torn
                      /\ \A c \in Processes : step'[c] = step'[e] => c = e
    BY DEF Writing, Torn
  <2>1. e # d /\ step'[e] = step[e]
    BY <1>1, <1>3
  <2>2. step[e].i \in 1..4 /\ file[KeyFiles[step[e].i]] = Torn
    BY <1>0, <2>1 DEF DaemonTypeOK, Writing, Steps, Through
  <2>3. CASE file' = file
    BY <1>0, <1>1, <1>3, <2>1, <2>2, <2>3 DEF Writing
  <2>4. CASE step[d].do = "write"
    <3>1. step[e].i # i
      <4> SUFFICES ASSUME step[e].i = i PROVE FALSE
        OBVIOUS
      <4>1. step[e] = step[d]
        BY <1>0, <2>1, <2>4 DEF DaemonTypeOK, Steps
      <4> QED BY <1>0, <2>1, <2>4, <4>1 DEF Writing
    <3> QED BY <1>0, <1>1, <1>3, <2>1, <2>2, <3>1 DEF Writing
  <2> QED BY <2>3, <2>4
<1>10. Paired'
  <2> SUFFICES ASSUME file'["public"] \in Values
               PROVE  file'["public"] = file'["private"]
    BY DEF Paired, Values
  <2>1. CASE i = 2
    BY <1>0, <1>4, <1>5, <2>1 DEF Kept
  <2>2. CASE i # 2
    BY <1>0, <1>5, <2>2 DEF Paired
  <2> QED BY <2>1, <2>2
<1>11. SignedVerify'
  BY <1>0, <1>5 DEF SignedVerify, Values
<1> QED BY <1>6, <1>7, <1>8, <1>9, <1>10, <1>11 DEF DaemonInv

\* A process at one of the steps on the way is at a file of its own.
LEMMA AtFile ==
  ASSUME DaemonInv, NEW d \in Processes, step[d].do \in OnTheWay
  PROVE  step[d].i \in 1..4 /\ SettledFiles(d) = step[d].i - 1
BY DEF DaemonInv, DaemonTypeOK, Steps, OnTheWay, Through, SettledFiles, SettledAt

\* readKey and its like: a file that is there and well-formed settles the place;
\* one that is missing is to be created, and one that is torn stops the start.
LEMMA LookKeeps ==
  ASSUME DaemonInv, DaemonNext, NEW d \in Processes, Look(d)
  PROVE  DaemonInv'
<1> USE DaemonAssumption, FilesKnown
<1> DEFINE i == step[d].i
           f == KeyFiles[i]
<1>0. /\ DaemonTypeOK /\ Kept /\ Making /\ Writing /\ Paired /\ SignedVerify
      /\ step[d].do = "look" /\ i \in 1..4 /\ SettledFiles(d) = i - 1
      /\ FileOf(d) = f /\ UNCHANGED <<file, signed>>
  BY AtFile DEF DaemonInv, Look, At, OnTheWay, FileOf
<1>1. CASE file[f] = Absent
  <2> DEFINE w == IF i = 2 THEN holds[d]["private"] ELSE generated + 1
             next == Turn("create", i)
  <2>1. /\ step' = [step EXCEPT ![d] = next]
        /\ IF f = "public"
           THEN holds' = [holds EXCEPT ![d][f] = holds[d]["private"]] /\ generated' = generated
           ELSE /\ generated < MaxKeys /\ generated' = generated + 1
                /\ holds' = [holds EXCEPT ![d][f] = generated + 1]
    BY <1>0, <1>1 DEF Look
  <2>2. next \in Steps /\ next.do = "create" /\ next.i = i /\ SettledAt(next) = i - 1
    BY <1>0 DEF Turn, Steps, OnTheWay, SettledAt
  <2>3. w \in Values /\ generated' \in 0..MaxKeys
    <3>1. CASE i = 2
      BY <1>0, <2>1, <3>1 DEF Kept, DaemonTypeOK
    <3>2. CASE i # 2
      BY <1>0, <2>1, <3>2 DEF DaemonTypeOK, Values
    <3> QED BY <3>1, <3>2
  <2>4. holds' = [holds EXCEPT ![d][f] = w]
    BY <1>0, <2>1
  <2>5. /\ \A e \in Processes : step'[e] = IF e = d THEN next ELSE step[e]
        /\ \A e \in Processes \ {d} : holds'[e] = holds[e]
        /\ holds'[d][f] = w
        /\ \A j \in 1..4 \ {i} : holds'[d][KeyFiles[j]] = holds[d][KeyFiles[j]]
    BY <1>0, <2>1, <2>4 DEF DaemonTypeOK
  <2>6. DaemonTypeOK'
    <3>1. w \in 0..(MaxKeys + 1)
      BY <2>3 DEF Values
    <3> QED BY <1>0, <2>1, <2>2, <2>3, <2>4, <3>1 DEF DaemonTypeOK
  <2>7. Kept'
    <3> SUFFICES ASSUME NEW e \in Processes, NEW j \in 1..4, j <= SettledFiles(e)'
                 PROVE  file[KeyFiles[j]] \in Values /\ holds'[e][KeyFiles[j]] = file[KeyFiles[j]]
      BY <1>0 DEF Kept, Values
    <3>1. j <= SettledFiles(e)
      BY <1>0, <2>2, <2>5 DEF SettledFiles
    <3> QED BY <1>0, <2>5, <3>1 DEF Kept
  <2>8. Making'
    <3> SUFFICES ASSUME NEW e \in Processes, step'[e].do \in {"create", "write"}
                 PROVE  /\ holds'[e][KeyFiles[step'[e].i]] \in Values
                        /\ step'[e].i = 2 => holds'[e]["public"] = holds'[e]["private"]
      BY DEF Making, Values
    <3>1. CASE e = d
      <4>1. holds'[d][f] \in Values /\ step'[d].i = i
        BY <2>2, <2>3, <2>5
      <4>2. i = 2 => holds'[d]["public"] = holds'[d]["private"]
        BY <2>5
      <4> QED BY <3>1, <4>1, <4>2
    <3>2. CASE e # d
      BY <1>0, <2>5, <3>2 DEF Making
    <3> QED BY <3>1, <3>2
  <2>9. Writing'
    BY <1>0, <2>2, <2>5 DEF Writing, Torn
  <2>10. Paired' /\ SignedVerify'
    BY <1>0 DEF Paired, SignedVerify, Values
  <2> QED BY <2>6, <2>7, <2>8, <2>9, <2>10 DEF DaemonInv
<1>2. CASE file[f] # Absent
  <2>1. /\ file[f] \notin {Absent, Torn} /\ Settle(d, file[f]) /\ generated' = generated
        /\ i = 2 => file[f] = holds[d]["private"]
    BY <1>0, <1>2 DEF Look
  <2>2. file[f] \in Values
    BY <1>0, <2>1 DEF DaemonTypeOK, Absent, Torn, Values
  <2>3. /\ file' \in [Files -> 0..(MaxKeys + 1)] /\ file'[KeyFiles[i]] = file[f]
        /\ \A j \in 1..4 \ {i} : file'[KeyFiles[j]] = file[KeyFiles[j]]
    BY <1>0 DEF DaemonTypeOK
  <2> DEFINE v == file[f]
  <2> HIDE DEF i, v
  <2> QED BY <1>0, <2>1, <2>2, <2>3, SettlingKeeps DEF OnTheWay, i, v
<1> QED BY <1>1, <1>2

\* The exclusive creation of a missing file, and the loss of that race.
LEMMA CreateKeeps ==
  ASSUME DaemonInv, DaemonNext, NEW d \in Processes, Create(d)
  PROVE  DaemonInv'
<1> USE DaemonAssumption, FilesKnown
<1> DEFINE i == step[d].i
           f == KeyFiles[i]
           next == Turn("write", i)
<1>0. /\ DaemonTypeOK /\ Kept /\ Making /\ Writing /\ Paired /\ SignedVerify
      /\ step[d].do = "create" /\ i \in 1..4 /\ SettledFiles(d) = i - 1
      /\ file[f] = Absent /\ file' = [file EXCEPT ![f] = Torn]
      /\ step' = [step EXCEPT ![d] = next]
      /\ UNCHANGED <<holds, generated, signed>>
  BY AtFile DEF DaemonInv, Create, At, OnTheWay, FileOf
<1>1. next \in Steps /\ next.do = "write" /\ next.i = i /\ SettledAt(next) = i - 1
  BY <1>0 DEF Turn, Steps, OnTheWay, SettledAt
<1>2. /\ \A e \in Processes : step'[e] = IF e = d THEN next ELSE step[e]
      /\ file'[f] = Torn
      /\ \A j \in 1..4 \ {i} : file'[KeyFiles[j]] = file[KeyFiles[j]]
      /\ Torn \notin Values /\ Torn # Absent
  BY <1>0 DEF DaemonTypeOK, Torn, Absent, Values
<1>3. \A g \in Files : file[g] \in Values => file'[g] = file[g]
  BY ValuesStay
<1>4. DaemonTypeOK'
  BY <1>0, <1>1 DEF DaemonTypeOK, Torn
<1>5. Kept'
  <2> SUFFICES ASSUME NEW e \in Processes, NEW j \in 1..4, j <= SettledFiles(e)'
               PROVE  file'[KeyFiles[j]] \in Values /\ holds[e][KeyFiles[j]] = file'[KeyFiles[j]]
    BY <1>0 DEF Kept, Values
  <2>1. j <= SettledFiles(e)
    BY <1>0, <1>1, <1>2 DEF SettledFiles
  <2> QED BY <1>0, <1>3, <2>1 DEF Kept
<1>6. Making'
  BY <1>0, <1>1, <1>2 DEF Making, Values
<1>7. Writing'
  <2> SUFFICES ASSUME NEW e \in Processes, step'[e].do = "write"
               PROVE  /\ file'[KeyFiles[step'[e].i]] = Torn
                      /\ \A c \in Processes : step'[c] = step'[e] => c = e
    BY DEF Writing, Torn
  <2>1. \A e2 \in Processes \ {d} :
          step[e2].do = "write" => step[e2].i \in 1..4 /\ step[e2].i # i
    BY <1>0, <1>2 DEF DaemonTypeOK, Steps, Through, Writing
  <2>2. CASE e = d
    BY <1>0, <1>1, <1>2, <2>1, <2>2
  <2>3. CASE e # d
    BY <1>0, <1>1, <1>2, <2>1, <2>3 DEF Writing
  <2> QED BY <2>2, <2>3
<1>8. Paired'
  <2> SUFFICES ASSUME file'["public"] \in Values
               PROVE  file'["public"] = file'["private"]
    BY DEF Paired, Values
  <2>1. i # 2
    BY <1>2
  <2> QED BY <1>0, <1>2, <1>3, <2>1 DEF Paired
<1>9. SignedVerify'
  BY <1>0, <1>3 DEF SignedVerify, Values
<1> QED BY <1>4, <1>5, <1>6, <1>7, <1>8, <1>9 DEF DaemonInv

\* The write of the created file settles the place of the process that won.
LEMMA WriteKeeps ==
  ASSUME DaemonInv, DaemonNext, NEW d \in Processes, WriteKey(d)
  PROVE  DaemonInv'
<1> USE DaemonAssumption, FilesKnown
<1> DEFINE i == step[d].i
           v == holds[d][KeyFiles[i]]
<1>1. /\ step[d].do = "write" /\ i \in 1..4
      /\ file' = [file EXCEPT ![KeyFiles[i]] = v] /\ Settle(d, v)
      /\ UNCHANGED <<generated, signed>>
  BY AtFile DEF DaemonInv, WriteKey, At, OnTheWay, FileOf
<1>2. v \in Values /\ (i = 2 => v = holds[d]["private"])
  BY <1>1 DEF DaemonInv, Making
<1>3. /\ file' \in [Files -> 0..(MaxKeys + 1)]
      /\ file'[KeyFiles[i]] = v
      /\ \A j \in 1..4 \ {i} : file'[KeyFiles[j]] = file[KeyFiles[j]]
  BY <1>1, <1>2 DEF DaemonInv, DaemonTypeOK, Values
<1> HIDE DEF i, v
<1> QED BY <1>1, <1>2, <1>3, SettlingKeeps DEF OnTheWay, i

\* A serving process signs with the private key the public file belongs to.
LEMMA SignKeeps ==
  ASSUME DaemonInv, NEW d \in Processes, SignProposal(d)
  PROVE  DaemonInv'
<1> USE DaemonAssumption, FilesKnown
<1>1. /\ UNCHANGED <<file, step, holds, generated>>
      /\ signed' = signed \cup {holds[d]["private"]} /\ step[d].do = "serving"
  BY DEF SignProposal, At
<1>2. DaemonTypeOK' /\ Kept' /\ Making' /\ Writing' /\ Paired'
  BY <1>1 DEF DaemonInv, DaemonTypeOK, Kept, SettledFiles, Making, Writing, Paired, Values, Torn
<1>3. SettledFiles(d) = 4
  BY <1>1 DEF SettledFiles, SettledAt, OnTheWay, Through
<1>4. holds[d]["private"] \in Values /\ file["public"] = holds[d]["private"]
  BY <1>3 DEF DaemonInv, Kept, Paired
<1>5. SignedVerify'
  BY <1>1, <1>4 DEF DaemonInv, SignedVerify, Values
<1> QED BY <1>2, <1>5 DEF DaemonInv

-----------------------------------------------------------------------------

\* Every step of the starts, stops, crashes and requests keeps the invariant.
LEMMA DaemonStep == DaemonInv /\ [DaemonNext]_daemonVars => DaemonInv'
<1> SUFFICES ASSUME DaemonInv, [DaemonNext]_daemonVars PROVE DaemonInv'
  OBVIOUS
<1>1. CASE DaemonNext
  <2>1. PICK d \in Processes :
          \/ OpenStores(d) \/ Look(d) \/ Create(d) \/ WriteKey(d)
          \/ Assemble(d) \/ Listen(d) \/ SignProposal(d)
          \/ ShutDown(d) \/ Abort(d) \/ Kill(d)
    BY <1>1 DEF DaemonNext
  <2> QED BY <1>1, <2>1, LookKeeps, CreateKeeps, WriteKeeps, SignKeeps, OtherStepsKeep
<1>2. CASE UNCHANGED daemonVars
  BY <1>2 DEF daemonVars, DaemonInv, DaemonTypeOK, Kept, SettledFiles, Making, Writing,
              Paired, SignedVerify, Values, Torn
<1> QED BY <1>1, <1>2

\* What a serving process works with is what the invariant says it settled.
LEMMA DaemonInvAgrees == DaemonInv => KeysAgree
<1> SUFFICES ASSUME DaemonInv PROVE KeysAgree
  OBVIOUS
<1> USE DaemonAssumption, FilesKnown
<1>1. ASSUME NEW d \in Processes, At(d, "serving") PROVE holds[d] = file
  <2>1. SettledFiles(d) = 4
    BY <1>1 DEF At, SettledFiles, SettledAt, OnTheWay, Through
  <2>2. \A j \in 1..4 : holds[d][KeyFiles[j]] = file[KeyFiles[j]]
    BY <2>1 DEF DaemonInv, Kept
  <2>3. \A f \in Files : holds[d][f] = file[f]
    BY <2>2 DEF Files
  <2> QED BY <2>3 DEF DaemonInv, DaemonTypeOK
<1>2. \A k \in signed : Verifies(k)
  BY DEF DaemonInv, SignedVerify, Verifies
<1> QED BY <1>1, <1>2 DEF KeysAgree

\* LoadOrCreateSigner, loadOrCreateToken and ensurePublicKeyFile, for any number
\* of racing, failing and killed starts: a serving process works with the
\* values of the key files, and everything ever signed verifies.
THEOREM KeysAlwaysAgree == DaemonSpec => []KeysAgree
<1>1. DaemonSpec => []DaemonInv
  BY DaemonStarts, DaemonStep, PTL DEF DaemonSpec
<1> QED BY <1>1, DaemonInvAgrees, PTL
=============================================================================
