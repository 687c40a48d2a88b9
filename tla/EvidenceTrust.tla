---------------------------- MODULE EvidenceTrust ----------------------------
(***************************************************************************)
(* Authenticated outcomes over the starts of a daemon: each start loads a  *)
(* registry of issuers' keys, or none; an outcome is verified against it,  *)
(* enters the durable ledger under the identity of its observation and is  *)
(* absorbed by a posterior and by a residual.  Posteriors carry the        *)
(* fingerprint of the registry they were learnt under, residuals the       *)
(* policy version, which a change of registry advances.                    *)
(*                                                                         *)
(* One tenant and one source.  A signature is genuine or not; a digest is  *)
(* the content it digests.  Alpha, beta and corrections are the set of     *)
(* outcomes they were computed from.                                       *)
(***************************************************************************)
EXTENDS Naturals, Sequences, FiniteSets, SequencesExt

CONSTANTS
  Registries,    \* fingerprints of the registries a daemon may start with
  Enrolled,      \* registry -> issuer -> key -> its validity and revocation
  Requests,      \* outcome requests
  Content,       \* request -> what it says
  Posteriors,    \* posterior keys
  Reporters,     \* goroutines that serve outcome requests
  CacheEntries,  \* capacity of the verifier's cache
  MaxClock, MaxEpoch, MaxReloads   \* bounds: time, change points, restarts

\* The parts of an outcome request that matter here.
ContentFields == {"transport", "signed", "issuer", "observation", "key", "genuine",
                  "derived", "posterior", "observedAt", "availableAt"}

ASSUME EvidenceTrustAssumption ==
  /\ \A r \in Requests : DOMAIN Content[r] = ContentFields
  /\ CacheEntries \in Nat \ {0}
  /\ {MaxClock, MaxEpoch, MaxReloads} \subseteq Nat

VARIABLES
  trust,     \* the registry of this start, or Unsigned
  bound,     \* the policy digest in the store
  policy,    \* PolicyVersion
  epoch,     \* EvidenceEpoch
  clock,     \* wall clock
  verified,  \* verified requests, the most recently used first
  report,    \* reporter -> the request it serves and how far
  ledger,    \* ledger key -> the recorded request and the registry it passed
  posterior, residual,   \* posterior key -> record
  learnt,    \* history: request -> how often posteriors and residuals moved for it
  reloads    \* restarts so far

trustVars == <<trust, bound, policy, epoch, clock, verified, report, ledger,
               posterior, residual, learnt, reloads>>

Unsigned == "unsigned"
NoReport == [request |-> "none", at |-> "idle"]
NoLearning == [trust |-> Unsigned, policy |-> 0, epoch |-> 0, absorbed |-> {}]

-----------------------------------------------------------------------------
(* Starts.                                                                 *)

\* bayesianPolicyDigest: of the configuration it digests only the registry's
\* fingerprint differs between starts.
PolicyDigest(t) == [evidenceTrust |-> t]

\* LoadVerifier, NewVerifier, New and BindBayesianPolicy: nothing but the
\* verifier lives in memory, and a policy the store was not bound to advances
\* the policy version.
Reload(t) ==
  /\ reloads < MaxReloads
  /\ trust' = t
  /\ verified' = <<>>
  /\ report' = [s \in Reporters |-> NoReport]
  /\ bound' = PolicyDigest(t)
  /\ policy' = IF bound' = bound THEN policy ELSE policy + 1
  /\ reloads' = reloads + 1
  /\ UNCHANGED <<epoch, clock, ledger, posterior, residual, learnt>>

TrustTick ==
  /\ clock < MaxClock
  /\ clock' = clock + 1
  /\ UNCHANGED <<trust, bound, policy, epoch, verified, report, ledger, posterior,
                 residual, learnt, reloads>>

-----------------------------------------------------------------------------
(* Verify.                                                                 *)

\* The key is enrolled for the issuer, not revoked, and valid now and when the
\* observation was made; the outcome is available and no earlier than observed.
KeyServes(c, t) ==
  /\ c.issuer \in DOMAIN Enrolled[t] /\ c.key \in DOMAIN Enrolled[t][c.issuer]
  /\ LET k == Enrolled[t][c.issuer][c.key]
     IN  /\ ~k.revoked
         /\ \A i \in {clock, c.observedAt} : k.notBefore <= i /\ i < k.notAfter
  /\ c.observedAt <= c.availableAt /\ c.availableAt <= clock

\* What the cache is searched by: the signed bytes, which leave the transport
\* key out, and the signature.
Material(c) == [c EXCEPT !.transport = ""]

\* Fault: a rotated key makes the observation a new one.
LedgerKeyRotated(c) ==
  IF c.signed THEN <<c.issuer, c.observation, c.key>> ELSE <<c.transport>>

\* The observation's identity replaces the transport's idempotency key.
LedgerKey(c) ==
  IF c.signed THEN <<c.issuer, c.observation>> ELSE <<c.transport>>

\* The cache with m at its front: moved there, or pushed, and then the last
\* entry of a full cache leaves.
Used(m) ==
  IF Contains(verified, m)
  THEN <<m>> \o RemoveAt(verified, CHOOSE i \in DOMAIN verified : verified[i] = m)
  ELSE <<m>> \o SubSeq(verified, 1, IF Len(verified) < CacheEntries THEN Len(verified)
                                    ELSE CacheEntries - 1)

Moves(s, r, step) == report' = [report EXCEPT ![s] = [request |-> r, at |-> step]]

\* The check of the key, and the first look into the cache: a hit moves to the
\* front.
Submit(s, r) ==
  LET c == Content[r]
      m == Material(c)
  IN  /\ report[s] = NoReport
      /\ trust # Unsigned /\ c.signed
      /\ KeyServes(c, trust)
      /\ IF Contains(verified, m)
         THEN /\ verified' = Used(m)
              /\ Moves(s, r, "verified")
         ELSE /\ Moves(s, r, "missed")
              /\ UNCHANGED verified
      /\ UNCHANGED <<trust, bound, policy, epoch, clock, ledger, posterior,
                     residual, learnt, reloads>>

\* A miss: a good signature enters the cache, unless another request for it
\* did meanwhile, and the least recently used entry leaves.
CheckSignature(s) ==
  LET c == Content[report[s].request]
      m == Material(c)
  IN  /\ report[s].at = "missed"
      /\ IF c.genuine
         THEN /\ verified' = Used(m)
              /\ Moves(s, report[s].request, "verified")
         ELSE /\ report' = [report EXCEPT ![s] = NoReport]
              /\ UNCHANGED verified
      /\ UNCHANGED <<trust, bound, policy, epoch, clock, ledger, posterior,
                     residual, learnt, reloads>>

\* An outcome derived from others is withheld.
Withhold(s) ==
  /\ report[s].at = "verified" /\ Content[report[s].request].derived
  /\ report' = [report EXCEPT ![s] = NoReport]
  /\ UNCHANGED <<trust, bound, policy, epoch, clock, verified, ledger, posterior,
                 residual, learnt, reloads>>

\* Without a registry an attested outcome is refused, and so is a transport
\* key of the reserved namespace (which no request here has).
SubmitUnsigned(s, r) ==
  /\ report[s] = NoReport
  /\ trust = Unsigned /\ ~Content[r].signed
  /\ Content[r].availableAt <= clock
  /\ Moves(s, r, "verified")
  /\ UNCHANGED <<trust, bound, policy, epoch, clock, verified, ledger, posterior,
                 residual, learnt, reloads>>

-----------------------------------------------------------------------------
(* ApplyBayesianOutcome, as far as it decides what is learnt from what.    *)

\* A posterior of another epoch, or of another registry, starts over.
Continued(p) ==
  IF \/ posterior[p].epoch # epoch
     \/ trust # Unsigned /\ posterior[p].trust # trust
  THEN {} ELSE posterior[p].absorbed

\* Fault: unsigned outcomes leave the posterior's fingerprint as it is.
TaggedKept(p, k, changed) ==
  [trust |-> IF trust = Unsigned THEN posterior[p].trust ELSE trust,
   policy |-> policy, epoch |-> IF changed THEN epoch + 1 ELSE epoch,
   absorbed |-> IF changed THEN {k} ELSE Continued(p) \cup {k}]

\* ApplyOutcomeAuthorized: a change point forgets everything else; either way
\* the posterior is now of this start's registry.
Tagged(p, k, changed) ==
  [trust |-> trust,
   policy |-> policy, epoch |-> IF changed THEN epoch + 1 ELSE epoch,
   absorbed |-> IF changed THEN {k} ELSE Continued(p) \cup {k}]

\* residual.Update under the snapshot the outcome leads to.
Corrected(p, k, e) ==
  [trust |-> Unsigned, policy |-> policy, epoch |-> e,
   absorbed |-> {k} \cup IF residual[p].policy = policy /\ residual[p].epoch = e
                         THEN residual[p].absorbed ELSE {}]

\* Fault: what a former registry verified counts as new, as its posterior does.
RecordedNow(k) == k \in DOMAIN ledger /\ ledger[k].under = trust

\* The ledger has a record of the key: a duplicate, or a conflict.
Recorded(k) == k \in DOMAIN ledger

\* Under the write lock throughout: nothing is learnt of a recorded key; a first
\* outcome is no change point.
Learn(s, changed) ==
  LET r == report[s].request
      c == Content[r]
      k == LedgerKey(c)
      p == c.posterior
      after == Tagged(p, k, changed)
  IN  /\ report[s].at = "verified" /\ ~c.derived
      /\ changed => Continued(p) # {} /\ ~Recorded(k) /\ epoch < MaxEpoch
      /\ report' = [report EXCEPT ![s] = NoReport]
      /\ IF Recorded(k)
         THEN UNCHANGED <<epoch, ledger, posterior, residual, learnt>>
         ELSE /\ epoch' = after.epoch
              /\ posterior' = [posterior EXCEPT ![p] = after]
              /\ residual' = [residual EXCEPT ![p] = Corrected(p, k, after.epoch)]
              /\ ledger' = [j \in DOMAIN ledger \cup {k} |->
                              IF j = k THEN [request |-> r, under |-> trust]
                              ELSE ledger[j]]
              /\ learnt' = [learnt EXCEPT ![r] = @ + 1]
      /\ UNCHANGED <<trust, bound, policy, clock, verified, reloads>>

-----------------------------------------------------------------------------

TrustInit ==
  /\ trust \in Registries \cup {Unsigned}
  /\ bound = PolicyDigest(trust)
  /\ policy = 1 /\ epoch = 1 /\ clock = 0
  /\ verified = <<>>
  /\ report = [s \in Reporters |-> NoReport]
  /\ ledger = [k \in {} |-> NoReport]
  /\ posterior = [p \in Posteriors |-> NoLearning]
  /\ residual = [p \in Posteriors |-> NoLearning]
  /\ learnt = [r \in Requests |-> 0]
  /\ reloads = 0

TrustNext ==
  \/ \E t \in Registries \cup {Unsigned} : Reload(t)
  \/ TrustTick
  \/ \E s \in Reporters :
       \/ \E r \in Requests : Submit(s, r) \/ SubmitUnsigned(s, r)
       \/ CheckSignature(s) \/ Withhold(s)
       \/ \E changed \in BOOLEAN : Learn(s, changed)

TrustSpec == TrustInit /\ [][TrustNext]_trustVars

-----------------------------------------------------------------------------
(* Properties.                                                             *)

\* recallOnce uses a posterior of this epoch and, in authenticated mode, of
\* this registry.
PosteriorUsable(p) == /\ posterior[p].epoch = epoch
                      /\ trust \in {Unsigned, posterior[p].trust}

\* residual.Eligible: of this epoch and policy; support, age and gain are not
\* modelled, so every residual counts as soon as it has learnt.
Eligible(p) == residual[p].epoch = epoch /\ residual[p].policy = policy

\* What a recall rests on for a posterior key.
Basis(p) == (IF PosteriorUsable(p) THEN posterior[p].absorbed ELSE {})
            \cup (IF Eligible(p) THEN residual[p].absorbed ELSE {})

\* Two requests report one thing: signed, the observation of one issuer,
\* whoever carries it and whatever key signed it; unsigned, one transport key.
SameOutcome(r, q) ==
  LET a == Content[r]
      b == Content[q]
  IN  /\ a.signed = b.signed
      /\ IF a.signed THEN a.issuer = b.issuer /\ a.observation = b.observation
         ELSE a.transport = b.transport

\* docs/authenticated-evidence.md: changing the journal, outcome or signing key
\* of a consumed observation does not learn again, and concurrent submissions
\* and restarts do not consume it twice.  Posteriors and residuals move at most
\* once for all requests that report one thing, however they are interleaved
\* and whatever registries, change points and evictions lie between (Verify's
\* key, ApplyBayesianOutcome).
ObservationOnce ==
  \A r, q \in {x \in Requests : learnt[x] > 0} : SameOutcome(r, q) => r = q /\ learnt[r] = 1

\* docs/authenticated-evidence.md: "Old-trust posteriors cannot be served in
\* authenticated mode, and new outcomes start new-trust statistics".  Whatever
\* registries, or none, came before, an authenticated recall rests only on
\* underived outcomes that this registry verified with a genuine signature.
TrustServed ==
  trust # Unsigned =>
    \A p \in Posteriors : \A k \in Basis(p) :
      LET c == Content[ledger[k].request]
      IN  /\ ledger[k].under = trust
          /\ c.signed /\ c.genuine /\ ~c.derived
          /\ ~Enrolled[trust][c.issuer][c.key].revoked
=============================================================================
