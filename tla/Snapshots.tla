----------------------------- MODULE Snapshots -----------------------------
(***************************************************************************)
(* The version vector eventframed stamps on every decision                 *)
(* (model.Snapshot), which counters each mutation of the store advances,   *)
(* and the two compatibility tests that decide whether a decision taken    *)
(* under an older vector may still be committed.                           *)
(*                                                                         *)
(* The counters are uint64 in the code; 2^64 mutations are out of reach of *)
(* any run of the daemon, so they are naturals here.                       *)
(***************************************************************************)
EXTENDS Naturals

\* The nine counters of model.Snapshot.
Counters == {"runtime", "policy", "contract", "graph", "posterior",
             "residual", "abstraction", "agency", "evidence"}

Snapshot == [Counters -> Nat]

\* A fresh database (loadOrInitializeState): RuntimeVersion and
\* EvidenceEpoch start at 0, the others at 1.  The contract version is a
\* compile-time constant; only its equality is ever observed.
InitialSnapshot ==
  [c \in Counters |-> IF c \in {"runtime", "evidence"} THEN 0 ELSE 1]

\* One committed mutation advances each of the counters in cs by one.
Advance(s, cs) == [c \in Counters |-> IF c \in cs THEN s[c] + 1 ELSE s[c]]

-----------------------------------------------------------------------------
(* The counters advanced by each mutation of the store. *)

PutBumps         == {"runtime", "evidence"}
CompositionBumps == {"runtime", "abstraction"}
PolicyBumps      == {"runtime", "policy"}
CertificateBumps == {"runtime"}
AgencyBumps      == {"runtime", "agency"}
\* Evidence removal (Delete, DeleteBefore) and a detected change point.
InvalidateBumps  == {"runtime", "evidence", "graph", "posterior",
                     "residual", "abstraction"}
SnapBumps        == {"runtime", "graph", "abstraction", "posterior",
                     "residual"}
OutcomeBumps     == {"runtime", "posterior", "residual"}
SplitBumps       == {"runtime", "abstraction", "posterior", "residual"}
ContractBumps    == {"runtime", "contract"}

\* Every mutation that is neither an agency operation, nor the ingest of an
\* event, nor the removal of evidence.
OtherBumps == {CompositionBumps, PolicyBumps, CertificateBumps,
               InvalidateBumps, SnapBumps, OutcomeBumps, SplitBumps,
               ContractBumps}

-----------------------------------------------------------------------------
(* A tau forecast is frozen under the vector `base`.  It stays usable      *)
(* while the only motion since is agency bookkeeping, which advances the   *)
(* runtime and the agency counter in step.                                 *)

FrozenCounters == Counters \ {"runtime", "agency"}

\* Fault: only the two moving counters are compared.
TauSnapshotCompatibleMoving(base, current) ==
  /\ current["runtime"] >= base["runtime"]
  /\ current["agency"] >= base["agency"]
  /\ current["runtime"] - base["runtime"] = current["agency"] - base["agency"]

TauSnapshotCompatible(base, current) ==
  /\ current["runtime"] >= base["runtime"]
  /\ current["agency"] >= base["agency"]
  /\ current["runtime"] - base["runtime"] = current["agency"] - base["agency"]
  /\ \A c \in FrozenCounters : base[c] = current[c]

\* base was read at or before `current`: no counter has gone back, and the
\* runtime counter has moved at least as often as the agency counter.
Behind(base, current) ==
  /\ \A c \in Counters : base[c] <= current[c]
  /\ base["runtime"] + current["agency"] <= current["runtime"] + base["agency"]

(* A recall captured under the vector `captured` at logical time asOf may  *)
(* be journalled under `current` when nothing semantic moved and every     *)
(* version since is the ingest of an event that only became available      *)
(* after asOf.  motion maps the runtime versions of recent ingests to      *)
(* their availability time.                                                *)

SemanticCounters == Counters \ {"runtime", "evidence"}

\* Fault: a version without a recorded ingest is passed over.
JournalSnapshotCompatibleOpen(captured, current, asOf, motion) ==
  /\ \A c \in SemanticCounters : captured[c] = current[c]
  /\ current["runtime"] >= captured["runtime"]
  /\ \A v \in (captured["runtime"] + 1)..current["runtime"] :
        v \in DOMAIN motion => motion[v] > asOf

JournalSnapshotCompatible(captured, current, asOf, motion) ==
  /\ \A c \in SemanticCounters : captured[c] = current[c]
  /\ current["runtime"] >= captured["runtime"]
  /\ \A v \in (captured["runtime"] + 1)..current["runtime"] :
        v \in DOMAIN motion /\ motion[v] > asOf
=============================================================================
