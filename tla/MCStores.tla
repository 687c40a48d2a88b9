------------------------------ MODULE MCStores ------------------------------
(***************************************************************************)
(* Instances of what keeps state around the event store, for TLC: the      *)
(* candidate index, the rank-delta table, the pool of workers that loads   *)
(* residuals, the database over the starts of the program, the key files   *)
(* that processes share, and what is learnt under which registry of        *)
(* issuers.  A behaviour exercises one of them.                            *)
(***************************************************************************)
EXTENDS CandidateIndex, RankDeltas, ResidualPool, StoreLifecycle, Daemon,
        EvidenceTrust, TLC

\* One event is observed again with another text after it was deleted.
MCTexts == ("e1" :> {"t1", "t2"}) @@ ("e2" :> {"t1"})

MCTenant == ("p1" :> "t1") @@ ("p2" :> "t2")

Found(embedding, contract, phase1, raw, canonical, archive, active) ==
  [marker |-> [embedding |-> embedding, contract |-> contract],
   phase1 |-> phase1, raw |-> raw, canonical |-> canonical,
   archive |-> archive, active |-> active]

Nothing == [p \in Proposals |-> "none"]
Queued == ("p1" :> "open") @@ ("p2" :> "open")
Settled == ("p1" :> "open") @@ ("p2" :> "closed")
Aged == ("p1" :> "uncertain") @@ ("p2" :> "lapsed")

\* A new database; Phase 1; the raw-text corpus of contracts 11 and 6; the
\* canonical corpus of contract 12 and of the next contract; and contract-6
\* databases whose projection misses a standing record and keeps a settled or a
\* lapsed one.
MCDatabases ==
  {Found("none", 0, {}, {}, {}, Nothing, {}),
   Found("none", 0, {"e1", "e2", "bad"}, {}, {}, Nothing, {}),
   Found("raw", 11, {}, {"e1", "e2"}, {}, Settled, {"p1"}),
   Found("raw", 11, {}, {"e1", "bad"}, {}, Nothing, {}),
   Found("raw", 6, {}, {"e1"}, {}, Queued, {}),
   Found("canonical", 12, {}, {"e1"}, {"e1", "e2"}, Settled, {"p1"}),
   Found("canonical", 6, {}, {}, {"e1"}, Settled, {"p2"}),
   Found("canonical", 6, {}, {}, {"e1"}, Aged, {"p2"}),
   Found("canonical", 18, {}, {}, {"e1"}, Settled, {"p1"})}

\* Registry A enrols key k1 for a while; B revokes it and enrols k2.
MCEnrolled ==
  LET Key(from, until, revoked) ==
        [notBefore |-> from, notAfter |-> until, revoked |-> revoked]
  IN  ("A" :> ("i" :> ("k1" :> Key(0, 2, FALSE))))
      @@ ("B" :> ("i" :> (("k1" :> Key(0, 2, TRUE)) @@ ("k2" :> Key(0, 3, FALSE)))))

\* One observation signed with either key and told of two journals, a copy of it
\* with a bad signature, a second observation, one derived from it, and an
\* unsigned outcome.
MCContent ==
  LET Request(transport, attested, observation, key, genuine, derived, about, at) ==
        [transport |-> transport, signed |-> attested, issuer |-> "i",
         observation |-> observation, key |-> key, genuine |-> genuine,
         derived |-> derived, posterior |-> about, observedAt |-> at,
         availableAt |-> at]
  IN  ("r1" :> Request("x1", TRUE, "o1", "k1", TRUE, FALSE, "p", 0))
      @@ ("r2" :> Request("x2", TRUE, "o1", "k2", TRUE, FALSE, "q", 0))
      @@ ("r3" :> Request("x3", TRUE, "o1", "k1", FALSE, FALSE, "p", 0))
      @@ ("r4" :> Request("x4", TRUE, "o2", "k1", TRUE, FALSE, "p", 1))
      @@ ("r5" :> Request("x5", TRUE, "o3", "k1", TRUE, TRUE, "p", 0))
      @@ ("r6" :> Request("x6", FALSE, "none", "none", FALSE, FALSE, "p", 0))

VARIABLE part   \* which part this behaviour exercises

otherVars == <<deltaVars, poolVars, lifecycleVars, daemonVars, trustVars>>
storesVars == <<part, indexVars, otherVars>>

\* The databases, and the registries, vary where they matter.
StoresInit ==
  /\ part \in {"index", "deltas", "pool", "database", "keys", "trust"}
  /\ IndexInit /\ DeltaInit /\ PoolInit /\ LifecycleInit /\ DaemonInit /\ TrustInit
  /\ part # "database" => db.marker = NoMarker /\ db.phase1 = {}
  /\ part # "trust" => trust = Unsigned

IndexPart ==
  /\ part = "index" /\ IndexNext
  /\ UNCHANGED <<part, otherVars>>

DeltaPart ==
  /\ part = "deltas" /\ DeltaNext
  /\ UNCHANGED <<part, indexVars, poolVars, lifecycleVars, daemonVars, trustVars>>

PoolPart ==
  /\ part = "pool" /\ PoolNext
  /\ UNCHANGED <<part, indexVars, deltaVars, lifecycleVars, daemonVars, trustVars>>

DatabasePart ==
  /\ part = "database" /\ LifecycleNext
  /\ UNCHANGED <<part, indexVars, deltaVars, poolVars, daemonVars, trustVars>>

KeysPart ==
  /\ part = "keys" /\ DaemonNext
  /\ UNCHANGED <<part, indexVars, deltaVars, poolVars, lifecycleVars, trustVars>>

TrustPart ==
  /\ part = "trust" /\ TrustNext
  /\ UNCHANGED <<part, indexVars, deltaVars, poolVars, lifecycleVars, daemonVars>>

StoresNext ==
  IndexPart \/ DeltaPart \/ PoolPart \/ DatabasePart \/ KeysPart \/ TrustPart

StoresSpec == StoresInit /\ [][StoresNext]_storesVars /\ IndexFairness
=============================================================================
