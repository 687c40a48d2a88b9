----------------------------- MODULE StoreProofs -----------------------------
(***************************************************************************)
(* Theorems about what keeps state around the event store: the database    *)
(* over the starts of the program (StoreLifecycle), the pool of workers    *)
(* that loads residuals (ResidualPool), the rank-delta table and its cache *)
(* (RankDeltas) and the remote candidate index (CandidateIndex), for any   *)
(* events, proposals, tenants and databases found, any number of workers,  *)
(* candidates, recalls and callers, and any capacity, retries and limits.  *)
(***************************************************************************)
EXTENDS StoreLifecycle, ResidualPool, RankDeltas, CandidateIndex,
        FiniteSetTheorems, FunctionTheorems, TLAPS

-----------------------------------------------------------------------------
(* The pool.  As long as no error was recorded, what was sent is loaded or *)
(* in a worker's hands; a recall that goes on saw the whole list sent and  *)
(* every worker idle.                                                      *)

PoolTypeOK ==
  /\ sender \in {"select", "check", "closed", "failed", "done"}
  /\ next \in 1..(PoolCandidates + 1)
  /\ holding \in [Workers -> 0..PoolCandidates]
  /\ loaded \subseteq 1..PoolCandidates

SentAccounted ==
  ~firstErr => \A c \in 1..(next - 1) : c \in loaded \/ \E w \in Workers : holding[w] = c

SenderAt ==
  /\ sender = "select" => next <= PoolCandidates
  /\ sender = "closed" => cancelled \/ next = PoolCandidates + 1
  /\ sender = "done" => loaded = 1..PoolCandidates /\ \A w \in Workers : holding[w] = 0

CancelledForCause == cancelled => firstErr \/ expired

PoolInv == PoolTypeOK /\ SentAccounted /\ SenderAt /\ CancelledForCause

\* Every step of the pool keeps its invariant.
LEMMA PoolKeeps == PoolInv /\ [PoolNext]_poolVars => PoolInv'
<1> SUFFICES ASSUME PoolInv, [PoolNext]_poolVars PROVE PoolInv'
  OBVIOUS
<1> USE PoolCandidatesAssumption
<1> USE DEF PoolInv, PoolTypeOK, SentAccounted, SenderAt, CancelledForCause
<1>1. ASSUME NEW w \in Workers, Send(w) PROVE PoolInv'
  <2>1. PoolTypeOK' /\ SenderAt' /\ CancelledForCause'
    BY <1>1 DEF Send
  <2>2. \A v \in Workers : holding'[v] = IF v = w THEN next ELSE holding[v]
    BY <1>1 DEF Send
  <2>3. SentAccounted'
    <3> SUFFICES ASSUME ~firstErr', NEW c \in 1..(next' - 1)
                 PROVE  c \in loaded' \/ \E v \in Workers : holding'[v] = c
      OBVIOUS
    <3>1. CASE c = next
      BY <2>2, <3>1
    <3>2. CASE c # next
      <4>1. c \in loaded \/ \E v \in Workers : holding[v] = c
        BY <1>1, <3>2 DEF Send
      <4> QED BY <1>1, <2>2, <4>1 DEF Send
    <3> QED BY <3>1, <3>2
  <2> QED BY <2>1, <2>3
<1>2. ASSUME NEW w \in Workers, Loads(w) PROVE PoolInv'
  <2>1. \A v \in Workers : holding'[v] = IF v = w THEN 0 ELSE holding[v]
    BY <1>2 DEF Loads
  <2>0. sender # "done" /\ holding[w] \in 1..PoolCandidates
    BY <1>2 DEF Loads
  <2>4. PoolTypeOK'
    <3>1. loaded' \subseteq 1..PoolCandidates
      BY <1>2, <2>0 DEF Loads
    <3>2. holding' \in [Workers -> 0..PoolCandidates]
      BY <1>2 DEF Loads
    <3> QED BY <1>2, <3>1, <3>2 DEF Loads
  <2>2. SenderAt' /\ CancelledForCause'
    BY <1>2, <2>0 DEF Loads
  <2>3. SentAccounted'
    <3> SUFFICES ASSUME ~firstErr', NEW c \in 1..(next' - 1)
                 PROVE  c \in loaded' \/ \E v \in Workers : holding'[v] = c
      OBVIOUS
    <3>1. c \in loaded \/ \E v \in Workers : holding[v] = c
      BY <1>2 DEF Loads
    <3>2. CASE holding[w] = c
      BY <1>2, <3>2 DEF Loads
    <3>3. CASE holding[w] # c
      BY <1>2, <2>1, <3>1, <3>3 DEF Loads
    <3> QED BY <3>2, <3>3
  <2> QED BY <2>2, <2>3, <2>4
<1>3. ASSUME NEW w \in Workers, Fails(w) PROVE PoolInv'
  BY <1>3 DEF Fails
<1>4. CASE SeeDone
  BY <1>4 DEF SeeDone
<1>5. CASE CheckDone
  BY <1>5 DEF CheckDone
<1>6. CASE GoOn
  <2>1. ASSUME sender' = "done" PROVE loaded = 1..PoolCandidates
    <3>1. ~firstErr /\ ~expired /\ sender = "closed"
      BY <1>6, <2>1 DEF GoOn
    <3>2. next = PoolCandidates + 1
      BY <3>1
    <3>3. \A c \in 1..PoolCandidates : c \in loaded
      BY <1>6, <3>1, <3>2 DEF GoOn
    <3> QED BY <3>3
  <2>2. PoolTypeOK' /\ SentAccounted' /\ CancelledForCause'
    BY <1>6 DEF GoOn
  <2>3. SenderAt'
    BY <1>6, <2>1 DEF GoOn
  <2> QED BY <2>2, <2>3
<1>7. CASE Expire
  BY <1>7 DEF Expire
<1>8. CASE UNCHANGED poolVars
  BY <1>8 DEF poolVars
<1> QED BY <1>1, <1>2, <1>3, <1>4, <1>5, <1>6, <1>7, <1>8 DEF PoolNext, Work

\* LoadsComplete: a recall goes on after loadResidualCandidates only with the
\* residuals of every candidate, however workers, errors and deadlines interleave.
THEOREM PoolLoadsComplete == PoolSpec => []LoadsComplete
<1>1. PoolInit => PoolInv
  <2> SUFFICES ASSUME PoolInit PROVE PoolInv
    OBVIOUS
  <2>0. PoolTypeOK
    BY PoolCandidatesAssumption DEF PoolInit, PoolTypeOK
  <2>1. SentAccounted /\ CancelledForCause
    <3>1. next - 1 = 0 /\ ~cancelled
      BY DEF PoolInit
    <3> QED BY <3>1 DEF SentAccounted, CancelledForCause
  <2>2. SenderAt
    BY PoolCandidatesAssumption DEF PoolInit, SenderAt
  <2> QED BY <2>0, <2>1, <2>2 DEF PoolInv
<1>2. PoolInv => LoadsComplete
  BY DEF PoolInv, SenderAt, LoadsComplete
<1> QED BY <1>1, <1>2, PoolKeeps, PTL DEF PoolSpec

-----------------------------------------------------------------------------
(* The database.                                                           *)

Fields == {"kind", "at", "todo", "chosen"}

Places == {"down", "load", "rebuild", "serving", "backup", "check", "copy"}

LifecycleTypeOK ==
  /\ db \in Database /\ origin \in Databases
  /\ proc.at \in Places /\ DOMAIN proc = Fields /\ proc.chosen \subseteq Proposals

\* What the program has established about the marker by the place it is at.
PlaceOK ==
  /\ proc.at = "rebuild" => Usable(db.marker)
  /\ proc.at = "serving" => db.marker = Marker(Current)
  /\ proc.at \in {"load", "rebuild", "serving"} => proc.kind = "daemon"
  /\ proc.at = "copy" => Migratable

\* Up to the publication of a canonical marker the database is as it was found
\* but for what a migration has copied.
SourcesKept ==
  /\ db.raw = origin.raw /\ db.phase1 = origin.phase1
  /\ db.marker.embedding # "canonical" => db.marker = origin.marker

\* What a migration has passed is copied.
CopiedSoFar ==
  proc.at = "copy" => \A e \in Sources \ Malformed : e \in proc.todo \/ e \in db.canonical

KeptInv == LifecycleTypeOK /\ PlaceOK /\ SourcesKept /\ CopiedSoFar /\ EventsKept

\* The first start finds the database as it is.
LEMMA KeptStarts == LifecycleInit => KeptInv
BY LifecycleAssumption
   DEF LifecycleInit, KeptInv, LifecycleTypeOK, PlaceOK, SourcesKept, CopiedSoFar, EventsKept,
       Held, Down, Places, Fields

\* A step that neither publishes a marker, nor copies, nor serves: the database
\* stays and the program goes to a place where it owes nothing.
LEMMA PlaceKeeps ==
  ASSUME KeptInv, UNCHANGED <<db, origin, gone>>, DOMAIN proc' = Fields,
         proc'.chosen \subseteq Proposals,
         proc'.at \in {"down", "load", "backup", "check"},
         proc'.at = "load" => proc'.kind = "daemon"
  PROVE  KeptInv'
BY DEF KeptInv, LifecycleTypeOK, PlaceOK, SourcesKept, CopiedSoFar, EventsKept, Held, Places

\* The events of the first database stay, over any sequence of steps.
LEMMA KeptKeeps == KeptInv /\ [LifecycleNext]_lifecycleVars => KeptInv'
<1> SUFFICES ASSUME KeptInv, [LifecycleNext]_lifecycleVars PROVE KeptInv'
  OBVIOUS
<1> USE LifecycleAssumption
<1>0. ASSUME UNCHANGED <<db, origin>> PROVE Held' = Held
  BY <1>0 DEF Held
<1> USE DEF Fields
<1>1. ASSUME NEW kind \in {"daemon", "legacy", "corpus"}, Start(kind) PROVE KeptInv'
  BY <1>1, PlaceKeeps DEF Start
<1>2. ASSUME Exits, UNCHANGED <<db, origin, gone>> PROVE KeptInv'
  BY <1>2, PlaceKeeps DEF Exits, Down
<1>3. CASE Stop
  BY <1>2, <1>3 DEF Stop
<1>4. CASE Backup
  <2>1. DOMAIN proc' = Fields /\ proc'.at = "check" /\ proc'.chosen \subseteq Proposals
    BY <1>4 DEF Backup, Proceeds, KeptInv, LifecycleTypeOK
  <2> QED BY <1>4, <2>1, PlaceKeeps DEF Backup
<1>5. CASE CheckSource
  <2>1. CASE Migratable
    <3>1. /\ DOMAIN proc' = Fields /\ proc'.at = "copy"
          /\ proc'.kind = proc.kind /\ proc'.todo = Sources /\ proc'.chosen = proc.chosen
          /\ UNCHANGED <<db, origin, gone>>
      BY <1>5, <2>1 DEF CheckSource, Proceeds, KeptInv, LifecycleTypeOK
    <3>2. Migratable' /\ Sources' = Sources
      BY <2>1, <3>1 DEF Migratable, Sources
    <3>3. LifecycleTypeOK' /\ PlaceOK' /\ SourcesKept' /\ CopiedSoFar'
      BY <3>1, <3>2 DEF KeptInv, LifecycleTypeOK, PlaceOK, SourcesKept, CopiedSoFar, Places
    <3>4. EventsKept'
      BY <3>1, <1>0 DEF KeptInv, EventsKept
    <3> QED BY <3>3, <3>4 DEF KeptInv
  <2>2. CASE ~Migratable
    BY <1>2, <1>5, <2>2 DEF CheckSource
  <2> QED BY <2>1, <2>2
<1>6. ASSUME db' = [db EXCEPT !.marker = Marker(Current)], UNCHANGED <<origin, gone>>,
             DOMAIN proc' = Fields, proc'.chosen \subseteq Proposals,
             proc'.at = "down" \/ (proc'.at = "serving" /\ proc'.kind = "daemon"),
             Held \ Malformed \subseteq db.canonical \cup gone
      PROVE  KeptInv'
  <2>1. /\ db' \in Database /\ db'.marker = Marker(Current) /\ db'.raw = db.raw
        /\ db'.phase1 = db.phase1 /\ db'.canonical = db.canonical
    BY <1>6 DEF KeptInv, LifecycleTypeOK, Database, Marker
  <2>2. Held' = Held
    BY <1>6 DEF Held
  <2>3. LifecycleTypeOK' /\ PlaceOK' /\ CopiedSoFar'
    BY <1>6, <2>1 DEF KeptInv, LifecycleTypeOK, PlaceOK, CopiedSoFar, Places
  <2>4. SourcesKept' /\ EventsKept'
    BY <1>6, <2>1, <2>2 DEF KeptInv, SourcesKept, EventsKept, Marker
  <2> QED BY <2>3, <2>4 DEF KeptInv
<1>7. CASE Load
  <2> DEFINE m == db.marker
  <2>0. DOMAIN proc = Fields /\ proc.kind = "daemon" /\ proc.at = "load"
        /\ UNCHANGED <<origin, gone>> /\ proc.chosen \subseteq Proposals
    BY <1>7 DEF Load, KeptInv, LifecycleTypeOK
  <2>1. CASE Exits /\ UNCHANGED db
    BY <1>2, <2>0, <2>1
  <2>2. CASE /\ m = NoMarker /\ db.phase1 = {}
             /\ db' = [db EXCEPT !.marker = Marker(Current)] /\ Proceeds("serving", {})
    <3>1. Held = {}
      BY <2>2 DEF Held, KeptInv, SourcesKept, NoMarker
    <3>2. DOMAIN proc' = Fields /\ proc'.at = "serving" /\ proc'.kind = "daemon"
        /\ proc'.chosen \subseteq Proposals
      BY <2>0, <2>2 DEF Proceeds
    <3> QED BY <1>6, <2>0, <2>2, <3>1, <3>2
  <2>3. CASE Usable(m) /\ UNCHANGED db /\ m.contract = Current /\ Proceeds("serving", {})
    <3>1. DOMAIN proc' = Fields /\ proc'.at = "serving" /\ proc'.kind = "daemon"
        /\ proc'.chosen \subseteq Proposals
      BY <2>0, <2>3 DEF Proceeds
    <3>2. m = Marker(Current)
      BY <2>3 DEF Usable, Marker, KeptInv, LifecycleTypeOK, Database
    <3>3. LifecycleTypeOK' /\ PlaceOK' /\ SourcesKept' /\ CopiedSoFar'
      BY <2>0, <2>3, <3>1, <3>2
         DEF KeptInv, LifecycleTypeOK, PlaceOK, SourcesKept, CopiedSoFar, Places
    <3> QED BY <1>0, <2>0, <2>3, <3>3 DEF KeptInv, EventsKept
  <2>4. CASE Usable(m) /\ UNCHANGED db /\ (Proceeds("rebuild", {}) \/ Choose)
    <3>1. DOMAIN proc' = Fields /\ proc'.at = "rebuild" /\ proc'.kind = "daemon"
          /\ proc'.chosen \subseteq Proposals
      BY <2>0, <2>4 DEF Proceeds, Choose, Standing
    <3>2. LifecycleTypeOK' /\ PlaceOK' /\ SourcesKept' /\ CopiedSoFar'
      BY <2>0, <2>4, <3>1
         DEF KeptInv, LifecycleTypeOK, PlaceOK, SourcesKept, CopiedSoFar, Places
    <3> QED BY <1>0, <2>0, <2>4, <3>2 DEF KeptInv, EventsKept
  <2> QED BY <1>7, <2>1, <2>2, <2>3, <2>4 DEF Load
<1>8. ASSUME NEW t, Rebuild(t) PROVE KeptInv'
  <2>1. /\ db' \in Database /\ db'.marker = db.marker /\ db'.raw = db.raw
        /\ db'.phase1 = db.phase1 /\ db'.canonical = db.canonical
    <3>1. {p \in db.active : Tenant[p] # t} \cup {p \in proc.chosen : Tenant[p] = t} \subseteq Proposals
      BY DEF KeptInv, LifecycleTypeOK, Database
    <3> QED BY <1>8, <3>1 DEF Rebuild, KeptInv, LifecycleTypeOK, Database
  <2>2. /\ DOMAIN proc' = Fields /\ proc'.at = "rebuild" /\ proc'.chosen = proc.chosen
        /\ proc'.kind = "daemon" /\ UNCHANGED <<origin, gone>>
    BY <1>8 DEF Rebuild, Proceeds, KeptInv, LifecycleTypeOK, PlaceOK
  <2>3. LifecycleTypeOK' /\ PlaceOK' /\ SourcesKept' /\ CopiedSoFar'
    BY <1>8, <2>1, <2>2
       DEF Rebuild, KeptInv, LifecycleTypeOK, PlaceOK, SourcesKept, CopiedSoFar, Places
  <2>4. Held' = Held
    BY <2>2 DEF Held
  <2> QED BY <2>1, <2>2, <2>3, <2>4 DEF KeptInv, EventsKept
<1>9. CASE Mark
  <2>1. Held \ Malformed \subseteq db.canonical \cup gone
    BY <1>9 DEF Mark, KeptInv, PlaceOK, Usable, EventsKept
  <2>2. /\ DOMAIN proc' = Fields /\ proc'.at = "serving" /\ proc'.kind = "daemon"
        /\ proc'.chosen \subseteq Proposals
    BY <1>9 DEF Mark, Proceeds, KeptInv, LifecycleTypeOK, PlaceOK
  <2> QED BY <1>6, <1>9, <2>1, <2>2 DEF Mark
<1>10. CASE ServeStore
  <2>1. /\ db' \in Database /\ db'.marker = db.marker /\ db'.raw = db.raw
        /\ db'.phase1 = db.phase1 /\ db.canonical \cup gone \subseteq db'.canonical \cup gone'
    <3> USE DEF KeptInv, LifecycleTypeOK, Database
    <3>1. ASSUME NEW e \in StoredEvents, db' = [db EXCEPT !.canonical = @ \cup {e}],
                 gone' = gone \ {e}
          PROVE  <2>1!:
      BY <3>1
    <3>2. ASSUME NEW e \in db.canonical, db' = [db EXCEPT !.canonical = @ \ {e}],
                 gone' = gone \cup {e}
          PROVE  <2>1!:
      BY <3>2
    <3>3. ASSUME NEW p \in Proposals, UNCHANGED gone,
                 db' = [db EXCEPT !.archive[p] = "open", !.active = @ \cup {p}]
          PROVE  <2>1!:
      BY <3>3
    <3>4. ASSUME NEW p \in Proposals, UNCHANGED gone,
                 db' = [db EXCEPT !.archive[p] = "uncertain", !.active = @ \cup {p}]
          PROVE  <2>1!:
      BY <3>4
    <3>5. ASSUME NEW p \in Proposals, UNCHANGED gone,
                 db' = [db EXCEPT !.archive[p] = "closed", !.active = @ \ {p}]
          PROVE  <2>1!:
      BY <3>5
    <3>6. ASSUME NEW p \in Proposals, UNCHANGED gone, db' = [db EXCEPT !.active = @ \cup {p}]
          PROVE  <2>1!:
      BY <3>6
    <3>7. Archived(db) \subseteq Proposals /\ Unsettled(db) \subseteq Proposals
      BY DEF Archived, Unsettled
    <3> HIDE DEF KeptInv, LifecycleTypeOK, Database
    <3> QED BY <1>10, <3>1, <3>2, <3>3, <3>4, <3>5, <3>6, <3>7 DEF ServeStore
  <2>2. UNCHANGED <<proc, origin>> /\ proc.at = "serving" /\ Held' = Held
    BY <1>10 DEF ServeStore, Held
  <2>3. LifecycleTypeOK' /\ PlaceOK' /\ SourcesKept' /\ CopiedSoFar'
    BY <2>1, <2>2 DEF KeptInv, LifecycleTypeOK, PlaceOK, SourcesKept, CopiedSoFar
  <2> QED BY <2>1, <2>2, <2>3 DEF KeptInv, EventsKept
<1>11. ASSUME NEW e \in StoredEvents, Copy(e) PROVE KeptInv'
  <2>1. /\ db' \in Database /\ db'.marker = db.marker /\ db'.raw = db.raw
        /\ db'.phase1 = db.phase1 /\ db'.canonical = db.canonical \cup ({e} \ Malformed)
    BY <1>11 DEF Copy, KeptInv, LifecycleTypeOK, Database
  <2>2. UNCHANGED <<origin, gone>> /\ db.marker.embedding # "canonical"
    BY <1>11 DEF Copy, KeptInv, PlaceOK, Migratable, NoMarker
  <2>3. CASE Exits
    <3>1. proc' = Down /\ Held' = Held
      BY <2>2, <2>3 DEF Exits, Held
    <3>2. LifecycleTypeOK' /\ PlaceOK' /\ SourcesKept' /\ CopiedSoFar' /\ EventsKept'
      BY <2>1, <2>2, <3>1 DEF Down, KeptInv, LifecycleTypeOK, PlaceOK, SourcesKept,
           CopiedSoFar, EventsKept, Places
    <3> QED BY <3>2 DEF KeptInv
  <2>4. CASE Proceeds("copy", proc.todo \ {e})
    <3>1. /\ DOMAIN proc' = Fields /\ proc'.at = "copy" /\ proc.at = "copy"
          /\ proc'.chosen = proc.chosen
          /\ proc'.kind = proc.kind /\ proc'.todo = proc.todo \ {e} /\ Held' = Held
      BY <1>11, <2>2, <2>4 DEF Copy, Proceeds, KeptInv, LifecycleTypeOK, Held
    <3>2. Migratable' /\ Sources' \subseteq Sources \cup ({e} \ Malformed)
      BY <2>1, <3>1 DEF KeptInv, PlaceOK, Migratable, Sources
    <3>3. CopiedSoFar'
      BY <2>1, <3>1, <3>2 DEF KeptInv, CopiedSoFar
    <3>4. LifecycleTypeOK' /\ PlaceOK' /\ SourcesKept' /\ EventsKept'
      BY <2>1, <2>2, <3>1, <3>2 DEF KeptInv, LifecycleTypeOK, PlaceOK, SourcesKept,
           EventsKept, Places
    <3> QED BY <3>3, <3>4 DEF KeptInv
  <2> QED BY <1>11, <2>3, <2>4 DEF Copy
<1>12. CASE Publish
  <2>1. /\ Migratable /\ \A e \in Sources \ Malformed : e \in db.canonical
        /\ db.marker.embedding # "canonical"
    BY <1>12 DEF Publish, KeptInv, PlaceOK, CopiedSoFar, Migratable, NoMarker
  <2>2. Held \subseteq Sources
    BY <2>1 DEF Held, Sources, Migratable, KeptInv, SourcesKept, NoMarker
  <2>3. proc'.at = "down" /\ DOMAIN proc' = Fields /\ proc'.chosen \subseteq Proposals
    BY <1>12 DEF Publish, Exits, Down
  <2>4. Held \ Malformed \subseteq db.canonical \cup gone
    BY <2>1, <2>2
  <2>5. db' = [db EXCEPT !.marker = Marker(Current)] /\ UNCHANGED <<origin, gone>>
    BY <1>12 DEF Publish
  <2> QED BY <1>6, <2>3, <2>4, <2>5
<1>13. CASE UNCHANGED lifecycleVars
  BY <1>13 DEF lifecycleVars, KeptInv, LifecycleTypeOK, PlaceOK, SourcesKept, CopiedSoFar,
       EventsKept, Held, Migratable, Sources
<1>14. ASSUME NEW p \in Proposals, Lapse(p) PROVE KeptInv'
  <2>1. /\ db' \in Database /\ db'.marker = db.marker /\ db'.raw = db.raw
        /\ db'.phase1 = db.phase1 /\ db'.canonical = db.canonical /\ UNCHANGED <<proc, origin, gone>>
    BY <1>14 DEF Lapse, KeptInv, LifecycleTypeOK, Database
  <2>2. Held' = Held /\ Migratable' = Migratable /\ Sources' = Sources
    BY <2>1 DEF Held, Migratable, Sources
  <2>3. LifecycleTypeOK' /\ PlaceOK' /\ SourcesKept' /\ CopiedSoFar'
    BY <2>1, <2>2 DEF KeptInv, LifecycleTypeOK, PlaceOK, SourcesKept, CopiedSoFar
  <2> QED BY <2>1, <2>2, <2>3 DEF KeptInv, EventsKept
<1> QED BY <1>1, <1>3, <1>4, <1>5, <1>7, <1>8, <1>9, <1>10, <1>11, <1>12, <1>13, <1>14
     DEF LifecycleNext

\* The invariant of the database holds throughout.
THEOREM KeptInvariant == LifecycleSpec => []KeptInv
BY KeptStarts, KeptKeeps, PTL DEF LifecycleSpec

\* EventsKept: once the database carries a marker the daemon accepts, every event
\* it was found with is where the daemon reads, unless the daemon deleted it.
THEOREM MigrationsKeepEvents == LifecycleSpec => []EventsKept
<1>1. KeptInv => EventsKept
  BY DEF KeptInv
<1> QED BY <1>1, KeptInvariant, PTL

-----------------------------------------------------------------------------
(* The projection of the agency records.  Only a canonical database of a   *)
(* contract before the projection may lack it, and the records of a raw    *)
(* corpus of such a contract, which MigrateEventFrameCorpus publishes      *)
(* under the current one without a rebuild.                                *)

Covered == \A p \in Proposals \ Unrebuilt : Projects(db, p)

ProjectionOK ==
  /\ db.active \subseteq Archived(db)
  /\ db.marker.embedding # "canonical" => Archived(db) = Archived(origin)
  /\ db.marker.embedding # "canonical" \/ db.marker.contract >= Projected => Covered

\* While it is rebuilt, the tenants that are done have theirs; what was chosen for
\* the others may have lapsed since.
RebuiltSoFar ==
  proc.at = "rebuild" =>
    /\ proc.todo # {} => Standing(db) \subseteq proc.chosen /\ proc.chosen \subseteq Unsettled(db)
    /\ \A p \in Proposals : Tenant[p] \notin proc.todo /\ p \notin Unrebuilt => Projects(db, p)

ProjectionInv == ProjectionOK /\ RebuiltSoFar

\* The projection as the first start finds it.
LEMMA ProjectionStarts == LifecycleInit => ProjectionInv
<1> SUFFICES ASSUME LifecycleInit PROVE ProjectionInv
  OBVIOUS
<1>1. db \in Databases /\ proc.at = "down" /\ origin = db
  BY DEF LifecycleInit, Down
<1>2. db \in Database /\ db.active \subseteq Archived(db)
  BY <1>1, LifecycleAssumption
<1>3. db.marker.embedding \in {"none", "raw", "canonical"} /\ db.marker.contract \in Nat
  BY <1>2 DEF Database
<1>4. ASSUME NEW p \in Proposals, p \notin Archived(db) PROVE Projects(db, p)
  BY <1>2, <1>4 DEF Projects, Archived, Standing
<1>5. CASE db.marker.contract >= Projected
  BY <1>1, <1>2, <1>5, LifecycleAssumption DEF ProjectionInv, ProjectionOK, RebuiltSoFar, Covered
<1>6. CASE db.marker.embedding = "none"
  <2>1. Archived(db) = {}
    BY <1>1, <1>6, LifecycleAssumption
  <2> QED BY <1>1, <1>2, <1>4, <2>1 DEF ProjectionInv, ProjectionOK, RebuiltSoFar, Covered
<1>7. CASE db.marker.embedding = "raw" /\ ~(db.marker.contract >= Projected)
  <2>1. Unrebuilt = Archived(db)
    BY <1>1, <1>3, <1>7, LifecycleAssumption DEF Unrebuilt
  <2> QED BY <1>1, <1>2, <1>4, <2>1 DEF ProjectionInv, ProjectionOK, RebuiltSoFar, Covered
<1>8. CASE db.marker.embedding = "canonical" /\ ~(db.marker.contract >= Projected)
  BY <1>1, <1>2, <1>8 DEF ProjectionInv, ProjectionOK, RebuiltSoFar
<1> QED BY <1>3, <1>5, <1>6, <1>7, <1>8

\* Whether a record is projected depends on its archive and the projection only.
LEMMA SameRecords ==
  ASSUME NEW d, NEW c, d.archive = c.archive, d.active = c.active
  PROVE  /\ Archived(d) = Archived(c) /\ Unsettled(d) = Unsettled(c) /\ Standing(d) = Standing(c)
         /\ \A p : Projects(d, p) = Projects(c, p)
BY DEF Archived, Unsettled, Standing, Projects

\* A step of a serving daemon, or of time, on one record.
LEMMA OneRecord ==
  ASSUME NEW d \in Database, NEW q \in Proposals,
         NEW status \in {"open", "lapsed", "uncertain", "closed"},
         NEW c, c.archive = [d.archive EXCEPT ![q] = status],
         \/ c.active = d.active \cup {q} /\ status # "closed"
         \/ c.active = d.active \ {q} /\ status = "closed"
         \/ c.active = d.active /\ status = "lapsed" /\ d.archive[q] = "open"
  PROVE  \A p \in Proposals : Projects(d, p) => Projects(c, p)
<1> SUFFICES ASSUME NEW p \in Proposals, Projects(d, p) PROVE Projects(c, p)
  OBVIOUS
<1>1. \A x \in Proposals : c.archive[x] = IF x = q THEN status ELSE d.archive[x]
  BY DEF Database
<1>2. CASE p = q
  BY <1>1, <1>2 DEF Projects, Standing, Unsettled
<1>3. CASE p # q
  BY <1>1, <1>3 DEF Projects, Standing, Unsettled
<1> QED BY <1>2, <1>3

\* Every step keeps it.
LEMMA ProjectionKeeps ==
  KeptInv /\ ProjectionInv /\ [LifecycleNext]_lifecycleVars => ProjectionInv'
<1> SUFFICES ASSUME KeptInv, ProjectionInv, [LifecycleNext]_lifecycleVars PROVE ProjectionInv'
  OBVIOUS
<1> USE LifecycleAssumption
<1>0. /\ db \in Database /\ DOMAIN proc = Fields
      /\ db.marker.contract \in Nat /\ Current \in Nat /\ Projected \in Nat /\ Projected < Current
      /\ db.active \subseteq Archived(db)
      /\ ProjectionOK /\ RebuiltSoFar
  BY DEF KeptInv, LifecycleTypeOK, Database, ProjectionInv, ProjectionOK
<1>a. origin' = origin /\ Unrebuilt' = Unrebuilt
  BY DEF LifecycleNext, lifecycleVars, Start, Load, Rebuild, Mark, ServeStore, Lapse, Backup,
         CheckSource, Copy, Publish, Stop, Unrebuilt
<1>1. ASSUME db'.archive = db.archive, db'.active = db.active, db'.marker = db.marker,
             proc'.at # "rebuild"
      PROVE  ProjectionInv'
  <2>1. Archived(db') = Archived(db) /\ \A p : Projects(db', p) = Projects(db, p)
    BY <1>1, SameRecords
  <2>2. Covered => Covered'
    BY <1>a, <2>1 DEF Covered
  <2> QED BY <1>0, <1>1, <1>a, <2>1, <2>2 DEF ProjectionInv, ProjectionOK, RebuiltSoFar
<1>2. ASSUME db' = [db EXCEPT !.marker = Marker(Current)], proc'.at # "rebuild", Covered
      PROVE  ProjectionInv'
  <2>1. db'.active = db.active /\ db'.archive = db.archive /\ db'.marker = Marker(Current)
    BY <1>0, <1>2 DEF Database
  <2>2. Archived(db') = Archived(db) /\ \A p : Projects(db', p) = Projects(db, p)
    BY <2>1, SameRecords
  <2>3. Covered'
    BY <1>2, <1>a, <2>2 DEF Covered
  <2> QED BY <1>0, <1>2, <2>1, <2>2, <2>3 DEF ProjectionInv, ProjectionOK, RebuiltSoFar, Marker
<1>3. ASSUME NEW kind \in {"daemon", "legacy", "corpus"}, Start(kind) PROVE ProjectionInv'
  BY <1>1, <1>3 DEF Start
<1>4. ASSUME Exits, UNCHANGED db PROVE ProjectionInv'
  BY <1>1, <1>4 DEF Exits, Down
<1>5. CASE Load
  <2> DEFINE m == db.marker
  <2>1. CASE Exits /\ UNCHANGED db
    BY <1>4, <2>1
  <2>2. CASE /\ m = NoMarker /\ Proceeds("serving", {})
             /\ db' = [db EXCEPT !.marker = Marker(Current)]
    <3>1. Covered
      BY <1>0, <2>2 DEF ProjectionOK, NoMarker
    <3>2. proc'.at = "serving"
      BY <1>0, <2>2 DEF Proceeds, Fields
    <3> QED BY <1>2, <2>2, <3>1, <3>2
  <2>3. CASE UNCHANGED db /\ Proceeds("serving", {})
    <3>1. proc'.at = "serving"
      BY <1>0, <2>3 DEF Proceeds, Fields
    <3> QED BY <1>1, <2>3, <3>1
  <2>4. CASE UNCHANGED db /\ m.contract \in Projected..(Current - 1) /\ Proceeds("rebuild", {})
    <3>1. proc'.todo = {}
      BY <1>0, <2>4 DEF Proceeds, Fields
    <3>2. Covered
      BY <1>0, <2>4 DEF ProjectionOK
    <3>3. Covered' /\ Archived(db') = Archived(db) /\ \A p : Projects(db', p) = Projects(db, p)
      BY <1>a, <2>4, <3>2 DEF Covered, Archived
    <3>4. RebuiltSoFar'
      BY <1>a, <3>1, <3>2, <3>3 DEF RebuiltSoFar, Covered
    <3>5. ProjectionOK'
      BY <1>0, <1>a, <2>4, <3>3 DEF ProjectionOK
    <3> QED BY <3>4, <3>5 DEF ProjectionInv
  <2>5. CASE UNCHANGED db /\ Usable(m) /\ m.contract < Projected /\ Choose
    <3>1. proc'.todo = TenantsOf(db) /\ proc'.chosen = Standing(db)
      BY <1>0, <2>5 DEF Choose, Fields
    <3>2. ASSUME NEW p \in Proposals, Tenant[p] \notin proc'.todo PROVE Projects(db, p)
      <4>1. p \notin Archived(db)
        BY <3>1, <3>2 DEF TenantsOf
      <4> QED BY <1>0, <4>1 DEF Archived, Standing, Projects
    <3>3. Standing(db) \subseteq Unsettled(db)
      BY DEF Standing, Unsettled
    <3>4. RebuiltSoFar'
      BY <2>5, <3>1, <3>2, <3>3 DEF RebuiltSoFar
    <3>5. ProjectionOK'
      BY <1>0, <1>a, <2>5 DEF ProjectionOK, Usable
    <3> QED BY <3>4, <3>5 DEF ProjectionInv
  <2> QED BY <1>5, <2>1, <2>2, <2>3, <2>4, <2>5 DEF Load
<1>6. ASSUME NEW t, Rebuild(t) PROVE ProjectionInv'
  <2>1. /\ db'.archive = db.archive /\ db'.marker = db.marker
        /\ db'.active = {p \in db.active : Tenant[p] # t} \cup {p \in proc.chosen : Tenant[p] = t}
        /\ proc.at = "rebuild" /\ t \in proc.todo /\ proc'.todo = proc.todo \ {t}
        /\ proc'.chosen = proc.chosen
    BY <1>0, <1>6 DEF Rebuild, Proceeds, Database, Fields
  <2>2. /\ Standing(db') = Standing(db) /\ Unsettled(db') = Unsettled(db)
        /\ Archived(db') = Archived(db) /\ Unsettled(db) \subseteq Archived(db)
    BY <2>1 DEF Standing, Unsettled, Archived
  <2>3. Standing(db) \subseteq proc.chosen /\ proc.chosen \subseteq Unsettled(db)
    BY <1>0, <2>1 DEF RebuiltSoFar
  <2>4. ASSUME NEW p \in Proposals, Tenant[p] = t PROVE Projects(db', p)
    BY <2>1, <2>2, <2>3, <2>4 DEF Projects
  <2>5. ASSUME NEW p \in Proposals, Tenant[p] # t, Projects(db, p) PROVE Projects(db', p)
    BY <2>1, <2>2, <2>5 DEF Projects
  <2>6. RebuiltSoFar'
    <3> SUFFICES ASSUME NEW p \in Proposals, Tenant[p] \notin proc'.todo, p \notin Unrebuilt
                 PROVE  Projects(db', p)
      BY <1>a, <2>1, <2>2, <2>3 DEF RebuiltSoFar
    <3>1. CASE Tenant[p] = t
      BY <2>4, <3>1
    <3>2. CASE Tenant[p] # t
      BY <1>0, <2>1, <2>5, <3>2 DEF RebuiltSoFar
    <3> QED BY <3>1, <3>2
  <2>7. Covered => Covered'
    BY <1>a, <2>4, <2>5 DEF Covered
  <2>8. db'.active \subseteq Archived(db)
    BY <1>0, <2>1, <2>2, <2>3
  <2>9. ProjectionOK'
    BY <1>0, <1>a, <2>1, <2>2, <2>7, <2>8 DEF ProjectionOK
  <2> QED BY <2>6, <2>9 DEF ProjectionInv
<1>7. CASE Mark
  <2>1. Covered
    BY <1>0, <1>7 DEF Mark, RebuiltSoFar, Covered
  <2>2. proc'.at = "serving"
    BY <1>0, <1>7 DEF Mark, Proceeds, Fields
  <2> QED BY <1>2, <1>7, <2>1, <2>2 DEF Mark
<1>8. CASE ServeStore
  <2>1. proc.at = "serving" /\ UNCHANGED proc
    BY <1>8 DEF ServeStore
  <2>2. db.marker = Marker(Current) /\ db.marker.embedding = "canonical" /\ Covered
    BY <1>0, <2>1 DEF KeptInv, PlaceOK, Marker, ProjectionOK
  <2>3. ASSUME db'.marker = db.marker, \A p \in Proposals : Projects(db, p) => Projects(db', p),
               db'.active \subseteq Archived(db')
        PROVE  ProjectionInv'
    <3>1. Covered'
      BY <1>a, <2>2, <2>3 DEF Covered
    <3> QED BY <2>1, <2>2, <2>3, <3>1 DEF ProjectionInv, ProjectionOK, RebuiltSoFar
  <2>4. ASSUME NEW S, db' = [db EXCEPT !.canonical = S] PROVE ProjectionInv'
    <3>1. db'.archive = db.archive /\ db'.active = db.active /\ db'.marker = db.marker
      BY <1>0, <2>4 DEF Database
    <3> QED BY <1>1, <2>1, <3>1
  <2>5. ASSUME NEW p \in Proposals, NEW status \in {"open", "lapsed", "uncertain"},
               db'.archive = [db.archive EXCEPT ![p] = status],
               db'.active = db.active \cup {p}, db'.marker = db.marker
        PROVE  ProjectionInv'
    <3>1. \A q \in Proposals : Projects(db, q) => Projects(db', q)
      BY <1>0, <2>5, OneRecord
    <3>2. \A x \in Proposals : db'.archive[x] = IF x = p THEN status ELSE db.archive[x]
      BY <1>0, <2>5 DEF Database
    <3>3. db'.active \subseteq Archived(db')
      BY <1>0, <2>5, <3>2 DEF Archived
    <3> QED BY <2>3, <2>5, <3>1, <3>3
  <2>6. ASSUME NEW p \in Proposals \ Archived(db),
               db' = [db EXCEPT !.archive[p] = "open", !.active = @ \cup {p}]
        PROVE  ProjectionInv'
    <3>1. /\ db'.archive = [db.archive EXCEPT ![p] = "open"]
          /\ db'.active = db.active \cup {p} /\ db'.marker = db.marker
      BY <1>0, <2>6 DEF Database
    <3> QED BY <2>5, <3>1
  <2>7. ASSUME NEW p \in Proposals, db.archive[p] \in {"open", "lapsed"},
               db' = [db EXCEPT !.active = @ \cup {p}]
        PROVE  ProjectionInv'
    <3>1. db'.archive = db.archive /\ db'.active = db.active \cup {p} /\ db'.marker = db.marker
      BY <1>0, <2>7 DEF Database
    <3>2. db.archive = [db.archive EXCEPT ![p] = db.archive[p]]
      BY <1>0 DEF Database
    <3> QED BY <2>5, <2>7, <3>1, <3>2
  <2>8. ASSUME NEW p \in Unsettled(db),
               db' = [db EXCEPT !.archive[p] = "closed", !.active = @ \ {p}]
        PROVE  ProjectionInv'
    <3>1. /\ db'.archive = [db.archive EXCEPT ![p] = "closed"] /\ p \in Proposals
          /\ db'.active = db.active \ {p} /\ db'.marker = db.marker
      BY <1>0, <2>8 DEF Database, Unsettled
    <3>2. \A q \in Proposals : Projects(db, q) => Projects(db', q)
      BY <1>0, <3>1, OneRecord
    <3>3. \A x \in Proposals : db'.archive[x] = IF x = p THEN "closed" ELSE db.archive[x]
      BY <1>0, <3>1 DEF Database
    <3>4. db'.active \subseteq Archived(db')
      BY <1>0, <3>1, <3>3 DEF Archived
    <3> QED BY <2>3, <3>1, <3>2, <3>4
  <2>9. ASSUME NEW p \in Archived(db),
               db' = [db EXCEPT !.archive[p] = "uncertain", !.active = @ \cup {p}]
        PROVE  ProjectionInv'
    <3>1. /\ db'.archive = [db.archive EXCEPT ![p] = "uncertain"] /\ p \in Proposals
          /\ db'.active = db.active \cup {p} /\ db'.marker = db.marker
      BY <1>0, <2>9 DEF Database, Archived
    <3> QED BY <2>5, <3>1
  <2> QED BY <1>8, <2>4, <2>6, <2>7, <2>8, <2>9 DEF ServeStore
<1>9. CASE Backup
  <2>1. proc'.at = "check"
    BY <1>0, <1>9 DEF Backup, Proceeds, Fields
  <2> QED BY <1>1, <1>9, <2>1 DEF Backup
<1>10. CASE CheckSource
  <2>1. Proceeds("copy", Sources) => proc'.at # "rebuild"
    BY <1>0 DEF Proceeds, Fields
  <2> QED BY <1>1, <1>4, <1>10, <2>1 DEF CheckSource
<1>11. ASSUME NEW e \in StoredEvents, Copy(e) PROVE ProjectionInv'
  <2>1. db'.active = db.active /\ db'.archive = db.archive /\ db'.marker = db.marker
    BY <1>0, <1>11 DEF Copy, Database
  <2>2. proc'.at # "rebuild"
    <3>1. CASE Exits
      BY <3>1 DEF Exits, Down
    <3>2. CASE Proceeds("copy", proc.todo \ {e})
      BY <1>0, <3>2 DEF Proceeds, Fields
    <3> QED BY <1>11, <3>1, <3>2 DEF Copy
  <2> QED BY <1>1, <2>1, <2>2
<1>12. CASE Publish
  <2>1. Covered
    BY <1>0, <1>12 DEF Publish, KeptInv, PlaceOK, Migratable, NoMarker, ProjectionOK
  <2>2. proc'.at = "down"
    BY <1>12 DEF Publish, Exits, Down
  <2> QED BY <1>2, <1>12, <2>1, <2>2 DEF Publish
<1>13. CASE Stop
  BY <1>4, <1>13 DEF Stop
<1>14. ASSUME NEW q \in Proposals, Lapse(q) PROVE ProjectionInv'
  <2>1. /\ db'.archive = [db.archive EXCEPT ![q] = "lapsed"] /\ db.archive[q] = "open"
        /\ db'.active = db.active /\ db'.marker = db.marker /\ UNCHANGED proc
    BY <1>0, <1>14 DEF Lapse, Database
  <2>2. \A p \in Proposals : Projects(db, p) => Projects(db', p)
    BY <1>0, <2>1, OneRecord
  <2>3. \A x \in Proposals : db'.archive[x] = IF x = q THEN "lapsed" ELSE db.archive[x]
    BY <1>0, <2>1 DEF Database
  <2>4. /\ Archived(db') = Archived(db) /\ Unsettled(db') = Unsettled(db)
        /\ Standing(db') \subseteq Standing(db)
    BY <2>1, <2>3 DEF Archived, Unsettled, Standing
  <2>5. Covered => Covered'
    BY <1>a, <2>2 DEF Covered
  <2>6. ProjectionOK'
    BY <1>0, <1>a, <2>1, <2>4, <2>5 DEF ProjectionOK
  <2>7. RebuiltSoFar'
    BY <1>0, <1>a, <2>1, <2>2, <2>4 DEF RebuiltSoFar
  <2> QED BY <2>6, <2>7 DEF ProjectionInv
<1>15. CASE UNCHANGED lifecycleVars
  <2>1. UNCHANGED <<db, proc>>
    BY <1>15 DEF lifecycleVars
  <2>2. Covered' = Covered
    BY <1>a, <2>1 DEF Covered
  <2>3. ProjectionOK'
    BY <1>0, <1>a, <2>1, <2>2 DEF ProjectionOK
  <2>4. RebuiltSoFar'
    BY <1>0, <1>a, <2>1 DEF RebuiltSoFar
  <2> QED BY <2>3, <2>4 DEF ProjectionInv
<1> QED BY <1>3, <1>5, <1>6, <1>7, <1>8, <1>9, <1>10, <1>11, <1>12, <1>13, <1>14, <1>15
     DEF LifecycleNext

\* MarkedProjects: whatever databases are found, a database under the marker of a
\* contract with the projection projects every standing record and no settled
\* one, over upgrades and migrations cut off anywhere, but for the records that a
\* raw corpus older than the projection was found with.
THEOREM MarkersFollowProjection == LifecycleSpec => []MarkedProjects
<1>1. ProjectionInv => MarkedProjects
  BY DEF ProjectionInv, ProjectionOK, Covered, MarkedProjects
<1> QED BY <1>1, KeptInvariant, ProjectionStarts, ProjectionKeeps, PTL DEF LifecycleSpec

-----------------------------------------------------------------------------
(* The rank-delta table.  What a recall has loaded has one valid row per   *)
(* key, from the cache or from the table, and none of the keys it still    *)
(* looks up; after the merge it is what the recall will store and serve.   *)

Rows == [key : Keys, delta : Deltas, version : Nat, updated : Nat, expires : Nat]

\* At most one row per key.
Keyed(S) == \A r, q \in S : r.key = q.key => r = q

RecallType ==
  [at : {"idle", "cache", "rows", "lock", "commit", "fill", "served"},
   live : SUBSET Rows, now : Nat, version : Nat, todo : SUBSET Keys,
   rows : SUBSET (Keys \cup Rows), loaded : SUBSET Rows, pending : SUBSET Rows]

\* What a recall has loaded so far has one valid row per key, of none of the keys
\* it still has to look up, and after the merge it is the live set.
LoadedOK(c) ==
  /\ Keyed(c.live) /\ Keyed(c.loaded)
  /\ \A r \in c.live \cup c.loaded : ValidFor(r, c.version, c.now)
  /\ c.at = "cache" => /\ c.rows \subseteq Keys /\ c.rows \cap c.todo = {}
                       /\ \A r \in c.loaded : r.key \notin c.rows \cup c.todo
  /\ c.at = "rows" => /\ c.rows \subseteq Rows /\ Keyed(c.rows)
                      /\ \A r \in c.loaded, q \in c.rows : r.key # q.key
  /\ c.at \in {"lock", "commit", "fill", "served"} =>
       /\ \A r \in c.loaded : \E l \in c.live : r.key = l.key /\ r.delta = l.delta
       /\ \A l \in c.live : \E r \in c.loaded : r.key = l.key /\ r.delta = l.delta

\* The cache has at most one entry per key, and the table its rows in place.
CacheOK ==
  /\ cache \in Seq(Rows)
  /\ \A i, j \in DOMAIN cache : cache[i].key = cache[j].key => i = j

TableOK == \A k \in Keys : table[k] = NoRow \/ (table[k] \in Rows /\ table[k].key = k)

DeltaInv ==
  /\ version \in Nat /\ recall \in [Recalls -> RecallType] /\ DOMAIN table = Keys
  /\ CacheOK /\ TableOK
  /\ \A p \in Recalls : LoadedOK(recall[p])

-----------------------------------------------------------------------------

\* A row moved or pushed to the front leaves one entry per key.
LEMMA FrontedOK ==
  ASSUME CacheOK, NEW r \in Rows, NEW n \in Nat,
         n <= IF Cached(r.key) = {} THEN Len(cache) + 1 ELSE Len(cache)
  PROVE  /\ Fronted(r, n) \in Seq(Rows)
         /\ \A i, j \in DOMAIN Fronted(r, n) :
              Fronted(r, n)[i].key = Fronted(r, n)[j].key => i = j
<1> DEFINE f == Fronted(r, n)
           m == Place(r.key)
           N == Len(cache)
<1>1. N \in Nat /\ DOMAIN cache = 1 .. N /\ \A i \in 1 .. N : cache[i] \in Rows
  BY DEF CacheOK
<1>2. /\ m \in 1 .. N + 1
      /\ \A i \in 1 .. N : i # m => cache[i].key # r.key
      /\ n <= N \/ m = N + 1
  <2>1. CASE Cached(r.key) = {}
    <3>1. m = N + 1
      BY <2>1 DEF Place
    <3>2. \A i \in 1 .. N : cache[i].key # r.key
      BY <1>1, <2>1 DEF Cached
    <3> QED BY <1>1, <3>1, <3>2
  <2>2. CASE Cached(r.key) # {}
    <3>1. \E i \in DOMAIN cache : cache[i].key = r.key
      BY <2>2 DEF Cached
    <3>2. m = CHOOSE i \in DOMAIN cache : cache[i].key = r.key
      BY <2>2 DEF Place
    <3>3. m \in DOMAIN cache /\ cache[m].key = r.key
      BY <3>1, <3>2
    <3>4. \A i \in 1 .. N : i # m => cache[i].key # r.key
      BY <1>1, <3>3 DEF CacheOK
    <3> QED BY <1>1, <2>2, <3>3, <3>4
  <2> QED BY <2>1, <2>2
<1>3. f = [i \in 1 .. n |-> IF i = 1 THEN r ELSE IF i <= m THEN cache[i - 1] ELSE cache[i]]
  BY DEF Fronted
<1> HIDE DEF f, m, N
<1>4. n <= N + 1
  BY <1>1, <1>2 DEF N
<1>5. \A i \in 2 .. n : /\ i <= m => i - 1 \in 1 .. N /\ i - 1 # m /\ f[i] = cache[i - 1]
                        /\ i > m => i \in 1 .. N /\ i # m /\ f[i] = cache[i]
  BY <1>1, <1>2, <1>3, <1>4
<1>6. f[1] = r \/ n = 0
  BY <1>3
<1>7. \A i \in 1 .. n : f[i] \in Rows
  <2> TAKE i \in 1 .. n
  <2>1. CASE i = 1
    BY <1>6, <2>1
  <2>2. CASE i \in 2 .. n
    BY <1>1, <1>2, <1>5, <2>2
  <2> QED BY <2>1, <2>2
<1>8. f \in Seq(Rows)
  BY <1>3, <1>7
<1>9. ASSUME NEW i \in 1 .. n, NEW j \in 1 .. n, f[i].key = f[j].key PROVE i = j
  <2>1. \A a \in 1 .. n : a # 1 =>
          \E b \in 1 .. N : b # m /\ f[a] = cache[b] /\ (a <= m => b = a - 1) /\ (a > m => b = a)
    <3> TAKE a \in 1 .. n
    <3> HAVE a # 1
    <3>1. a \in 2 .. n
      OBVIOUS
    <3> QED BY <1>1, <1>2, <1>5, <3>1
  <2>2. \A a \in 1 .. n : a # 1 => f[a].key # r.key
    BY <1>2, <2>1
  <2>3. \A a, b \in 1 .. N : cache[a].key = cache[b].key => a = b
    BY <1>1 DEF CacheOK
  <2>4. CASE i = 1
    BY <1>6, <1>9, <2>2, <2>4
  <2>5. CASE j = 1
    BY <1>6, <1>9, <2>2, <2>5
  <2>6. CASE i # 1 /\ j # 1
    <3>1. PICK a \in 1 .. N : a # m /\ f[i] = cache[a] /\ (i <= m => a = i - 1) /\ (i > m => a = i)
      BY <2>1, <2>6
    <3>2. PICK b \in 1 .. N : b # m /\ f[j] = cache[b] /\ (j <= m => b = j - 1) /\ (j > m => b = j)
      BY <2>1, <2>6
    <3>3. a = b
      BY <1>9, <2>3, <3>1, <3>2
    <3> QED BY <1>1, <1>2, <3>1, <3>2, <3>3
  <2> QED BY <2>4, <2>5, <2>6
<1>10. DOMAIN f = 1 .. n
  BY <1>3
<1> QED BY <1>8, <1>9, <1>10 DEF f

\* The cache keeps one entry per key when a row is put ...
LEMMA PutOK ==
  ASSUME CacheOK, NEW r \in Rows, cache' = Put(r)
  PROVE  CacheOK'
<1> DEFINE n == IF Cached(r.key) = {} /\ Len(cache) < Capacity THEN Len(cache) + 1 ELSE Len(cache)
<1>1. n \in Nat /\ n <= IF Cached(r.key) = {} THEN Len(cache) + 1 ELSE Len(cache)
  BY DEF CacheOK
<1>2. cache' = Fronted(r, n)
  BY DEF Put
<1> HIDE DEF n
<1> QED BY <1>1, <1>2, FrontedOK DEF CacheOK

\* ... and when one is looked up.
LEMMA TouchedOK ==
  ASSUME CacheOK, NEW k, cache' = Touched(k)
  PROVE  CacheOK'
<1>1. CASE Cached(k) = {}
  BY <1>1 DEF Touched, CacheOK
<1>2. CASE Cached(k) # {}
  <2>1. \E i \in DOMAIN cache : cache[i].key = k
    BY <1>2 DEF Cached
  <2>2. Place(k) = CHOOSE i \in DOMAIN cache : cache[i].key = k
    BY <1>2 DEF Place
  <2>3. Place(k) \in DOMAIN cache /\ cache[Place(k)].key = k
    BY <2>1, <2>2
  <2>4. cache[Place(k)] \in Rows /\ Len(cache) \in Nat
    BY <2>3 DEF CacheOK
  <2>5. cache' = Fronted(cache[Place(k)], Len(cache))
    BY <1>2 DEF Touched
  <2>6. Cached(cache[Place(k)].key) # {}
    BY <1>2, <2>3
  <2> DEFINE r == cache[Place(k)]
             n == Len(cache)
  <2>7. r \in Rows /\ n \in Nat /\ cache' = Fronted(r, n) /\ Cached(r.key) # {}
    BY <2>4, <2>5, <2>6
  <2>8. n <= IF Cached(r.key) = {} THEN Len(cache) + 1 ELSE Len(cache)
    BY <2>7
  <2> HIDE DEF r, n
  <2> QED BY <2>7, <2>8, FrontedOK DEF CacheOK
<1> QED BY <1>1, <1>2

\* A lookup finds at most one row.
LEMMA CachedKeyed ==
  ASSUME CacheOK, NEW k
  PROVE  /\ Cached(k) \subseteq Rows /\ Keyed(Cached(k))
         /\ \A r \in Cached(k) : r.key = k
<1>1. \A r \in Cached(k) : \E i \in DOMAIN cache : r = cache[i] /\ r.key = k
  BY DEF Cached
<1>2. \A i \in DOMAIN cache : cache[i] \in Rows
  BY DEF CacheOK
<1> QED BY <1>1, <1>2 DEF CacheOK, Keyed

\* A recall that goes on in order leaves every recall in order.
LEMMA GoesOK ==
  ASSUME recall \in [Recalls -> RecallType], \A p \in Recalls : LoadedOK(recall[p]),
         NEW p \in Recalls, NEW c \in RecallType, LoadedOK(c), Goes(p, c)
  PROVE  /\ recall' \in [Recalls -> RecallType]
         /\ (\A q \in Recalls : LoadedOK(recall[q]))'
<1>1. recall' = [recall EXCEPT ![p] = c]
  BY DEF Goes
<1>2. \A q \in Recalls : recall'[q] = IF q = p THEN c ELSE recall[q]
  BY <1>1
<1>3. \A q \in Recalls : LoadedOK(recall'[q])
  BY <1>2
<1> QED BY <1>1, <1>3

\* A recall that has ended is in order.
LEMMA NoRecallOK == NoRecall \in RecallType /\ LoadedOK(NoRecall)
BY DEF NoRecall, RecallType, LoadedOK, Keyed

-----------------------------------------------------------------------------

\* What a new recall computes: one valid row per key.
LEMMA LiveOK ==
  ASSUME NEW v \in Nat, NEW now \in Nat, NEW live \in Live(v, now)
  PROVE  /\ live \subseteq Rows /\ Keyed(live)
         /\ \A l \in live : ValidFor(l, v, now)
<1>0. PICK K \in SUBSET Keys : \E f \in [K -> Deltas] :
        live = {[key |-> k, delta |-> f[k], version |-> v, updated |-> now,
                 expires |-> now + TTL] : k \in K}
  BY DEF Live
<1>1. PICK f \in [K -> Deltas] :
        live = {[key |-> k, delta |-> f[k], version |-> v, updated |-> now,
                 expires |-> now + TTL] : k \in K}
  BY <1>0
<1>2. TTL \in Nat \ {0}
  BY RankDeltaAssumption
<1>3. \A l \in live : \E k \in K : l = [key |-> k, delta |-> f[k], version |-> v,
                                       updated |-> now, expires |-> now + TTL]
  BY <1>1
<1>4. live \subseteq Rows /\ \A l \in live : ValidFor(l, v, now)
  BY <1>2, <1>3 DEF Rows, ValidFor
<1>5. Keyed(live)
  BY <1>3 DEF Keyed
<1> QED BY <1>4, <1>5

\* The steps of a recall keep it in order.
LEMMA MaterializeKeeps ==
  ASSUME DeltaInv, NEW p \in Recalls, Materialize(p)
  PROVE  DeltaInv'
<1>0. PICK now \in 0 .. MaxTime : \E live \in Live(version, now) :
        Goes(p, [NoRecall EXCEPT !.at = "cache", !.live = live, !.now = now,
                                 !.version = version, !.todo = {r.key : r \in live}])
  BY DEF Materialize
<1>1. PICK live \in Live(version, now) :
        Goes(p, [NoRecall EXCEPT !.at = "cache", !.live = live, !.now = now,
                                 !.version = version, !.todo = {r.key : r \in live}])
  BY <1>0
<1> DEFINE c == [NoRecall EXCEPT !.at = "cache", !.live = live, !.now = now,
                                 !.version = version, !.todo = {r.key : r \in live}]
<1>2. now \in Nat /\ version \in Nat
  BY RankDeltaAssumption DEF DeltaInv
<1>3. live \subseteq Rows /\ Keyed(live) /\ \A l \in live : ValidFor(l, version, now)
  BY <1>2, LiveOK
<1>4. /\ c.at = "cache" /\ c.live = live /\ c.now = now /\ c.version = version
      /\ c.todo = {r.key : r \in live} /\ c.rows = {} /\ c.loaded = {} /\ c.pending = {}
  BY DEF NoRecall
<1>5. c \in RecallType
  <2>1. {r.key : r \in live} \subseteq Keys
    BY <1>3 DEF Rows
  <2> QED BY <1>2, <1>3, <2>1 DEF RecallType, NoRecall
<1>6. LoadedOK(c)
  BY <1>3, <1>4 DEF LoadedOK, Keyed
<1> HIDE DEF c
<1>7. /\ recall' \in [Recalls -> RecallType]
      /\ (\A q \in Recalls : LoadedOK(recall[q]))'
  BY <1>1, <1>5, <1>6, GoesOK DEF DeltaInv, c
<1> QED BY <1>7 DEF Materialize, DeltaInv, CacheOK, TableOK

LEMMA CacheGetKeeps ==
  ASSUME DeltaInv, NEW p \in Recalls, CacheGet(p)
  PROVE  DeltaInv'
<1> DEFINE c == recall[p]
<1>1. PICK k \in c.todo :
        LET hit == {r \in Cached(k) : ValidFor(r, c.version, c.now)}
        IN  /\ cache' = Touched(k)
            /\ Goes(p, [c EXCEPT !.todo = @ \ {k}, !.loaded = @ \cup hit,
                                 !.rows = @ \cup (IF hit = {} THEN {k} ELSE {})])
  BY DEF CacheGet
<1> DEFINE hit == {r \in Cached(k) : ValidFor(r, c.version, c.now)}
           missed == IF hit = {} THEN {k} ELSE {}
           d == [c EXCEPT !.todo = @ \ {k}, !.loaded = @ \cup hit, !.rows = @ \cup missed]
<1>2. c \in RecallType /\ LoadedOK(c) /\ c.at = "cache" /\ CacheOK
  BY DEF DeltaInv, CacheGet
<1>3. hit \subseteq Rows /\ Keyed(hit) /\ \A r \in hit : r.key = k /\ ValidFor(r, c.version, c.now)
  BY <1>2, CachedKeyed DEF Keyed
<1>4. k \in Keys /\ missed \subseteq {k} /\ (hit # {} => missed = {})
  BY <1>2 DEF RecallType
<1> HIDE DEF hit, missed
<1>5. /\ d.at = "cache" /\ d.live = c.live /\ d.now = c.now /\ d.version = c.version
      /\ d.todo = c.todo \ {k} /\ d.loaded = c.loaded \cup hit /\ d.rows = c.rows \cup missed
  BY <1>2 DEF RecallType
<1>6. d \in RecallType
  BY <1>2, <1>3, <1>4 DEF RecallType
<1> HIDE DEF d
<1>7. LoadedOK(d)
  <2>1. Keyed(d.live) /\ \A r \in d.live \cup d.loaded : ValidFor(r, d.version, d.now)
    BY <1>2, <1>3, <1>5 DEF LoadedOK
  <2>2. Keyed(d.loaded)
    BY <1>2, <1>3, <1>5 DEF LoadedOK, Keyed
  <2>3. d.rows \subseteq Keys /\ d.rows \cap d.todo = {}
    BY <1>2, <1>4, <1>5 DEF LoadedOK
  <2>4. \A r \in d.loaded : r.key \notin d.rows \cup d.todo
    BY <1>2, <1>3, <1>4, <1>5 DEF LoadedOK
  <2> QED BY <1>5, <2>1, <2>2, <2>3, <2>4 DEF LoadedOK
<1>8. Goes(p, d) /\ cache' = Touched(k)
  BY <1>1 DEF d, hit, missed
<1>9. /\ recall' \in [Recalls -> RecallType]
      /\ (\A q \in Recalls : LoadedOK(recall[q]))'
  BY <1>6, <1>7, <1>8, GoesOK DEF DeltaInv
<1>10. CacheOK'
  BY <1>2, <1>8, TouchedOK
<1> QED BY <1>9, <1>10 DEF CacheGet, DeltaInv, TableOK

LEMMA QueryKeeps ==
  ASSUME DeltaInv, NEW p \in Recalls, Query(p)
  PROVE  DeltaInv'
<1> DEFINE c == recall[p]
           found == {table[k] : k \in c.rows} \ {NoRow}
           d == [c EXCEPT !.at = "rows", !.rows = found]
<1>1. c \in RecallType /\ LoadedOK(c) /\ c.at = "cache" /\ c.todo = {} /\ c.rows \subseteq Keys
  BY DEF DeltaInv, Query, LoadedOK
<1>2. \A r \in found : \E k \in c.rows : r = table[k] /\ r \in Rows /\ r.key = k
  BY <1>1 DEF DeltaInv, TableOK
<1>3. found \subseteq Rows /\ Keyed(found) /\ \A r \in found : r.key \in c.rows
  BY <1>2 DEF Keyed
<1> HIDE DEF found
<1>4. /\ d.at = "rows" /\ d.live = c.live /\ d.now = c.now /\ d.version = c.version
      /\ d.loaded = c.loaded /\ d.rows = found
  BY <1>1 DEF RecallType
<1>5. d \in RecallType
  BY <1>1, <1>3 DEF RecallType
<1>6. LoadedOK(d)
  BY <1>1, <1>3, <1>4 DEF LoadedOK
<1>7. Goes(p, d) \/ Goes(p, NoRecall)
  BY DEF Query, found
<1> HIDE DEF d
<1>8. /\ recall' \in [Recalls -> RecallType]
      /\ (\A q \in Recalls : LoadedOK(recall[q]))'
  BY <1>5, <1>6, <1>7, GoesOK, NoRecallOK DEF DeltaInv
<1> QED BY <1>8 DEF Query, DeltaInv, CacheOK, TableOK

LEMMA ScanKeeps ==
  ASSUME DeltaInv, NEW p \in Recalls, Scan(p)
  PROVE  DeltaInv'
<1> DEFINE c == recall[p]
<1>1. PICK r \in c.rows :
        /\ cache' = Put(r)
        /\ Goes(p, [c EXCEPT !.rows = @ \ {r},
                      !.loaded = @ \cup (IF ValidFor(r, c.version, c.now) THEN {r} ELSE {})])
  BY DEF Scan
<1> DEFINE new == IF ValidFor(r, c.version, c.now) THEN {r} ELSE {}
           d == [c EXCEPT !.rows = @ \ {r}, !.loaded = @ \cup new]
<1>2. /\ c \in RecallType /\ LoadedOK(c) /\ c.at = "rows" /\ CacheOK
      /\ c.rows \subseteq Rows /\ r \in Rows
  BY DEF DeltaInv, Scan, LoadedOK
<1>3. new \subseteq {r} /\ \A x \in new : ValidFor(x, c.version, c.now)
  OBVIOUS
<1> HIDE DEF new
<1>4. /\ d.at = "rows" /\ d.live = c.live /\ d.now = c.now /\ d.version = c.version
      /\ d.loaded = c.loaded \cup new /\ d.rows = c.rows \ {r}
  BY <1>2 DEF RecallType
<1>5. d \in RecallType
  BY <1>2, <1>3 DEF RecallType
<1> HIDE DEF d
<1>6. LoadedOK(d)
  <2>1. Keyed(d.live) /\ \A x \in d.live \cup d.loaded : ValidFor(x, d.version, d.now)
    BY <1>2, <1>3, <1>4 DEF LoadedOK
  <2>2. Keyed(d.loaded) /\ Keyed(d.rows)
    BY <1>2, <1>3, <1>4 DEF LoadedOK, Keyed
  <2>3. \A x \in d.loaded, q \in d.rows : x.key # q.key
    BY <1>2, <1>3, <1>4 DEF LoadedOK, Keyed
  <2> QED BY <1>2, <1>4, <2>1, <2>2, <2>3 DEF LoadedOK
<1>7. Goes(p, d) /\ cache' = Put(r)
  BY <1>1 DEF d, new
<1>8. /\ recall' \in [Recalls -> RecallType]
      /\ (\A q \in Recalls : LoadedOK(recall[q]))'
  BY <1>5, <1>6, <1>7, GoesOK DEF DeltaInv
<1>9. CacheOK'
  BY <1>2, <1>7, PutOK
<1> QED BY <1>8, <1>9 DEF Scan, DeltaInv, TableOK

LEMMA MergeKeeps ==
  ASSUME DeltaInv, NEW p \in Recalls, Merge(p)
  PROVE  DeltaInv'
<1> DEFINE c == recall[p]
           kept == {r \in c.loaded : \E l \in c.live : Same(r, l)}
           new == {l \in c.live : ~\E r \in kept : r.key = l.key}
           pending == Unwritten(new)
           at == IF pending = {} THEN "served" ELSE "lock"
           d == [c EXCEPT !.loaded = kept \cup new, !.pending = pending, !.at = at]
<1>1. c \in RecallType /\ LoadedOK(c)
  BY DEF DeltaInv
<1>2. /\ kept \subseteq c.loaded /\ new \subseteq c.live /\ pending \subseteq new
      /\ at \in {"served", "lock"}
  BY DEF Unwritten
<1>3. \A r \in kept : \E l \in c.live : r.key = l.key /\ r.delta = l.delta
  BY DEF Same
<1>4. \A r \in kept, l \in new : r.key # l.key
  OBVIOUS
<1>5. \A l \in c.live : l \in new \/ \E r \in kept : r.key = l.key
  OBVIOUS
<1> HIDE DEF kept, new, pending, at
<1>6. /\ d.at = at /\ d.live = c.live /\ d.now = c.now /\ d.version = c.version
      /\ d.loaded = kept \cup new
  BY <1>1 DEF RecallType
<1>7. d \in RecallType
  BY <1>1, <1>2 DEF RecallType
<1>8. Goes(p, d)
  BY DEF Merge, kept, new, pending, at
<1> HIDE DEF d
<1>9. LoadedOK(d)
  <2>1. Keyed(d.live) /\ \A x \in d.live \cup d.loaded : ValidFor(x, d.version, d.now)
    BY <1>1, <1>2, <1>6 DEF LoadedOK
  <2>2. Keyed(d.loaded)
    BY <1>1, <1>2, <1>4, <1>6 DEF LoadedOK, Keyed
  <2>3. \A r \in d.loaded : \E l \in d.live : r.key = l.key /\ r.delta = l.delta
    BY <1>2, <1>3, <1>6
  <2>4. \A l \in d.live : \E r \in d.loaded : r.key = l.key /\ r.delta = l.delta
    <3> TAKE l \in d.live
    <3>1. CASE l \in new
      BY <1>6, <3>1
    <3>2. CASE \E r \in kept : r.key = l.key
      <4>1. PICK r \in kept : r.key = l.key
        BY <3>2
      <4>2. PICK m \in c.live : r.key = m.key /\ r.delta = m.delta
        BY <1>3
      <4>3. m = l
        BY <1>1, <1>6, <4>1, <4>2 DEF LoadedOK, Keyed
      <4> QED BY <1>6, <4>1, <4>2, <4>3
    <3> QED BY <1>5, <1>6, <3>1, <3>2
  <2> QED BY <1>2, <1>6, <2>1, <2>2, <2>3, <2>4 DEF LoadedOK
<1>10. /\ recall' \in [Recalls -> RecallType]
       /\ (\A q \in Recalls : LoadedOK(recall[q]))'
  BY <1>7, <1>8, <1>9, GoesOK DEF DeltaInv
<1> QED BY <1>10 DEF Merge, DeltaInv, CacheOK, TableOK

\* After the merge nothing that was loaded changes.
LEMMA SettledOK ==
  ASSUME NEW c \in RecallType, LoadedOK(c), c.at \in {"lock", "commit", "fill"},
         NEW at \in {"lock", "commit", "fill", "served"}, NEW pending \in SUBSET Rows
  PROVE  /\ [c EXCEPT !.pending = pending, !.at = at] \in RecallType
         /\ LoadedOK([c EXCEPT !.pending = pending, !.at = at])
<1> DEFINE d == [c EXCEPT !.pending = pending, !.at = at]
<1>1. d \in RecallType
  BY DEF RecallType
<1>2. /\ d.at = at /\ d.live = c.live /\ d.now = c.now /\ d.version = c.version
      /\ d.loaded = c.loaded
  BY DEF RecallType
<1> HIDE DEF d
<1>3. LoadedOK(d)
  BY <1>2 DEF LoadedOK
<1> QED BY <1>1, <1>3 DEF d

LEMMA LockKeeps ==
  ASSUME DeltaInv, NEW p \in Recalls, Lock(p)
  PROVE  DeltaInv'
<1> DEFINE c == recall[p]
           pending == Unwritten(c.pending)
           at == IF pending = {} THEN "served" ELSE "commit"
<1>1. c \in RecallType /\ LoadedOK(c) /\ c.at = "lock"
  BY DEF DeltaInv, Lock
<1>2. pending \in SUBSET Rows /\ at \in {"lock", "commit", "fill", "served"}
  BY <1>1 DEF RecallType, Unwritten
<1>3. Goes(p, [c EXCEPT !.pending = pending, !.at = at])
  BY DEF Lock
<1> HIDE DEF c, pending, at
<1>4. /\ recall' \in [Recalls -> RecallType]
      /\ (\A q \in Recalls : LoadedOK(recall[q]))'
  BY <1>1, <1>2, <1>3, SettledOK, GoesOK DEF DeltaInv
<1> QED BY <1>4 DEF Lock, DeltaInv, CacheOK, TableOK

LEMMA CommitKeeps ==
  ASSUME DeltaInv, NEW p \in Recalls, Commit(p)
  PROVE  DeltaInv'
<1> DEFINE c == recall[p]
<1>1. c \in RecallType /\ LoadedOK(c) /\ c.at = "commit" /\ c.pending \subseteq Rows
  BY DEF DeltaInv, Commit, RecallType
<1>2. CASE Goes(p, NoRecall) /\ UNCHANGED table
  <2>1. /\ recall' \in [Recalls -> RecallType]
        /\ (\A q \in Recalls : LoadedOK(recall[q]))'
    BY <1>2, NoRecallOK, GoesOK DEF DeltaInv
  <2> QED BY <1>2, <2>1 DEF Commit, DeltaInv, CacheOK, TableOK
<1>3. CASE /\ table' = [k \in Keys |->
                           IF \E r \in c.pending : r.key = k
                           THEN CHOOSE r \in c.pending : r.key = k ELSE table[k]]
           /\ Goes(p, [c EXCEPT !.at = "fill"])
  <2>1. [c EXCEPT !.at = "fill"] \in RecallType
    BY <1>1 DEF RecallType
  <2>2. LoadedOK([c EXCEPT !.at = "fill"])
    <3> DEFINE d == [c EXCEPT !.at = "fill"]
    <3>1. /\ d.at = "fill" /\ d.live = c.live /\ d.now = c.now /\ d.version = c.version
          /\ d.loaded = c.loaded
      BY <1>1 DEF RecallType
    <3> HIDE DEF d
    <3>2. LoadedOK(d)
      BY <1>1, <3>1 DEF LoadedOK
    <3> QED BY <3>2 DEF d
  <2>3. /\ recall' \in [Recalls -> RecallType]
        /\ (\A q \in Recalls : LoadedOK(recall[q]))'
    BY <1>3, <2>1, <2>2, GoesOK DEF DeltaInv
  <2>4. TableOK'
    <3> SUFFICES ASSUME NEW k \in Keys
                 PROVE  table'[k] = NoRow \/ (table'[k] \in Rows /\ table'[k].key = k)
      BY DEF TableOK
    <3>1. CASE \E r \in c.pending : r.key = k
      <4> DEFINE x == CHOOSE r \in c.pending : r.key = k
      <4>1. x \in c.pending /\ x.key = k
        BY <3>1
      <4>2. table'[k] = x
        BY <1>3, <3>1
      <4> QED BY <1>1, <4>1, <4>2
    <3>2. CASE ~\E r \in c.pending : r.key = k
      BY <1>3, <3>2 DEF DeltaInv, TableOK
    <3> QED BY <3>1, <3>2
  <2> QED BY <1>3, <2>3, <2>4 DEF Commit, DeltaInv, CacheOK
<1> QED BY <1>2, <1>3 DEF Commit

LEMMA FillKeeps ==
  ASSUME DeltaInv, NEW p \in Recalls, Fill(p)
  PROVE  DeltaInv'
<1> DEFINE c == recall[p]
<1>1. PICK r \in c.pending :
        /\ cache' = Put(r)
        /\ Goes(p, [c EXCEPT !.pending = @ \ {r},
                             !.at = IF c.pending = {r} THEN "served" ELSE "fill"])
  BY DEF Fill
<1> DEFINE pending == c.pending \ {r}
           at == IF c.pending = {r} THEN "served" ELSE "fill"
<1>2. /\ c \in RecallType /\ LoadedOK(c) /\ c.at = "fill" /\ CacheOK
      /\ pending \in SUBSET Rows /\ r \in Rows
      /\ at \in {"lock", "commit", "fill", "served"}
  BY DEF DeltaInv, Fill, RecallType
<1>3. Goes(p, [c EXCEPT !.pending = pending, !.at = at]) /\ cache' = Put(r)
  BY <1>1
<1> HIDE DEF c, pending, at
<1>4. /\ recall' \in [Recalls -> RecallType]
      /\ (\A q \in Recalls : LoadedOK(recall[q]))'
  BY <1>2, <1>3, SettledOK, GoesOK DEF DeltaInv
<1>5. CacheOK'
  BY <1>2, <1>3, PutOK
<1> QED BY <1>4, <1>5 DEF Fill, DeltaInv, TableOK

\* The invariant is inductive.
LEMMA DeltaKeeps ==
  ASSUME DeltaInv, [DeltaNext]_deltaVars
  PROVE  DeltaInv'
<1>1. CASE \E p \in Recalls : Finish(p)
  <2>1. PICK p \in Recalls : Finish(p)
    BY <1>1
  <2>2. /\ recall' \in [Recalls -> RecallType]
        /\ (\A q \in Recalls : LoadedOK(recall[q]))'
    BY <2>1, NoRecallOK, GoesOK DEF DeltaInv, Finish
  <2> QED BY <2>1, <2>2 DEF Finish, DeltaInv, CacheOK, TableOK
<1>2. CASE MoveVersion
  BY <1>2 DEF MoveVersion, DeltaInv, CacheOK, TableOK
<1>3. CASE Reopen
  BY <1>3, NoRecallOK DEF Reopen, DeltaInv, CacheOK, TableOK
<1>4. CASE UNCHANGED deltaVars
  BY <1>4 DEF deltaVars, DeltaInv, CacheOK, TableOK
<1> QED BY <1>1, <1>2, <1>3, <1>4, MaterializeKeeps, CacheGetKeeps, QueryKeeps, ScanKeeps,
          MergeKeeps, LockKeeps, CommitKeeps, FillKeeps DEF DeltaNext

\* Sets of rows with the same keys, one row each, have the same size.
LEMMA SameSize ==
  ASSUME NEW S, NEW U, IsFiniteSet(S), Keyed(S), Keyed(U),
         \A r \in S : \E l \in U : r.key = l.key,
         \A l \in U : \E r \in S : r.key = l.key
  PROVE  Cardinality(S) = Cardinality(U)
<1> DEFINE f == [r \in S |-> CHOOSE l \in U : r.key = l.key]
<1>1. \A r \in S : f[r] \in U /\ r.key = f[r].key
  OBVIOUS
<1>2. f \in [S -> U]
  BY <1>1
<1>3. \A r, q \in S : f[r] = f[q] => r = q
  BY <1>1 DEF Keyed
<1>4. \A l \in U : \E r \in S : f[r] = l
  BY <1>1 DEF Keyed
<1> HIDE DEF f
<1>5. f \in Bijection(S, U)
  BY <1>2, <1>3, <1>4, Fun_IsBij
<1>6. ExistsBijection(S, U)
  BY <1>5 DEF ExistsBijection
<1> QED BY <1>6, FS_Bijection

\* DeltasAreLive: whatever the cache and the table hold and whoever else writes
\* them, materializeRankDeltas serves exactly the live deltas.
THEOREM ServesLiveDeltas == DeltaSpec => []DeltasAreLive
<1>1. DeltaInit => DeltaInv
  BY NoRecallOK DEF DeltaInit, DeltaInv, CacheOK, TableOK
<1>2. DeltaInv => DeltasAreLive
  <2> SUFFICES ASSUME DeltaInv, NEW p \in Recalls, recall[p].at = "served"
               PROVE  /\ {<<r.key, r.delta>> : r \in recall[p].loaded} =
                            {<<l.key, l.delta>> : l \in recall[p].live}
                      /\ \A r \in recall[p].loaded :
                           ValidFor(r, recall[p].version, recall[p].now)
                      /\ Cardinality(recall[p].loaded) = Cardinality(recall[p].live)
    BY DEF DeltasAreLive
  <2> DEFINE c == recall[p]
  <2>1. LoadedOK(c) /\ c \in RecallType /\ c.at = "served"
    BY DEF DeltaInv
  <2> HIDE DEF c
  <2>2. /\ \A r \in c.loaded : \E l \in c.live : r.key = l.key /\ r.delta = l.delta
        /\ \A l \in c.live : \E r \in c.loaded : r.key = l.key /\ r.delta = l.delta
        /\ Keyed(c.loaded) /\ Keyed(c.live)
        /\ \A r \in c.loaded : ValidFor(r, c.version, c.now)
    BY <2>1 DEF LoadedOK
  <2>3. {<<r.key, r.delta>> : r \in c.loaded} = {<<l.key, l.delta>> : l \in c.live}
    BY <2>2
  <2>4. IsFiniteSet(c.loaded)
    <3> DEFINE f == [r \in c.loaded |-> r.key]
    <3>1. f \in [c.loaded -> Keys]
      BY <2>1 DEF RecallType, Rows
    <3>2. \A r, q \in c.loaded : f[r] = f[q] => r = q
      BY <2>2 DEF Keyed
    <3>3. f \in Injection(c.loaded, Keys)
      BY <3>1, <3>2, Fun_IsInj
    <3> QED BY <3>3, FS_Injection, RankDeltaAssumption
  <2>5. Cardinality(c.loaded) = Cardinality(c.live)
    BY <2>2, <2>4, SameSize
  <2> QED BY <2>2, <2>3, <2>5 DEF c
<1> QED BY <1>1, <1>2, DeltaKeeps, PTL DEF DeltaSpec

-----------------------------------------------------------------------------
(* The candidate index.  A write holds the lane from its entry to its      *)
(* return, so between an insertion that was taken and its answer no other  *)
(* write is at the service; a settled event is no request's to delete.     *)

TextOrNone == (UNION {Texts[e] : e \in Events}) \cup {None}

CallType ==
  [op : {"none", "observe", "delete", "retain", "recall", "reindex"},
   ids : SUBSET Events, stale : SUBSET Events, text : TextOrNone,
   rpc : {"none", "insert", "delete", "batch", "search", "list"},
   at : {"idle", "nominated", "resolve", "enter", "wait", "send", "done", "judge"},
   attempt : Nat, answer : {"none", "ok", "error", "retryable"}]

GuardType ==
  [failures : Nat, circuit : {"closed", "open", "elapsed"},
   permits : SUBSET Callers, writer : SUBSET Callers]

IndexTypeOK ==
  /\ stored \in [Events -> TextOrNone] /\ index \in [Events -> TextOrNone]
  /\ guard \in GuardType /\ call \in [Callers -> CallType]
  /\ settled \subseteq Events

\* A write from its entry to its return.
InLane(c) == c.rpc \in Writes /\ c.at \in {"wait", "send", "done", "judge"}

\* Which RPCs a request makes: an observation inserts its text or looks it up.
ShapeOK(c) ==
  /\ c.op = "observe" => c.rpc \in {"insert", "list"} /\ c.text # None
  /\ c.op = "reindex" => c.rpc \in {"none", "insert", "list"}
  /\ c.at \in {"nominated", "resolve"} => c.op = "recall" /\ c.rpc = "none"

\* A request that will delete none of S from the index.
Harmless(c, S) ==
  /\ c.rpc \in {"delete", "batch"} => c.ids \cap S = {}
  /\ c.rpc # "search" => c.stale \cap S = {}

\* The insertion of an observation was taken, and its answer is on the way.
Inserted(c) == c.op = "observe" /\ c.rpc = "insert" /\ c.at = "done" /\ c.answer = "ok"

CallOK(p) ==
  LET c == call[p]
  IN  /\ ShapeOK(c) /\ Harmless(c, settled)
      /\ InLane(c) => guard.writer = {p}
      /\ Inserted(c) => \A e \in c.ids : index[e] = c.text

\* One write at a time, none of which costs a settled event its entry.
IndexInv == IndexTypeOK /\ AcknowledgedIndexed /\ \A p \in Callers : CallOK(p)

-----------------------------------------------------------------------------

LEMMA IdleOK ==
  /\ Idle \in CallType /\ ShapeOK(Idle) /\ ~InLane(Idle) /\ ~Inserted(Idle)
  /\ \A S : Harmless(Idle, S)
BY DEF Idle, CallType, ShapeOK, InLane, Inserted, Harmless, TextOrNone, Writes

\* A request that goes on in order, without a change of the store or the index.
LEMMA QuietStep ==
  ASSUME IndexInv, NEW p \in Callers, NEW d \in CallType, call' = [call EXCEPT ![p] = d],
         UNCHANGED <<stored, index, settled>>, guard' \in GuardType,
         ShapeOK(d), Harmless(d, settled),
         InLane(d) => guard'.writer = {p},
         \A q \in Callers \ {p} : guard.writer = {q} => guard'.writer = {q},
         Inserted(d) => \A e \in d.ids : index[e] = d.text
  PROVE  IndexInv'
<1>1. \A q \in Callers : call'[q] = IF q = p THEN d ELSE call[q]
  BY DEF IndexInv, IndexTypeOK
<1>2. IndexTypeOK'
  BY DEF IndexInv, IndexTypeOK
<1>3. AcknowledgedIndexed'
  BY DEF IndexInv, AcknowledgedIndexed
<1>4. ASSUME NEW q \in Callers PROVE CallOK(q)'
  <2>1. CASE q = p
    BY <1>1, <2>1 DEF CallOK
  <2>2. CASE q # p
    BY <1>1, <2>2 DEF CallOK, IndexInv
  <2> QED BY <2>1, <2>2
<1> QED BY <1>2, <1>3, <1>4 DEF IndexInv

\* invoke returns: the lane of another caller is untouched.
LEMMA ReturnStep ==
  ASSUME IndexInv, NEW p \in Callers, NEW g \in GuardType, g.writer = guard.writer,
         NEW d \in CallType, Return(p, g, d), UNCHANGED <<stored, index, settled>>,
         ShapeOK(d), Harmless(d, settled), d.at \notin {"wait", "send", "done", "judge"}
  PROVE  IndexInv'
<1>1. guard' = [g EXCEPT !.permits = @ \ {p}, !.writer = @ \ {p}] /\ call' = [call EXCEPT ![p] = d]
  BY DEF Return, Released
<1>2. guard' \in GuardType /\ guard'.writer = g.writer \ {p}
  BY <1>1 DEF GuardType
<1>3. \A q \in Callers \ {p} : guard.writer = {q} => guard'.writer = {q}
  BY <1>2
<1>4. ~InLane(d) /\ ~Inserted(d)
  BY DEF InLane, Inserted
<1> QED BY <1>1, <1>2, <1>3, <1>4, QuietStep

\* What a request does after a failed RPC ...
LEMMA FailedOK ==
  ASSUME IndexTypeOK, NEW c \in CallType, ShapeOK(c), Harmless(c, settled)
  PROVE  /\ Failed(c) \in CallType /\ ShapeOK(Failed(c)) /\ Harmless(Failed(c), settled)
         /\ Failed(c).at \notin {"wait", "send", "done", "judge"}
<1>1. CASE c.rpc = "insert"
  <2> DEFINE d == Begin(c, "list")
  <2>1. Failed(c) = d
    BY <1>1 DEF Failed
  <2>2. d \in CallType
    BY DEF Begin, CallType
  <2>3. d.op = c.op /\ d.rpc = "list" /\ d.at = "enter" /\ d.stale = c.stale /\ d.text = c.text
    BY DEF Begin, CallType
  <2> HIDE DEF d
  <2> QED BY <1>1, <2>1, <2>2, <2>3 DEF ShapeOK, Harmless
<1>2. CASE c.rpc # "insert" /\ c.op = "reindex" /\ c.rpc = "list"
  <2> DEFINE d == [Idle EXCEPT !.op = "reindex", !.answer = "error"]
  <2>1. Failed(c) = d
    BY <1>2 DEF Failed
  <2>2. d \in CallType /\ d.op = "reindex" /\ d.rpc = "none" /\ d.at = "idle" /\ d.stale = {}
    BY ZenonT(30) DEF Idle, CallType, TextOrNone
  <2> HIDE DEF d
  <2> QED BY <2>1, <2>2 DEF ShapeOK, Harmless
<1>3. CASE c.rpc # "insert" /\ ~(c.op = "reindex" /\ c.rpc = "list")
  <2>1. Failed(c) = Idle
    BY <1>3 DEF Failed
  <2> QED BY <2>1, IdleOK DEF Idle
<1> QED BY <1>1, <1>2, <1>3

\* A reindexing daemon inserts, or is done.
LEMMA ReindexingOK ==
  ASSUME stored \in [Events -> TextOrNone], NEW ids \in SUBSET Events, NEW S
  PROVE  /\ Reindexing(ids) \in CallType /\ ShapeOK(Reindexing(ids))
         /\ Harmless(Reindexing(ids), S)
         /\ Reindexing(ids).at \notin {"wait", "send", "done", "judge"}
<1> DEFINE c == [Idle EXCEPT !.op = "reindex", !.ids = ids]
<1>1. CASE ids = {}
  <2> DEFINE d == [c EXCEPT !.answer = "ok"]
  <2>1. Reindexing(ids) = d
    BY <1>1 DEF Reindexing
  <2>2. d \in CallType /\ d.op = "reindex" /\ d.rpc = "none" /\ d.at = "idle" /\ d.stale = {}
    BY DEF Idle, CallType, TextOrNone
  <2> HIDE DEF d
  <2> QED BY <2>1, <2>2 DEF ShapeOK, Harmless
<1>2. CASE ids # {}
  <2> DEFINE x == CHOOSE e \in ids : TRUE
             d == Begin([c EXCEPT !.text = stored[x]], "insert")
  <2>1. Reindexing(ids) = d
    BY <1>2 DEF Reindexing
  <2>2. x \in Events
    BY <1>2
  <2>3. stored[x] \in TextOrNone
    BY <2>2
  <2> HIDE DEF x
  <2>4. d \in CallType
    BY <2>3 DEF Begin, Idle, CallType
  <2>5. d.op = "reindex" /\ d.rpc = "insert" /\ d.at = "enter" /\ d.stale = {}
    BY DEF Begin, Idle
  <2> HIDE DEF d
  <2> QED BY <2>1, <2>4, <2>5 DEF ShapeOK, Harmless
<1> QED BY <1>1, <1>2

\* ... and after a successful one.
LEMMA SucceededOK ==
  ASSUME IndexTypeOK, NEW c \in CallType, ShapeOK(c), NEW S
  PROVE  /\ Succeeded(c) \in CallType /\ ShapeOK(Succeeded(c)) /\ Harmless(Succeeded(c), S)
         /\ Succeeded(c).at \notin {"wait", "send", "done", "judge"}
<1>1. CASE c.rpc = "search"
  <2> DEFINE d == [Idle EXCEPT !.op = "recall", !.at = "nominated", !.ids = c.stale]
  <2>1. Succeeded(c) = d
    BY <1>1 DEF Succeeded, ShapeOK
  <2>2. d \in CallType
    BY DEF Idle, CallType, TextOrNone
  <2>3. d.op = "recall" /\ d.rpc = "none" /\ d.at = "nominated" /\ d.stale = {}
    BY DEF Idle
  <2> HIDE DEF d
  <2> QED BY <2>1, <2>2, <2>3 DEF ShapeOK, Harmless
<1>2. CASE c.rpc # "search" /\ c.op = "reindex"
  <2> DEFINE ids == c.ids \ Subject(c)
  <2>1. Succeeded(c) = Reindexing(ids)
    BY <1>2 DEF Succeeded
  <2>2. ids \in SUBSET Events
    BY DEF CallType
  <2> HIDE DEF ids
  <2> QED BY <2>1, <2>2, ReindexingOK DEF IndexTypeOK
<1>3. CASE c.rpc # "search" /\ c.op # "reindex"
  <2>1. Succeeded(c) = Idle
    BY <1>3 DEF Succeeded
  <2> QED BY <2>1, IdleOK DEF Idle
<1> QED BY <1>1, <1>2, <1>3

\* Looking at the circuit leaves the lane alone.
LEMMA InspectedOK ==
  ASSUME guard \in GuardType
  PROVE  Inspected(guard) \in GuardType /\ Inspected(guard).writer = guard.writer
BY DEF Inspected, GuardType

\* A request begins, or the recall resolves and repairs what it nominated.
LEMMA BeginOK ==
  ASSUME NEW c \in CallType, NEW rpc \in {"insert", "delete", "batch", "search", "list"}
  PROVE  LET d == Begin(c, rpc)
         IN  /\ d \in CallType /\ d.rpc = rpc /\ d.at = "enter"
             /\ d.op = c.op /\ d.ids = c.ids /\ d.stale = c.stale /\ d.text = c.text
BY DEF Begin, CallType

\* Put keeps the text of a stored event.
LEMMA ObserveKeeps ==
  ASSUME IndexInv, NEW p \in Callers, NEW e \in Events, NEW t \in Texts[e], Observe(p, e, t)
  PROVE  IndexInv'
<1> DEFINE c == [Idle EXCEPT !.op = "observe", !.ids = {e}, !.text = t]
           d == Begin(c, "insert")
<1>1. call' = [call EXCEPT ![p] = d] /\ stored' = [stored EXCEPT ![e] = t]
      /\ UNCHANGED <<index, guard, settled>> /\ stored[e] \in {None, t}
  BY DEF Observe, Serve
<1>2. t \in TextOrNone /\ t # None
  BY CandidateIndexAssumption DEF TextOrNone
<1>3. /\ c \in CallType /\ c.op = "observe" /\ c.ids = {e} /\ c.text = t /\ c.stale = {}
  BY <1>2 DEF Idle, CallType
<1> HIDE DEF c
<1>4. /\ d \in CallType /\ d.rpc = "insert" /\ d.at = "enter" /\ d.op = "observe"
      /\ d.text = t /\ d.stale = {}
  BY <1>3, BeginOK
<1> HIDE DEF d
<1>5. \A q \in Callers : call'[q] = IF q = p THEN d ELSE call[q]
  BY <1>1 DEF IndexInv, IndexTypeOK
<1>6. IndexTypeOK'
  BY <1>1, <1>2, <1>4 DEF IndexInv, IndexTypeOK
<1>7. AcknowledgedIndexed'
  BY <1>1 DEF IndexInv, IndexTypeOK, AcknowledgedIndexed
<1>8. ASSUME NEW q \in Callers PROVE CallOK(q)'
  <2>1. CASE q = p
    BY <1>2, <1>4, <1>5, <2>1 DEF CallOK, ShapeOK, Harmless, InLane, Inserted
  <2>2. CASE q # p
    BY <1>1, <1>5, <2>2 DEF CallOK, IndexInv
  <2> QED BY <2>1, <2>2
<1> QED BY <1>6, <1>7, <1>8 DEF IndexInv

\* What is deleted from the store is no longer settled.
LEMMA RemoveKeeps ==
  ASSUME IndexInv, NEW p \in Callers, NEW S \in SUBSET Events,
         NEW op \in {"delete", "retain"}, NEW rpc \in {"delete", "batch"},
         stored' = [e \in Events |-> IF e \in S THEN None ELSE stored[e]],
         settled' = settled \ S, UNCHANGED <<index, guard>>,
         call' = [call EXCEPT ![p] = Begin([Idle EXCEPT !.op = op, !.ids = S], rpc)]
  PROVE  IndexInv'
<1> DEFINE c == [Idle EXCEPT !.op = op, !.ids = S]
           d == Begin(c, rpc)
<1>1. c \in CallType /\ c.op = op /\ c.ids = S /\ c.stale = {}
  BY DEF Idle, CallType, TextOrNone
<1>2. call' = [call EXCEPT ![p] = d]
  OBVIOUS
<1> HIDE DEF c
<1>3. /\ d \in CallType /\ d.rpc = rpc /\ d.at = "enter" /\ d.op = op
      /\ d.ids = S /\ d.stale = {}
  BY <1>1, BeginOK
<1> HIDE DEF d
<1>4. \A q \in Callers : call'[q] = IF q = p THEN d ELSE call[q]
  BY <1>2 DEF IndexInv, IndexTypeOK
<1>5. IndexTypeOK'
  BY <1>2, <1>3 DEF IndexInv, IndexTypeOK, TextOrNone
<1>6. AcknowledgedIndexed'
  BY DEF IndexInv, IndexTypeOK, AcknowledgedIndexed
<1>7. ASSUME NEW q \in Callers PROVE CallOK(q)'
  <2>1. CASE q = p
    BY <1>3, <1>4, <2>1 DEF CallOK, ShapeOK, Harmless, InLane, Inserted
  <2>2. CASE q # p
    <3>1. CallOK(q)
      BY DEF IndexInv
    <3>2. call'[q] = call[q]
      BY <1>4, <2>2
    <3> QED BY <3>1, <3>2 DEF CallOK, Harmless
  <2> QED BY <2>1, <2>2
<1> QED BY <1>5, <1>6, <1>7 DEF IndexInv

\* A recall asks the index, resolves its nominations and repairs: only what the
\* store does not have becomes stale.
LEMMA RecallKeeps ==
  ASSUME IndexInv, NEW p \in Callers,
         \/ Recall(p) \/ ResolveAll(p) \/ Repair(p) \/ \E e \in Events : Resolve(p, e)
  PROVE  IndexInv'
<1> DEFINE c == call[p]
<1>0. /\ c \in CallType /\ CallOK(p) /\ ShapeOK(c) /\ Harmless(c, settled)
      /\ guard \in GuardType /\ IndexTypeOK
  BY DEF IndexInv, IndexTypeOK, CallOK
<1>1. ASSUME NEW d \in CallType, call' = [call EXCEPT ![p] = d],
             UNCHANGED <<stored, index, guard, settled>>, ShapeOK(d), Harmless(d, settled),
             d.at \in {"idle", "nominated", "resolve", "enter"}
      PROVE  IndexInv'
  <2>1. ~InLane(d) /\ ~Inserted(d)
    BY <1>1 DEF InLane, Inserted
  <2> QED BY <1>0, <1>1, <2>1, QuietStep
<1>2. CASE Recall(p)
  <2> DEFINE b == [Idle EXCEPT !.op = "recall"]
             d == Begin(b, "search")
  <2>1. b \in CallType /\ b.op = "recall"
    BY DEF Idle, CallType, TextOrNone
  <2> HIDE DEF b
  <2>2. d \in CallType /\ d.rpc = "search" /\ d.at = "enter" /\ d.op = "recall"
    BY <2>1, BeginOK
  <2>3. call' = [call EXCEPT ![p] = d] /\ UNCHANGED <<stored, index, guard, settled>>
    BY <1>2 DEF Recall, Serve, b
  <2> HIDE DEF d
  <2> QED BY <1>1, <2>2, <2>3 DEF ShapeOK, Harmless
<1>3. CASE ResolveAll(p)
  <2>1. c.at = "nominated" /\ UNCHANGED <<stored, index, guard, settled>>
        /\ (\/ call' = [call EXCEPT ![p] = Idle]
            \/ call' = [call EXCEPT ![p] = [c EXCEPT !.at = "resolve"]])
    BY <1>3 DEF ResolveAll
  <2> DEFINE d == [c EXCEPT !.at = "resolve"]
  <2>2. /\ d \in CallType /\ d.at = "resolve" /\ d.op = c.op /\ d.rpc = c.rpc
        /\ d.ids = c.ids /\ d.stale = c.stale /\ d.text = c.text
    BY <1>0 DEF CallType
  <2> HIDE DEF d
  <2>3. ShapeOK(d) /\ Harmless(d, settled)
    BY <1>0, <2>1, <2>2 DEF ShapeOK, Harmless
  <2>4. CASE call' = [call EXCEPT ![p] = Idle]
    BY <1>1, <2>1, <2>4, IdleOK DEF Idle
  <2>5. CASE call' = [call EXCEPT ![p] = d]
    BY <1>1, <2>1, <2>2, <2>3, <2>5
  <2> QED BY <2>1, <2>4, <2>5 DEF d
<1>4. CASE Repair(p)
  <2>1. c.at = "resolve" /\ UNCHANGED <<stored, index, guard, settled>>
        /\ (\/ call' = [call EXCEPT ![p] = Idle]
            \/ call' = [call EXCEPT ![p] =
                          Begin([c EXCEPT !.ids = c.stale, !.stale = {}], "batch")])
    BY <1>4 DEF Repair
  <2> DEFINE b == [c EXCEPT !.ids = c.stale, !.stale = {}]
             d == Begin(b, "batch")
  <2>2. b \in CallType /\ b.op = c.op /\ b.ids = c.stale /\ b.stale = {}
    BY <1>0 DEF CallType
  <2> HIDE DEF b
  <2>3. /\ d \in CallType /\ d.at = "enter" /\ d.op = c.op /\ d.rpc = "batch"
        /\ d.ids = c.stale /\ d.stale = {}
    BY <2>2, BeginOK
  <2> HIDE DEF d
  <2>4. c.rpc = "none" /\ c.op = "recall" /\ c.stale \cap settled = {}
    BY <1>0, <2>1 DEF ShapeOK, Harmless
  <2>5. CASE call' = [call EXCEPT ![p] = Idle]
    BY <1>1, <2>1, <2>5, IdleOK DEF Idle
  <2>6. CASE call' = [call EXCEPT ![p] = d]
    <3>1. ShapeOK(d) /\ Harmless(d, settled)
      BY <2>3, <2>4, <2>6 DEF ShapeOK, Harmless
    <3> QED BY <1>1, <2>1, <2>3, <2>6, <3>1
  <2> QED BY <2>1, <2>5, <2>6 DEF d, b
<1>5. CASE \E e \in Events : Resolve(p, e)
  <2>1. PICK e \in Events : Resolve(p, e)
    BY <1>5
  <2> DEFINE new == IF Stale(e) THEN {e} ELSE {}
             d == [c EXCEPT !.ids = @ \ {e}, !.stale = @ \cup new]
  <2>2. c.at = "resolve" /\ UNCHANGED <<stored, index, guard, settled>>
        /\ call' = [call EXCEPT ![p].ids = @ \ {e}, ![p].stale = @ \cup new]
    BY <2>1 DEF Resolve
  <2>3. call' = [call EXCEPT ![p] = d]
    BY <1>0, <2>2 DEF IndexTypeOK, CallType
  <2>4. new \subseteq Events /\ new \cap settled = {}
    BY DEF IndexInv, AcknowledgedIndexed, Stale
  <2> HIDE DEF new
  <2>5. /\ d \in CallType /\ d.at = "resolve" /\ d.op = c.op /\ d.rpc = c.rpc
        /\ d.stale = c.stale \cup new /\ d.text = c.text
    BY <1>0, <2>2, <2>4 DEF CallType
  <2> HIDE DEF d
  <2>6. ShapeOK(d) /\ Harmless(d, settled)
    BY <1>0, <2>2, <2>4, <2>5 DEF ShapeOK, Harmless
  <2> QED BY <1>1, <2>2, <2>3, <2>5, <2>6
<1> QED BY <1>2, <1>3, <1>4, <1>5

-----------------------------------------------------------------------------
(* invoke.                                                                 *)

\* The wait for the lane and for a permit, and the end of a call without effect.
LEMMA WaitKeeps ==
  ASSUME IndexInv, NEW p \in Callers,
         \/ Enter(p) \/ Acquire(p) \/ Cancel(p) \/ Refused(p) \/ Count(p) \/ Judge(p)
  PROVE  IndexInv'
<1> DEFINE c == call[p]
           g == Inspected(guard)
<1>0. /\ c \in CallType /\ ShapeOK(c) /\ Harmless(c, settled)
      /\ (InLane(c) => guard.writer = {p})
      /\ guard \in GuardType /\ IndexTypeOK
      /\ g \in GuardType /\ g.writer = guard.writer
  BY InspectedOK DEF IndexInv, IndexTypeOK, CallOK
<1> HIDE DEF g
<1>1. UNCHANGED <<stored, index, settled>>
  BY DEF Enter, Acquire, Cancel, Refused, Count, Judge
<1>2. CASE Return(p, g, Failed(c)) \/ Return(p, guard, Failed(c))
  BY <1>0, <1>1, <1>2, FailedOK, ReturnStep
<1>3. ASSUME NEW at \in {"wait", "send", "judge"}, call' = [call EXCEPT ![p].at = at],
             guard' \in GuardType, c.at # "nominated", c.at # "resolve",
             c.rpc \in Writes => guard'.writer = {p},
             \A q \in Callers \ {p} : guard.writer = {q} => guard'.writer = {q}
      PROVE  IndexInv'
  <2> DEFINE d == [c EXCEPT !.at = at]
  <2>1. call' = [call EXCEPT ![p] = d]
    BY <1>0, <1>3 DEF IndexTypeOK, CallType
  <2>2. /\ d \in CallType /\ d.at = at /\ d.op = c.op /\ d.rpc = c.rpc /\ d.ids = c.ids
        /\ d.stale = c.stale /\ d.text = c.text
    BY <1>0, <1>3 DEF CallType
  <2> HIDE DEF d
  <2>3. ShapeOK(d) /\ Harmless(d, settled) /\ ~Inserted(d)
    BY <1>0, <1>3, <2>2 DEF ShapeOK, Harmless, Inserted
  <2>4. InLane(d) => guard'.writer = {p}
    BY <1>3, <2>2 DEF InLane
  <2> QED BY <1>1, <1>3, <2>1, <2>2, <2>3, <2>4, QuietStep
<1>4. CASE Enter(p)
  <2> DEFINE write == c.rpc \in Writes
  <2>1. c.at = "enter" /\ (write => guard.writer = {})
        /\ (\/ Return(p, g, Failed(c))
            \/ /\ guard' = IF write THEN [g EXCEPT !.writer = {p}] ELSE g
               /\ call' = [call EXCEPT ![p].at = "wait"])
    BY <1>4 DEF Enter, g
  <2>2. CASE /\ guard' = IF write THEN [g EXCEPT !.writer = {p}] ELSE g
             /\ call' = [call EXCEPT ![p].at = "wait"]
    <3>1. guard' \in GuardType
      BY <1>0, <2>2 DEF GuardType
    <3>2. /\ write => guard'.writer = {p}
          /\ ~write => guard'.writer = guard.writer
      BY <1>0, <2>2 DEF GuardType
    <3>3. \A q \in Callers \ {p} : guard.writer = {q} => guard'.writer = {q}
      BY <2>1, <3>2
    <3> QED BY <1>3, <2>1, <2>2, <3>1, <3>2, <3>3
  <2> QED BY <1>2, <2>1, <2>2
<1>5. CASE Acquire(p)
  <2>1. c.at = "wait"
        /\ (\/ Return(p, g, Failed(c))
            \/ /\ guard' = [g EXCEPT !.permits = @ \cup {p}]
               /\ call' = [call EXCEPT ![p].at = "send"])
    BY <1>5 DEF Acquire, g
  <2>2. CASE /\ guard' = [g EXCEPT !.permits = @ \cup {p}]
             /\ call' = [call EXCEPT ![p].at = "send"]
    <3>1. guard' \in GuardType /\ guard'.writer = guard.writer
      BY <1>0, <2>2 DEF GuardType
    <3>2. c.rpc \in Writes => guard'.writer = {p}
      BY <1>0, <2>1, <3>1 DEF InLane
    <3> QED BY <1>3, <2>1, <2>2, <3>1, <3>2
  <2> QED BY <1>2, <2>1, <2>2
<1>6. CASE Count(p)
  <2>1. guard' = Failure(guard) /\ call' = [call EXCEPT ![p].at = "judge"] /\ c.at = "done"
    BY <1>6 DEF Count
  <2> DEFINE n == guard.failures + 1
             o == IF n >= FailureThreshold THEN "open" ELSE guard.circuit
  <2>4. n \in Nat /\ o \in {"closed", "open", "elapsed"}
    <3>1. guard.failures \in Nat /\ guard.circuit \in {"closed", "open", "elapsed"}
      BY <1>0 DEF GuardType
    <3> QED BY <3>1
  <2>5. guard' = [guard EXCEPT !.failures = n, !.circuit = o]
    BY <2>1 DEF Failure
  <2> HIDE DEF n, o
  <2>2. guard' \in GuardType /\ guard'.writer = guard.writer
    BY <1>0, <2>4, <2>5 DEF GuardType
  <2>3. c.rpc \in Writes => guard'.writer = {p}
    BY <1>0, <2>1, <2>2 DEF InLane
  <2> QED BY <1>3, <2>1, <2>2, <2>3
<1>7. CASE Judge(p)
  <2>1. c.at = "judge"
        /\ (\/ Return(p, g, Failed(c))
            \/ guard' = g /\ call' = [call EXCEPT ![p].at = "send"])
    BY <1>7 DEF Judge, g
  <2>2. CASE guard' = g /\ call' = [call EXCEPT ![p].at = "send"]
    <3>1. c.rpc \in Writes => guard'.writer = {p}
      BY <1>0, <2>1, <2>2 DEF InLane
    <3> QED BY <1>0, <1>3, <2>1, <2>2, <3>1
  <2> QED BY <1>2, <2>1, <2>2
<1>8. CASE Cancel(p) \/ Refused(p)
  BY <1>2, <1>8 DEF Cancel, Refused
<1> QED BY <1>4, <1>5, <1>6, <1>7, <1>8

\* An attempt changes the index alone in the lane: it inserts what is not there,
\* and deletes nothing that is settled.
LEMMA AttemptKeeps ==
  ASSUME IndexInv, NEW p \in Callers, Attempt(p)
  PROVE  IndexInv'
<1> DEFINE c == call[p]
           found == IF c.rpc = "search" THEN Indexed ELSE {}
           b == [c EXCEPT !.attempt = @ + 1, !.stale = found]
           D(a) == [b EXCEPT !.at = "done", !.answer = a]
<1>0. /\ c \in CallType /\ ShapeOK(c) /\ Harmless(c, settled)
      /\ (InLane(c) => guard.writer = {p}) /\ IndexTypeOK
  BY DEF IndexInv, IndexTypeOK, CallOK
<1>1. c.at = "send" /\ UNCHANGED <<stored, guard, settled>>
  BY DEF Attempt
<1>2. \E a \in {"ok", "retryable"} :
        /\ call' = [call EXCEPT ![p] = D(a)]
        /\ \/ Taken(b) /\ index' = Applied(b)
           \/ UNCHANGED index /\ a = "retryable"
  BY DEF Attempt
<1>3. found \subseteq Events /\ (c.rpc # "search" => found = {})
  BY DEF Indexed
<1> HIDE DEF found
<1>4. /\ b \in CallType /\ b.op = c.op /\ b.ids = c.ids /\ b.rpc = c.rpc /\ b.text = c.text
      /\ b.stale = found /\ b.at = "send"
  <2> DEFINE n == c.attempt + 1
  <2>1. n \in Nat
    <3>1. c.attempt \in Nat
      BY <1>0 DEF CallType
    <3> QED BY <3>1
  <2>2. b = [c EXCEPT !.attempt = n, !.stale = found]
    OBVIOUS
  <2> HIDE DEF n, b, c
  <2> QED BY <1>0, <1>1, <1>3, <2>1, <2>2 DEF CallType
<1> HIDE DEF b
<1>5. ASSUME NEW a \in {"ok", "retryable"}
      PROVE  /\ D(a) \in CallType /\ D(a).op = c.op /\ D(a).ids = c.ids /\ D(a).rpc = c.rpc
             /\ D(a).text = c.text /\ D(a).stale = found /\ D(a).at = "done"
             /\ D(a).answer = a
  BY <1>4 DEF CallType
<1>6. PICK a \in {"ok", "retryable"} :
        /\ call' = [call EXCEPT ![p] = D(a)]
        /\ \/ Taken(b) /\ index' = Applied(b)
           \/ UNCHANGED index /\ a = "retryable"
  BY <1>2
<1> DEFINE d == D(a)
<1>7. /\ d \in CallType /\ d.op = c.op /\ d.ids = c.ids /\ d.rpc = c.rpc
      /\ d.text = c.text /\ d.stale = found /\ d.at = "done" /\ d.answer = a
      /\ call' = [call EXCEPT ![p] = d]
  BY <1>5, <1>6
<1> HIDE DEF D, d
<1>8. ShapeOK(d) /\ Harmless(d, settled) /\ (InLane(d) => guard'.writer = {p})
  BY <1>0, <1>1, <1>3, <1>7 DEF ShapeOK, Harmless, InLane
<1>9. \A q \in Callers : call'[q] = IF q = p THEN d ELSE call[q]
  BY <1>0, <1>7 DEF IndexTypeOK
<1>10. CASE UNCHANGED index /\ (a = "retryable" \/ d.rpc # "insert")
  <2>1. ~Inserted(d)
    BY <1>7, <1>10 DEF Inserted
  <2>2. guard' \in GuardType /\ \A q \in Callers \ {p} : guard.writer = {q} => guard'.writer = {q}
    BY <1>0, <1>1 DEF IndexTypeOK
  <2> QED BY <1>1, <1>7, <1>8, <1>10, <2>1, <2>2, QuietStep
<1>11. ASSUME c.rpc \in Writes, index' \in [Events -> TextOrNone],
              \A e \in settled : index'[e] = index[e],
              Inserted(d) => \A e \in d.ids : index'[e] = d.text
       PROVE  IndexInv'
  <2>1. IndexTypeOK'
    BY <1>0, <1>1, <1>7, <1>11 DEF IndexTypeOK
  <2>2. AcknowledgedIndexed'
    BY <1>1, <1>11 DEF IndexInv, AcknowledgedIndexed
  <2>3. ASSUME NEW q \in Callers PROVE CallOK(q)'
    <3>1. CASE q = p
      BY <1>1, <1>8, <1>9, <1>11, <3>1 DEF CallOK
    <3>2. CASE q # p
      <4>1. CallOK(q) /\ call'[q] = call[q]
        BY <1>9, <3>2 DEF IndexInv
      <4>2. guard.writer = {p}
        BY <1>0, <1>1, <1>11 DEF InLane
      <4>3. ~InLane(call[q])
        BY <3>2, <4>1, <4>2 DEF CallOK
      <4>4. ~Inserted(call[q])
        BY <4>3 DEF Inserted, InLane, Writes
      <4> QED BY <1>1, <4>1, <4>3, <4>4 DEF CallOK
    <3> QED BY <3>1, <3>2
  <2> QED BY <2>1, <2>2, <2>3 DEF IndexInv
<1>12. CASE Taken(b) /\ index' = Applied(b) /\ c.rpc = "insert"
  <2>1. index' = [e \in Events |-> IF e \in Subject(b) THEN c.text ELSE index[e]]
    BY <1>4, <1>12 DEF Applied
  <2>2. \A e \in Subject(b) : index[e] = None
    BY <1>4, <1>12 DEF Taken
  <2>3. \A e \in settled : index[e] # None
    BY DEF IndexInv, AcknowledgedIndexed
  <2>4. c.text \in TextOrNone /\ c.ids \subseteq Events
    BY <1>0 DEF CallType
  <2>5. index' \in [Events -> TextOrNone]
    BY <1>0, <2>1, <2>4 DEF IndexTypeOK
  <2>6. \A e \in settled : index'[e] = index[e]
    BY <1>0, <2>1, <2>2, <2>3 DEF IndexTypeOK
  <2>7. Inserted(d) => \A e \in d.ids : index'[e] = d.text
    BY <1>4, <1>7, <2>1, <2>4 DEF Inserted, Subject
  <2> QED BY <1>11, <1>12, <2>5, <2>6, <2>7 DEF Writes
<1>13. CASE index' = Applied(b) /\ c.rpc \in {"delete", "batch"}
  <2>1. index' = [e \in Events |-> IF e \in c.ids THEN None ELSE index[e]]
    BY <1>4, <1>13 DEF Applied
  <2>2. index' \in [Events -> TextOrNone]
    BY <1>0, <2>1 DEF IndexTypeOK, TextOrNone
  <2>3. \A e \in settled : index'[e] = index[e]
    BY <1>0, <1>13, <2>1 DEF IndexTypeOK, Harmless
  <2>4. ~Inserted(d)
    BY <1>7, <1>13 DEF Inserted
  <2> QED BY <1>11, <1>13, <2>2, <2>3, <2>4 DEF Writes
<1>14. CASE index' = Applied(b) /\ c.rpc \notin {"insert", "delete", "batch"}
  <2>1. index' = index
    BY <1>4, <1>14 DEF Applied
  <2> QED BY <1>7, <1>10, <1>14, <2>1
<1> QED BY <1>6, <1>10, <1>12, <1>13, <1>14

\* An observation is acknowledged with its text in the index and nobody about
\* to delete it.
LEMMA AnsweredKeeps ==
  ASSUME IndexInv, NEW p \in Callers, Answered(p)
  PROVE  IndexInv'
<1> DEFINE c == call[p]
<1>0. /\ c \in CallType /\ ShapeOK(c) /\ Harmless(c, settled) /\ CallOK(p) /\ IndexTypeOK
  BY DEF IndexInv, IndexTypeOK, CallOK
<1>1. c.at = "done" /\ c.answer = "ok" /\ UNCHANGED <<stored, index>>
  BY DEF Answered
<1>2. Success(guard) \in GuardType /\ Success(guard).writer = guard.writer
  BY <1>0 DEF Success, GuardType, IndexTypeOK
<1>3. CASE Return(p, Success(guard), Failed(c)) /\ UNCHANGED settled
  BY <1>0, <1>1, <1>2, <1>3, FailedOK, ReturnStep
<1>4. CASE Reconciled(c) /\ Return(p, Success(guard), Succeeded(c)) /\ Acknowledged(p)
  <2> DEFINE d == Succeeded(c)
             new == IF c.op = "observe" THEN {e \in c.ids \ Doomed(p) : stored[e] = c.text}
                    ELSE {}
  <2>1. /\ d \in CallType /\ ShapeOK(d) /\ d.at \notin {"wait", "send", "done", "judge"}
        /\ Harmless(d, settled') /\ ~InLane(d) /\ ~Inserted(d)
    BY <1>0, SucceededOK DEF InLane, Inserted
  <2>2. call' = [call EXCEPT ![p] = d] /\ settled' = settled \cup new
        /\ guard' = [Success(guard) EXCEPT !.permits = @ \ {p}, !.writer = @ \ {p}]
    BY <1>4 DEF Return, Released, Acknowledged
  <2>3. guard' \in GuardType /\ guard'.writer = guard.writer \ {p}
    BY <1>2, <2>2 DEF GuardType
  <2>4. new \subseteq Events
    BY <1>0 DEF CallType
  <2>5. \A e \in new : stored[e] # None /\ index[e] = stored[e]
    <3>1. CASE c.op # "observe"
      BY <3>1
    <3>2. CASE c.op = "observe"
      <4>1. c.text # None /\ c.rpc \in {"insert", "list"} /\ Subject(c) = c.ids
        BY <1>0, <3>2 DEF ShapeOK, Subject
      <4>2. \A e \in c.ids : index[e] = c.text
        BY <1>0, <1>1, <1>4, <3>2, <4>1 DEF CallOK, Inserted, Reconciled
      <4> QED BY <3>2, <4>1, <4>2
    <3> QED BY <3>1, <3>2
  <2>6. \A q \in Callers \ {p} : Harmless(call[q], new)
    <3>1. \A q \in Callers \ {p} :
            /\ call[q].stale \subseteq Doomed(p)
            /\ call[q].rpc \in {"delete", "batch"} => call[q].ids \subseteq Doomed(p)
      BY DEF Doomed
    <3>2. new \cap Doomed(p) = {}
      OBVIOUS
    <3> QED BY <3>1, <3>2 DEF Harmless
  <2> HIDE DEF d, new
  <2>7. \A q \in Callers : call'[q] = IF q = p THEN d ELSE call[q]
    BY <1>0, <2>2 DEF IndexTypeOK
  <2>8. IndexTypeOK'
    BY <1>0, <1>1, <2>1, <2>2, <2>3, <2>4 DEF IndexTypeOK
  <2>9. AcknowledgedIndexed'
    BY <1>1, <2>2, <2>5 DEF IndexInv, AcknowledgedIndexed
  <2>10. ASSUME NEW q \in Callers PROVE CallOK(q)'
    <3>1. CASE q = p
      BY <2>1, <2>7, <3>1 DEF CallOK
    <3>2. CASE q # p
      <4>1. CallOK(q) /\ call'[q] = call[q] /\ Harmless(call[q], new)
        BY <2>6, <2>7, <3>2 DEF IndexInv
      <4>2. Harmless(call[q], settled')
        BY <2>2, <4>1 DEF CallOK, Harmless
      <4>3. guard.writer = {q} => guard'.writer = {q}
        BY <2>3, <3>2
      <4> QED BY <1>1, <4>1, <4>2, <4>3 DEF CallOK
    <3> QED BY <3>1, <3>2
  <2> QED BY <2>8, <2>9, <2>10 DEF IndexInv
<1> QED BY <1>3, <1>4 DEF Answered

\* The circuit's time, and a restart, which forgets every request.
LEMMA RestartKeeps ==
  ASSUME IndexInv, Elapse \/ Ready \/ Restart \/ UNCHANGED indexVars
  PROVE  IndexInv'
<1>1. CASE Elapse \/ Ready \/ UNCHANGED indexVars
  <2>1. guard' \in GuardType /\ guard'.writer = guard.writer
    BY <1>1, InspectedOK DEF IndexInv, IndexTypeOK, Elapse, Ready, GuardType, indexVars
  <2>2. UNCHANGED <<stored, index, call, settled>>
    BY <1>1 DEF Elapse, Ready, indexVars
  <2>3. IndexTypeOK' /\ AcknowledgedIndexed'
    BY <2>1, <2>2 DEF IndexInv, IndexTypeOK, AcknowledgedIndexed
  <2>4. \A p \in Callers : CallOK(p)'
    BY <2>1, <2>2 DEF IndexInv, CallOK
  <2> QED BY <2>3, <2>4 DEF IndexInv
<1>2. CASE Restart
  <2> DEFINE R == Reindexing({e \in Events : stored[e] # None})
  <2>1. UNCHANGED <<stored, index, settled>> /\ guard' = Fresh
        /\ \E f \in [Callers -> {Idle, R}] : call' = f
    BY <1>2 DEF Restart
  <2>2. R \in CallType /\ ShapeOK(R) /\ Harmless(R, settled) /\ ~InLane(R) /\ ~Inserted(R)
    BY ReindexingOK DEF IndexInv, IndexTypeOK, InLane, Inserted
  <2> HIDE DEF R
  <2>3. call' \in [Callers -> CallType]
        /\ \A p \in Callers : call'[p] = Idle \/ call'[p] = R
    BY <2>1, <2>2, IdleOK
  <2>4. guard' \in GuardType
    BY <2>1 DEF Fresh, GuardType
  <2>5. IndexTypeOK' /\ AcknowledgedIndexed'
    BY <2>1, <2>3, <2>4 DEF IndexInv, IndexTypeOK, AcknowledgedIndexed
  <2>6. \A p \in Callers : CallOK(p)'
    BY <2>1, <2>2, <2>3, IdleOK DEF CallOK
  <2> QED BY <2>5, <2>6 DEF IndexInv
<1> QED BY <1>1, <1>2

\* The invariant is inductive.
LEMMA IndexKeeps ==
  ASSUME IndexInv, [IndexNext]_indexVars
  PROVE  IndexInv'
<1>1. ASSUME NEW p \in Callers, NEW e \in Events, Delete(p, e) PROVE IndexInv'
  <2>1. /\ stored' = [x \in Events |-> IF x \in {e} THEN None ELSE stored[x]]
        /\ settled' = settled \ {e} /\ UNCHANGED <<index, guard>>
        /\ call' = [call EXCEPT ![p] = Begin([Idle EXCEPT !.op = "delete", !.ids = {e}], "delete")]
    BY <1>1 DEF Delete, Serve, IndexInv, IndexTypeOK
  <2> QED BY <2>1, RemoveKeeps
<1>2. ASSUME NEW p \in Callers, NEW S \in SUBSET Events, Retain(p, S) PROVE IndexInv'
  <2>1. /\ stored' = [x \in Events |-> IF x \in S THEN None ELSE stored[x]]
        /\ settled' = settled \ S /\ UNCHANGED <<index, guard>>
        /\ call' = [call EXCEPT ![p] = Begin([Idle EXCEPT !.op = "retain", !.ids = S], "batch")]
    BY <1>2 DEF Retain, Serve
  <2> QED BY <2>1, RemoveKeeps
<1> QED BY <1>1, <1>2, ObserveKeeps, RecallKeeps, WaitKeeps, AttemptKeeps, AnsweredKeeps,
          RestartKeeps DEF IndexNext, RequestStep, InvokeStep

\* AcknowledgedIndexed: an acknowledged observation keeps its entry until it is
\* deleted, whatever Observe, Delete, Retain, the repair of nominations, retries
\* and crashes do meanwhile.
THEOREM AcknowledgedStaysIndexed == IndexSpec => []AcknowledgedIndexed
<1>1. IndexInit => IndexInv
  <2> SUFFICES ASSUME IndexInit PROVE IndexInv
    OBVIOUS
  <2>1. IndexTypeOK
    BY IdleOK DEF IndexInit, IndexTypeOK, Fresh, GuardType, TextOrNone
  <2>2. \A p \in Callers : call[p] = Idle
    BY DEF IndexInit
  <2>3. \A p \in Callers : CallOK(p)
    BY <2>2, IdleOK DEF CallOK
  <2> QED BY <2>1, <2>3 DEF IndexInv, IndexInit, AcknowledgedIndexed
<1>2. IndexInv => AcknowledgedIndexed
  BY DEF IndexInv
<1> QED BY <1>1, <1>2, IndexKeeps, PTL DEF IndexSpec
=============================================================================
