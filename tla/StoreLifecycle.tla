--------------------------- MODULE StoreLifecycle ---------------------------
(***************************************************************************)
(* A database over the starts of the daemon: opening it, upgrading its     *)
(* contract marker, and the two offline migrations.  Each writes in        *)
(* several steps, publishes the runtime marker last, and may be cut off    *)
(* between any two of them.                                                *)
(*                                                                         *)
(* Events live in collections named after the embedding they were stored   *)
(* under: the Phase 1 collections, those of the raw-text embedding, and    *)
(* those of the canonical one the daemon uses now.  Agency records live in *)
(* an archive and, while they are open, in a projection per tenant.        *)
(***************************************************************************)
EXTENDS Naturals, FiniteSets

CONSTANTS
  StoredEvents,  \* event IDs
  Malformed,   \* events whose stored record does not decode
  Proposals,   \* agency proposals
  Tenant,      \* proposal -> tenant
  Databases,   \* the databases this daemon finds
  Current,     \* model.ContractVersion
  Projected,   \* the first contract with the active projection
  MaxStarts    \* bound: starts of the program

NoMarker == [embedding |-> "none", contract |-> 0]

Database == [marker : [embedding : {"none", "raw", "canonical"}, contract : Nat],
             phase1 : SUBSET StoredEvents, raw : SUBSET StoredEvents,
             canonical : SUBSET StoredEvents,
             archive : [Proposals -> {"none", "open", "lapsed", "uncertain", "closed"}],
             active : SUBSET Proposals]

\* A record is open while it is pending or claimed, and has lapsed when it is so
\* after its ExpiresAt; approved, rejected and expired ones are closed.
Archived(d) == {p \in Proposals : d.archive[p] # "none"}
Unsettled(d) == {p \in Proposals : d.archive[p] \in {"open", "lapsed", "uncertain"}}
Standing(d) == {p \in Proposals : d.archive[p] \in {"open", "uncertain"}}

\* Proposal p is in the projection if it stands, and only if it is unsettled: a
\* lapsed one leaves it when a claim or a resolution comes across it.
Projects(d, p) ==
  /\ p \in Standing(d) => p \in d.active
  /\ p \in d.active => p \in Unsettled(d)

\* A database without a marker has no agency records; since contract Projected
\* the projection is written with the archive, before it may be missing or stale.
ASSUME LifecycleAssumption ==
  /\ Databases \subseteq Database
  /\ \A d \in Databases :
       /\ d.marker.embedding = "none" => d.marker = NoMarker /\ Archived(d) = {}
       /\ d.active \subseteq Archived(d)
       /\ d.marker.contract >= Projected => \A p \in Proposals : Projects(d, p)
  /\ Malformed \subseteq StoredEvents
  /\ Projected \in Nat \ {0} /\ Current \in Nat /\ Projected < Current
  /\ MaxStarts \in Nat

VARIABLES
  db,       \* the database file
  backups,  \* backup files taken
  proc,     \* the running program and how far it is
  starts,   \* counter of the bound
  origin,   \* not in the code: the database before the first start
  gone      \* not in the code: events the daemon deleted since

lifecycleVars == <<db, backups, proc, starts, origin, gone>>

Marker(contract) == [embedding |-> "canonical", contract |-> contract]

Down == [kind |-> "none", at |-> "down", todo |-> {}, chosen |-> {}]

TenantsOf(d) == {Tenant[p] : p \in Archived(d)}

\* The program goes on, or exits.
Proceeds(at, todo) == proc' = [proc EXCEPT !.at = at, !.todo = todo]
Exits == proc' = Down

-----------------------------------------------------------------------------

\* run: the daemon, -migrate-v1 or -migrate-eventframe-corpus.
Start(kind) ==
  /\ proc = Down /\ starts < MaxStarts
  /\ starts' = starts + 1
  /\ proc' = [kind |-> kind, at |-> IF kind = "daemon" THEN "load" ELSE "backup",
              todo |-> {}, chosen |-> {}]
  /\ UNCHANGED <<db, backups, origin, gone>>

\* The program is killed, fails on an error of the database or the embedder,
\* or is stopped.
Stop ==
  /\ proc # Down /\ Exits
  /\ UNCHANGED <<db, backups, starts, origin, gone>>

\* loadOrInitializeState: a marker of another embedding or of a newer
\* contract is refused, and so are Phase 1 collections without a marker.
Usable(m) == m.embedding = "canonical" /\ m.contract <= Current

\* rebuildActiveAgencyCollections lists the archive at one reading of the clock
\* and chooses the uncertain records and the open ones that have not lapsed.
Choose ==
  proc' = [proc EXCEPT !.at = "rebuild", !.todo = TenantsOf(db), !.chosen = Standing(db)]

Load ==
  /\ proc.kind = "daemon" /\ proc.at = "load"
  /\ LET m == db.marker
     IN  \/ m = NoMarker /\ db.phase1 # {} /\ Exits /\ UNCHANGED db
         \/ /\ m = NoMarker /\ db.phase1 = {}
            /\ db' = [db EXCEPT !.marker = Marker(Current)] /\ Proceeds("serving", {})
         \/ m # NoMarker /\ ~Usable(m) /\ Exits /\ UNCHANGED db
         \/ /\ Usable(m) /\ UNCHANGED db
            /\ \/ m.contract = Current /\ Proceeds("serving", {})
               \/ m.contract \in Projected..(Current - 1) /\ Proceeds("rebuild", {})
               \/ m.contract < Projected /\ Choose
  /\ UNCHANGED <<backups, starts, origin, gone>>

\* It replaces one tenant's projection per transaction by the records chosen.
Rebuild(t) ==
  /\ proc.at = "rebuild" /\ t \in proc.todo
  /\ db' = [db EXCEPT !.active = {p \in @ : Tenant[p] # t}
                                 \cup {p \in proc.chosen : Tenant[p] = t}]
  /\ Proceeds("rebuild", proc.todo \ {t})
  /\ UNCHANGED <<backups, starts, origin, gone>>

\* Fault: the marker is published before the projection is rebuilt.
MarkEarly ==
  /\ proc.at = "rebuild" /\ db.marker.contract < Current
  /\ db' = [db EXCEPT !.marker = Marker(Current)]
  /\ IF proc.todo = {} THEN Proceeds("serving", {}) ELSE UNCHANGED proc
  /\ UNCHANGED <<backups, starts, origin, gone>>

\* The marker is published when every projection is rebuilt.
Mark ==
  /\ proc.at = "rebuild" /\ proc.todo = {}
  /\ db' = [db EXCEPT !.marker = Marker(Current)]
  /\ Proceeds("serving", {})
  /\ UNCHANGED <<backups, starts, origin, gone>>

\* A record's ExpiresAt passes, whether or not a program runs.
Lapse(p) ==
  /\ db.archive[p] = "open"
  /\ db' = [db EXCEPT !.archive[p] = "lapsed"]
  /\ UNCHANGED <<backups, proc, starts, origin, gone>>

\* What the daemon does to a database while it serves: events come and go, a
\* proposal is put, put again (which repairs the projection by a clock reading
\* that may precede its lapse), settled, or reported uncertain whatever it was.
ServeStore ==
  /\ proc.at = "serving"
  /\ \/ \E e \in StoredEvents \ Malformed : /\ db' = [db EXCEPT !.canonical = @ \cup {e}]
                          /\ gone' = gone \ {e}
     \/ \E e \in db.canonical : /\ db' = [db EXCEPT !.canonical = @ \ {e}]
                                /\ gone' = gone \cup {e}
     \/ \E p \in Proposals \ Archived(db) :
          /\ db' = [db EXCEPT !.archive[p] = "open", !.active = @ \cup {p}]
          /\ UNCHANGED gone
     \/ \E p \in Proposals :
          /\ db.archive[p] \in {"open", "lapsed"}
          /\ db' = [db EXCEPT !.active = @ \cup {p}]
          /\ UNCHANGED gone
     \/ \E p \in Unsettled(db) :
          /\ db' = [db EXCEPT !.archive[p] = "closed", !.active = @ \ {p}]
          /\ UNCHANGED gone
     \/ \E p \in Archived(db) :
          /\ db' = [db EXCEPT !.archive[p] = "uncertain", !.active = @ \cup {p}]
          /\ UNCHANGED gone
  /\ UNCHANGED <<backups, proc, starts, origin>>

-----------------------------------------------------------------------------
(* The migrations.                                                         *)

Backup ==
  /\ proc.at = "backup"
  /\ backups' = backups \cup {db}
  /\ Proceeds("check", {})
  /\ UNCHANGED <<db, starts, origin, gone>>

\* MigrateLegacy refuses a database with a marker or without Phase 1
\* collections; MigrateEventFrameCorpus wants the marker of the predecessor.
Migratable ==
  IF proc.kind = "legacy" THEN db.marker = NoMarker /\ db.phase1 # {}
  ELSE db.marker.embedding = "raw"

\* MigrateLegacy reads the Phase 1 collections, MigrateEventFrameCorpus every
\* collection that holds events.
Sources ==
  IF proc.kind = "legacy" THEN db.phase1 ELSE db.phase1 \cup db.raw \cup db.canonical

CheckSource ==
  /\ proc.at = "check"
  /\ IF Migratable THEN Proceeds("copy", Sources) ELSE Exits
  /\ UNCHANGED <<db, backups, starts, origin, gone>>

\* One record is re-embedded into the destination.  One that does not decode
\* is skipped by MigrateLegacy and ends MigrateEventFrameCorpus.
Copy(e) ==
  /\ proc.at = "copy" /\ e \in proc.todo
  /\ IF e \in Malformed /\ proc.kind = "corpus" THEN Exits
     ELSE Proceeds("copy", proc.todo \ {e})
  /\ db' = [db EXCEPT !.canonical = @ \cup ({e} \ Malformed)]
  /\ UNCHANGED <<backups, starts, origin, gone>>

\* Fault: the marker does not wait for the last record.
PublishEarly ==
  /\ proc.at = "copy" /\ (proc.kind = "corpus" => Sources # {})
  /\ db' = [db EXCEPT !.marker = Marker(Current)]
  /\ Exits
  /\ UNCHANGED <<backups, starts, origin, gone>>

\* The marker is published last; an empty corpus is an error.
Publish ==
  /\ proc.at = "copy" /\ proc.todo = {}
  /\ (proc.kind = "corpus" => Sources # {})
  /\ db' = [db EXCEPT !.marker = Marker(Current)]
  /\ Exits
  /\ UNCHANGED <<backups, starts, origin, gone>>

-----------------------------------------------------------------------------

LifecycleInit ==
  /\ db \in Databases /\ origin = db
  /\ backups = {} /\ proc = Down /\ starts = 0 /\ gone = {}

LifecycleNext ==
  \/ \E kind \in {"daemon", "legacy", "corpus"} : Start(kind)
  \/ Load \/ \E t \in {Tenant[p] : p \in Proposals} : Rebuild(t)
  \/ Mark \/ ServeStore \/ \E p \in Proposals : Lapse(p)
  \/ Backup \/ CheckSource \/ \E e \in StoredEvents : Copy(e)
  \/ Publish \/ Stop

LifecycleSpec == LifecycleInit /\ [][LifecycleNext]_lifecycleVars

-----------------------------------------------------------------------------
(* Properties.                                                             *)

\* The events the database held when the daemon found it.
Held ==
  CASE origin.marker.embedding = "canonical" -> origin.canonical
    [] origin.marker.embedding = "raw" -> origin.raw
    [] OTHER -> origin.phase1

\* Once the database carries a marker the daemon accepts, every event it held
\* is in the collections the daemon reads, unless the daemon deleted it since:
\* a migration cut off at any point, and repeated, publishes no partial corpus.
EventsKept ==
  db.marker.embedding = "canonical" => Held \ Malformed \subseteq db.canonical \cup gone

\* The records a raw corpus older than the projection was found with.
Unrebuilt ==
  IF origin.marker.embedding = "raw" /\ origin.marker.contract < Projected
  THEN Archived(origin) ELSE {}

\* A database that carries the marker of a contract with the projection has it: all
\* standing records and no settled one, over upgrades cut off anywhere and records
\* that lapse meanwhile (loadOrInitializeState).  Only the records of a raw
\* corpus older than the projection are not covered: the corpus migration
\* publishes the marker without rebuilding it (see ProjectionRebuilt).
MarkedProjects ==
  db.marker.embedding = "canonical" /\ db.marker.contract >= Projected =>
    \A p \in Proposals \ Unrebuilt : Projects(db, p)

\* docs/architecture.md:375 and docs/protocol.md:449, of every database: a daemon
\* serves authorities from a rebuilt projection, whatever contract the database
\* came from (MigrateEventFrameCorpus, loadOrInitializeState).
ProjectionRebuilt == proc.at = "serving" => \A p \in Proposals : Projects(db, p)

=============================================================================
