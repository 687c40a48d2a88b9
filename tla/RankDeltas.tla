----------------------------- MODULE RankDeltas -----------------------------
(***************************************************************************)
(* Rank deltas: the corrections EventFrame applies to a ranking, kept in a *)
(* SQLite table behind a cache of bounded size.  A recall computes its     *)
(* live deltas, loads what is stored under the same keys, keeps a stored   *)
(* delta only when it is the live one, writes the others back and serves   *)
(* the result.                                                             *)
(*                                                                         *)
(* The cache has a mutex of its own, taken per access; the table is        *)
(* written by one writer at a time.  The six semantic versions a delta is  *)
(* bound to only grow, so one number stands for the tuple.                 *)
(***************************************************************************)
EXTENDS Naturals, Sequences, FiniteSets

CONSTANTS
  Keys,        \* query digest and event of a delta
  Deltas,      \* values of the correction
  Recalls,     \* goroutines that serve recalls
  Capacity,    \* cacheEntries
  TTL,         \* RankDeltaTTL
  MaxVersion,  \* bound: movements of the snapshot
  MaxTime,     \* bound: the largest as_of
  MaxServed    \* bound: recalls served

ASSUME RankDeltaAssumption ==
  /\ IsFiniteSet(Keys)
  /\ {Capacity, TTL} \subseteq Nat \ {0} /\ {MaxVersion, MaxTime, MaxServed} \subseteq Nat

VARIABLES
  version,    \* the semantic versions of the current snapshot
  table,      \* rank_deltas: key -> row or NoRow
  cache,      \* the LRU list, most recently used first
  recall,     \* the recalls in progress
  served,     \* counter of the bound
  committed   \* not in the code: every row that was ever committed

deltaVars == <<version, table, cache, recall, served, committed>>

NoRow == [key |-> "none"]

\* Fault: the value of the correction is not compared.
SameVersion(a, b) == a.key = b.key /\ a.version = b.version

\* sameRankDelta: everything but the times.
Same(a, b) == a.key = b.key /\ a.delta = b.delta /\ a.version = b.version

\* materiallyEqual: everything but UpdatedAt.
MateriallyEqual(a, b) == [a EXCEPT !.updated = 0] = [b EXCEPT !.updated = 0]

\* ValidFor: the versions are the snapshot's, and now is within its validity.
ValidFor(r, v, now) == r.version = v /\ r.updated <= now /\ now < r.expires

\* liveRankDeltaRecords: the corrections of the reliable candidates, some keys.
Live(v, now) ==
  UNION {{{[key |-> k, delta |-> f[k], version |-> v, updated |-> now,
            expires |-> now + TTL] : k \in K} : f \in [K -> Deltas]} :
           K \in SUBSET Keys}

NoRecall == [at |-> "idle", live |-> {}, now |-> 0, version |-> 0, todo |-> {},
         rows |-> {}, loaded |-> {}, pending |-> {}]

-----------------------------------------------------------------------------
(* lruCache.                                                               *)

Cached(k) == {r \in {cache[i] : i \in DOMAIN cache} : r.key = k}

\* The position of a key, one past the end when it is not cached.
Place(k) ==
  IF Cached(k) = {} THEN Len(cache) + 1 ELSE CHOOSE i \in DOMAIN cache : cache[i].key = k

\* r is moved or pushed to the front of a list of n.
Fronted(r, n) ==
  [i \in 1 .. n |-> IF i = 1 THEN r ELSE IF i <= Place(r.key) THEN cache[i - 1] ELSE cache[i]]

\* get moves what it finds to the front.
Touched(k) ==
  IF Cached(k) = {} THEN cache ELSE Fronted(cache[Place(k)], Len(cache))

\* put replaces the entry, or evicts the last one of a full cache.
Put(r) ==
  Fronted(r, IF Cached(r.key) = {} /\ Len(cache) < Capacity THEN Len(cache) + 1
             ELSE Len(cache))

-----------------------------------------------------------------------------
(* materializeRankDeltas.                                                  *)

Goes(p, r) == recall' = [recall EXCEPT ![p] = r]

\* A recall has ranked its frontier at its as_of.
Materialize(p) ==
  /\ recall[p].at = "idle" /\ served < MaxServed
  /\ served' = served + 1
  /\ \E now \in 0 .. MaxTime : \E live \in Live(version, now) :
       Goes(p, [NoRecall EXCEPT !.at = "cache", !.live = live, !.now = now,
                            !.version = version,
                            !.todo = {r.key : r \in live}])
  /\ UNCHANGED <<version, table, cache, committed>>

\* GetBatch looks each key up in the cache ...
CacheGet(p) ==
  LET c == recall[p]
  IN  /\ c.at = "cache"
      /\ \E k \in c.todo :
           LET hit == {r \in Cached(k) : ValidFor(r, c.version, c.now)}
           IN  /\ cache' = Touched(k)
               /\ Goes(p, [c EXCEPT !.todo = @ \ {k}, !.loaded = @ \cup hit,
                                    !.rows = @ \cup (IF hit = {} THEN {k} ELSE {})])
      /\ UNCHANGED <<version, table, served, committed>>

\* ... and reads the rows of the keys it misses in one query; a failed query
\* fails the recall.
Query(p) ==
  LET c == recall[p]
      found == {table[k] : k \in c.rows} \ {NoRow}
  IN  /\ c.at = "cache" /\ c.todo = {}
      /\ \/ Goes(p, [c EXCEPT !.at = "rows", !.rows = found])
         \/ c.rows # {} /\ Goes(p, NoRecall)
      /\ UNCHANGED <<version, table, cache, served, committed>>

\* Each row read is cached, even when a newer one was cached since.
Scan(p) ==
  LET c == recall[p]
  IN  /\ c.at = "rows"
      /\ \E r \in c.rows :
           /\ cache' = Put(r)
           /\ Goes(p, [c EXCEPT !.rows = @ \ {r},
                         !.loaded = @ \cup (IF ValidFor(r, c.version, c.now)
                                            THEN {r} ELSE {})])
      /\ UNCHANGED <<version, table, served, committed>>

\* What the cache does not already hold for sure.
Unwritten(S) == {r \in S : ~\E q \in Cached(r.key) : MateriallyEqual(q, r)}

\* A live delta replaces a loaded one that differs and is to be written.
Merge(p) ==
  LET c == recall[p]
      kept == {r \in c.loaded : \E l \in c.live : Same(r, l)}
      new == {l \in c.live : ~\E r \in kept : r.key = l.key}
      pending == Unwritten(new)
  IN  /\ c.at = "rows" /\ c.rows = {}
      /\ Goes(p, [c EXCEPT !.loaded = kept \cup new, !.pending = pending,
                           !.at = IF pending = {} THEN "served" ELSE "lock"])
      /\ UNCHANGED <<version, table, cache, served, committed>>

\* PutBatch takes the writer's lock and asks the cache once more.
Lock(p) ==
  LET c == recall[p]
      pending == Unwritten(c.pending)
  IN  /\ c.at = "lock" /\ \A q \in Recalls : recall[q].at \notin {"commit", "fill"}
      /\ Goes(p, [c EXCEPT !.pending = pending,
                           !.at = IF pending = {} THEN "served" ELSE "commit"])
      /\ UNCHANGED <<version, table, cache, served, committed>>

\* The transaction commits, or fails and with it the recall.
Commit(p) ==
  LET c == recall[p]
  IN  /\ c.at = "commit"
      /\ \/ /\ table' = [k \in Keys |->
                           IF \E r \in c.pending : r.key = k
                           THEN CHOOSE r \in c.pending : r.key = k ELSE table[k]]
            /\ committed' = committed \cup c.pending
            /\ Goes(p, [c EXCEPT !.at = "fill"])
         \/ Goes(p, NoRecall) /\ UNCHANGED <<table, committed>>
      /\ UNCHANGED <<version, cache, served>>

\* Committed rows are cached one by one, then the lock is released.
Fill(p) ==
  LET c == recall[p]
  IN  /\ c.at = "fill"
      /\ \E r \in c.pending :
           /\ cache' = Put(r)
           /\ Goes(p, [c EXCEPT !.pending = @ \ {r},
                                !.at = IF c.pending = {r} THEN "served" ELSE "fill"])
      /\ UNCHANGED <<version, table, served, committed>>

\* The recall applies its deltas and is over.
Finish(p) ==
  /\ recall[p].at = "served"
  /\ Goes(p, NoRecall)
  /\ UNCHANGED <<version, table, cache, served, committed>>

\* Another request moves the snapshot.
MoveVersion ==
  /\ version < MaxVersion
  /\ version' = version + 1
  /\ UNCHANGED <<table, cache, recall, served, committed>>

\* The daemon is restarted: the table stays.
Reopen ==
  /\ cache # <<>>
  /\ cache' = <<>> /\ recall' = [p \in Recalls |-> NoRecall]
  /\ UNCHANGED <<version, table, served, committed>>

DeltaInit ==
  /\ version = 0 /\ table = [k \in Keys |-> NoRow] /\ cache = <<>>
  /\ recall = [p \in Recalls |-> NoRecall] /\ served = 0 /\ committed = {}

DeltaNext ==
  \/ \E p \in Recalls : \/ Materialize(p) \/ CacheGet(p) \/ Query(p) \/ Scan(p) \/ Merge(p)
                        \/ Lock(p) \/ Commit(p) \/ Fill(p) \/ Finish(p)
  \/ MoveVersion \/ Reopen

DeltaSpec == DeltaInit /\ [][DeltaNext]_deltaVars

-----------------------------------------------------------------------------
(* Properties.                                                             *)

\* A recall serves exactly its live deltas, whatever older, newer or
\* concurrent rows the cache and the table offered it: one per key, of the
\* live value, bound to the versions of its own snapshot.
DeltasAreLive ==
  \A p \in Recalls :
    LET c == recall[p]
    IN  c.at = "served" =>
          /\ {<<r.key, r.delta>> : r \in c.loaded} =
               {<<l.key, l.delta>> : l \in c.live}
          /\ \A r \in c.loaded : ValidFor(r, c.version, c.now)
          /\ Cardinality(c.loaded) = Cardinality(c.live)

=============================================================================
