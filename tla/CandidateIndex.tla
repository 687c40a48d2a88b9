--------------------------- MODULE CandidateIndex ---------------------------
(***************************************************************************)
(* The candidate index a daemon keeps in a remote LibraVDB service, and    *)
(* the contract client it is reached through: a write lane of one, a       *)
(* limited number of calls, retries and a circuit breaker.                 *)
(*                                                                         *)
(* The event store commits first; the index follows by remote calls that   *)
(* may fail, take effect without an answer, or be cut off by a crash.      *)
(* Recall nominates from the index, resolves what it nominated in the      *)
(* store and deletes from the index what the store no longer has.          *)
(*                                                                         *)
(* One tenant, hence one collection.  An event is its ID and the digest of *)
(* its canonical text.  Wall time is kept only as far as openUntil tells   *)
(* it apart: the circuit is open, or its time has elapsed.                 *)
(***************************************************************************)
EXTENDS Naturals, FiniteSets

CONSTANTS
  Events,           \* event IDs
  Future,           \* those not available yet at any request's as_of
  Texts,            \* ID -> the digests of the texts it is observed with
  Callers,          \* goroutines that serve requests
  MaxConcurrent,    \* MaxConcurrent
  MaxAttempts,      \* MaxAttempts
  FailureThreshold, \* FailureThreshold
  MaxCalls,         \* bound: requests served
  MaxRestarts       \* bound: restarts of the daemon

None == "none"

ASSUME CandidateIndexAssumption ==
  /\ Future \subseteq Events
  /\ \A e \in Events : None \notin Texts[e]
  /\ {MaxConcurrent, MaxAttempts, FailureThreshold} \subseteq Nat \ {0}
  /\ {MaxCalls, MaxRestarts} \subseteq Nat

VARIABLES
  stored,    \* the event store: ID -> text or None
  index,     \* the remote collection: ID -> text or None
  guard,     \* contractGuard and writeMu
  call,      \* the request each caller serves
  mode,      \* how the daemon was started
  calls, restarts,   \* counters of the bounds
  settled    \* not in the code: events whose observation was acknowledged
             \* while they were stored and nobody was about to delete them
             \* from the index, and that were not deleted since

indexVars == <<stored, index, guard, call, mode, calls, restarts, settled>>

Writes == {"insert", "delete", "batch"}

Idle == [op |-> "none", ids |-> {}, stale |-> {}, text |-> None,
         rpc |-> "none", at |-> "idle", attempt |-> 0, answer |-> "none"]

Fresh == [failures |-> 0, circuit |-> "closed", permits |-> {}, writer |-> {}]

-----------------------------------------------------------------------------
(* The guard.                                                              *)

\* isOpen, which also forgets a circuit whose time has elapsed.
Inspected(g) ==
  IF g.circuit = "elapsed" THEN [g EXCEPT !.circuit = "closed", !.failures = 0]
  ELSE g

Failure(g) ==
  LET n == g.failures + 1
  IN  [g EXCEPT !.failures = n,
                !.circuit = IF n >= FailureThreshold THEN "open" ELSE @]

Success(g) == [g EXCEPT !.failures = 0, !.circuit = "closed"]

\* Fault: a call that ends keeps the write lane.
ReleasedPermit(g, p) == [g EXCEPT !.permits = @ \ {p}]

\* invoke's deferred calls: the permit and the write lane are given back.
Released(g, p) == [g EXCEPT !.permits = @ \ {p}, !.writer = @ \ {p}]

\* An RPC begins.
Begin(c, rpc) ==
  [c EXCEPT !.rpc = rpc, !.attempt = 0, !.answer = "none", !.at = "enter"]

-----------------------------------------------------------------------------
(* The requests: how they go on after the store and after each RPC.        *)

Indexed == {e \in Events : index[e] # None}

\* IDs some other request is about to delete from the index.
Doomed(p) ==
  UNION {call[q].stale \cup
         (IF call[q].rpc \in {"delete", "batch"} THEN call[q].ids ELSE {}) :
           q \in Callers \ {p}}

\* A reindexing daemon ensures one listed event after the other.
Reindexing(ids) ==
  LET c == [Idle EXCEPT !.op = "reindex", !.ids = ids]
  IN  IF ids = {} THEN [c EXCEPT !.answer = "ok"]
      ELSE Begin([c EXCEPT !.text = stored[CHOOSE e \in ids : TRUE]], "insert")

\* The event an insertion is about.
Subject(c) == IF c.op = "reindex" THEN {CHOOSE e \in c.ids : TRUE} ELSE c.ids

\* An RPC did its work: a search is resolved, EnsureText is content, a
\* deletion ends the request.
Succeeded(c) ==
  CASE c.rpc = "search" ->
         [Idle EXCEPT !.op = "recall", !.at = "nominated", !.ids = c.stale]
    [] c.op = "reindex" -> Reindexing(c.ids \ Subject(c))
    [] OTHER -> Idle

\* An RPC failed: EnsureText looks the digest of a failed insertion up, any
\* other request fails, and a reindexing daemon exits.
Failed(c) ==
  CASE c.rpc = "insert" -> Begin(c, "list")
    [] c.op = "reindex" /\ c.rpc = "list" ->
         [Idle EXCEPT !.op = "reindex", !.answer = "error"]
    [] OTHER -> Idle

\* invoke returns to its caller, which goes on as next says.
Return(p, g, next) ==
  /\ guard' = Released(g, p)
  /\ call' = [call EXCEPT ![p] = next]

\* EnsureText returns nil and Observe is acknowledged.
Acknowledged(p) ==
  settled' = settled \cup IF call[p].op = "observe"
                          THEN {e \in call[p].ids \ Doomed(p) :
                                  stored[e] = call[p].text}
                          ELSE {}

-----------------------------------------------------------------------------
(* What a request does in the store before it turns to the index.          *)

Serve(p) ==
  /\ mode = "serving" /\ calls < MaxCalls /\ call[p] = Idle
  /\ calls' = calls + 1
  /\ UNCHANGED <<index, guard, mode, restarts>>

\* Observe and ComposeInvariant: Put refuses a stored ID with another digest
\* and accepts a duplicate; then EnsureText.
Observe(p, e, t) ==
  /\ Serve(p)
  /\ stored[e] \in {None, t}
  /\ stored' = [stored EXCEPT ![e] = t]
  /\ call' = [call EXCEPT ![p] =
                Begin([Idle EXCEPT !.op = "observe", !.ids = {e}, !.text = t],
                      "insert")]
  /\ UNCHANGED settled

\* Delete turns to the index whether or not the store had the event.
Delete(p, e) ==
  /\ Serve(p)
  /\ stored' = [stored EXCEPT ![e] = None]
  /\ settled' = settled \ {e}
  /\ call' = [call EXCEPT ![p] =
                Begin([Idle EXCEPT !.op = "delete", !.ids = {e}], "delete")]

\* Retain and DecomposeInvariant delete from the index what the store did.
Retain(p, S) ==
  /\ Serve(p)
  /\ S # {} /\ \A e \in S : stored[e] # None
  /\ stored' = [e \in Events |-> IF e \in S THEN None ELSE stored[e]]
  /\ settled' = settled \ S
  /\ call' = [call EXCEPT ![p] =
                Begin([Idle EXCEPT !.op = "retain", !.ids = S], "batch")]

\* nominateCandidates asks the index first.
Recall(p) ==
  /\ Serve(p)
  /\ call' = [call EXCEPT ![p] = Begin([Idle EXCEPT !.op = "recall"], "search")]
  /\ UNCHANGED <<stored, settled>>

-----------------------------------------------------------------------------
(* resolveAndRepairNominations.                                            *)

\* GetEvents of all nominations; when each is there the recall goes on.
ResolveAll(p) ==
  LET c == call[p]
  IN  /\ c.at = "nominated"
      /\ call' = [call EXCEPT ![p] =
                    IF \A e \in c.ids : stored[e] # None /\ e \notin Future
                    THEN Idle ELSE [c EXCEPT !.at = "resolve"]]
      /\ UNCHANGED <<stored, index, guard, mode, calls, restarts, settled>>

\* Fault: an event that is not available yet counts as stale.
StaleAtAsOf(e) == stored[e] = None \/ e \in Future

\* An ID is stale when the store has it neither at as_of nor at the end of
\* time.
Stale(e) == stored[e] = None

Resolve(p, e) ==
  LET c == call[p]
  IN  /\ c.at = "resolve" /\ e \in c.ids
      /\ call' = [call EXCEPT ![p].ids = @ \ {e},
                              ![p].stale = @ \cup (IF Stale(e) THEN {e} ELSE {})]
      /\ UNCHANGED <<stored, index, guard, mode, calls, restarts, settled>>

\* The stale IDs are deleted from the index in one batch.
Repair(p) ==
  LET c == call[p]
  IN  /\ c.at = "resolve" /\ c.ids = {}
      /\ call' = [call EXCEPT ![p] =
                    IF c.stale = {} THEN Idle
                    ELSE Begin([c EXCEPT !.ids = c.stale, !.stale = {}], "batch")]
      /\ UNCHANGED <<stored, index, guard, mode, calls, restarts, settled>>

-----------------------------------------------------------------------------
(* invoke.                                                                 *)

\* A write takes the lane; an open circuit refuses the call, otherwise it
\* waits for a permit ...
Enter(p) ==
  LET g == Inspected(guard)
      write == call[p].rpc \in Writes
  IN  /\ call[p].at = "enter" /\ (write => guard.writer = {})
      /\ IF g.circuit = "open"
         THEN Return(p, g, Failed(call[p]))
         ELSE /\ guard' = IF write THEN [g EXCEPT !.writer = {p}] ELSE g
              /\ call' = [call EXCEPT ![p].at = "wait"]
      /\ UNCHANGED <<stored, index, mode, calls, restarts, settled>>

\* ... and looking at the circuit once more with the permit in hand.
Acquire(p) ==
  LET g == Inspected(guard)
  IN  /\ call[p].at = "wait" /\ Cardinality(guard.permits) < MaxConcurrent
      /\ IF g.circuit = "open"
         THEN Return(p, g, Failed(call[p]))
         ELSE /\ guard' = [g EXCEPT !.permits = @ \cup {p}]
              /\ call' = [call EXCEPT ![p].at = "send"]
      /\ UNCHANGED <<stored, index, mode, calls, restarts, settled>>

\* The caller's context ends while it waits for a permit or backs off.
Cancel(p) ==
  /\ \/ call[p].at = "wait"
     \/ call[p].at = "send" /\ call[p].attempt > 0
  /\ Return(p, guard, Failed(call[p]))
  /\ UNCHANGED <<stored, index, mode, calls, restarts, settled>>

\* What the remote service does with a request it takes (external): it
\* refuses to insert an ID it already has.
Taken(c) == c.rpc = "insert" => \A e \in Subject(c) : index[e] = None

Applied(c) ==
  CASE c.rpc = "insert" -> [e \in Events |-> IF e \in Subject(c) THEN c.text
                                             ELSE index[e]]
    [] c.rpc \in {"delete", "batch"} ->
         [e \in Events |-> IF e \in c.ids THEN None ELSE index[e]]
    [] OTHER -> index

\* One attempt: it takes effect and is answered, takes effect and its answer
\* is lost, or does not arrive.
Attempt(p) ==
  LET c == [call[p] EXCEPT !.attempt = @ + 1,
                           !.stale = IF call[p].rpc = "search" THEN Indexed ELSE {}]
  IN  /\ call[p].at = "send"
      /\ \/ /\ Taken(c)
            /\ index' = Applied(c)
            /\ \E a \in {"ok", "retryable"} :
                 call' = [call EXCEPT ![p] = [c EXCEPT !.at = "done", !.answer = a]]
         \/ /\ UNCHANGED index
            /\ call' = [call EXCEPT ![p] = [c EXCEPT !.at = "done", !.answer = "retryable"]]
      /\ UNCHANGED <<stored, guard, mode, calls, restarts, settled>>

\* An error that is not retryable ends the call and is not counted.
Refused(p) ==
  /\ call[p].at = "send" /\ ~Taken(call[p])
  /\ Return(p, guard, Failed(call[p]))
  /\ UNCHANGED <<stored, index, mode, calls, restarts, settled>>

\* ListByMeta found a candidate with this ID and this text.
Reconciled(c) == c.rpc = "list" => \A e \in Subject(c) : index[e] = c.text

\* A successful answer closes the circuit, whoever opened it.
Answered(p) ==
  LET c == call[p]
  IN  /\ c.at = "done" /\ c.answer = "ok"
      /\ IF Reconciled(c)
         THEN Return(p, Success(guard), Succeeded(c)) /\ Acknowledged(p)
         ELSE Return(p, Success(guard), Failed(c)) /\ UNCHANGED settled
      /\ UNCHANGED <<stored, index, mode, calls, restarts>>

\* A retryable error is counted ...
Count(p) ==
  /\ call[p].at = "done" /\ call[p].answer = "retryable"
  /\ guard' = Failure(guard)
  /\ call' = [call EXCEPT ![p].at = "judge"]
  /\ UNCHANGED <<stored, index, mode, calls, restarts, settled>>

\* ... and tried again while the circuit is closed and attempts are left.
Judge(p) ==
  LET c == call[p]  g == Inspected(guard)
  IN  /\ c.at = "judge"
      /\ IF g.circuit = "open" \/ c.attempt = MaxAttempts
         THEN Return(p, g, Failed(c))
         ELSE guard' = g /\ call' = [call EXCEPT ![p].at = "send"]
      /\ UNCHANGED <<stored, index, mode, calls, restarts, settled>>

-----------------------------------------------------------------------------

\* openUntil passes.
Elapse ==
  /\ guard.circuit = "open"
  /\ guard' = [guard EXCEPT !.circuit = "elapsed"]
  /\ UNCHANGED <<stored, index, call, mode, calls, restarts, settled>>

\* Ready asks isOpen, which may close the circuit.
Ready ==
  /\ guard.circuit = "elapsed"
  /\ guard' = Inspected(guard)
  /\ UNCHANGED <<stored, index, call, mode, calls, restarts, settled>>

\* The daemon stops or crashes and is started to serve, or with
\* -reindex-eventframe-contract.
Restart ==
  /\ restarts < MaxRestarts
  /\ restarts' = restarts + 1
  /\ guard' = Fresh
  /\ \/ mode' = "serving" /\ call' = [p \in Callers |-> Idle]
     \/ /\ mode' = "reindex"
        /\ LET main == CHOOSE p \in Callers : TRUE
           IN  call' = [p \in Callers |->
                          IF p = main
                          THEN Reindexing({e \in Events : stored[e] # None})
                          ELSE Idle]
  /\ UNCHANGED <<stored, index, calls, settled>>

IndexInit ==
  /\ stored = [e \in Events |-> None] /\ index = stored
  /\ guard = Fresh /\ call = [p \in Callers |-> Idle] /\ mode = "serving"
  /\ calls = 0 /\ restarts = 0 /\ settled = {}

\* invoke as it runs once begun: none of its steps waits for a request.
InvokeStep(p) ==
  \/ Enter(p) \/ Acquire(p) \/ Attempt(p) \/ Refused(p)
  \/ Answered(p) \/ Count(p) \/ Judge(p)

RequestStep(p) ==
  \/ InvokeStep(p) \/ ResolveAll(p) \/ Repair(p)
  \/ \E e \in Events : Resolve(p, e)

IndexNext ==
  \/ \E p \in Callers :
       \/ \E e \in Events : Delete(p, e) \/ \E t \in Texts[e] : Observe(p, e, t)
       \/ \E S \in SUBSET Events : Retain(p, S)
       \/ Recall(p) \/ RequestStep(p) \/ Cancel(p)
  \/ Elapse \/ Ready \/ Restart

IndexSpec == IndexInit /\ [][IndexNext]_indexVars

\* An RPC ends by its deadline, and goroutines are scheduled.
IndexFairness == \A p \in Callers : WF_indexVars(RequestStep(p))

-----------------------------------------------------------------------------
(* Properties.                                                             *)

\* An acknowledged observation is indexed under its text until it is deleted:
\* lost answers, retries, failed deletions, crashes and the repair of other
\* nominations do not cost it its entry.  (settled leaves out an observation
\* that overlaps a deletion of the same ID: there the entry can be lost.)
AcknowledgedIndexed ==
  \A e \in settled : stored[e] # None /\ index[e] = stored[e]

\* Every request ends: once the bounded number of requests has begun, no
\* caller waits for ever for the write lane, a permit or another attempt,
\* whatever the circuit does meanwhile.
RequestsEnd == <>[](\A p \in Callers : call[p].at = "idle")
=============================================================================
