---------------------------- MODULE ResidualPool ----------------------------
(***************************************************************************)
(* The worker pool of a recall that loads the residual candidates: one     *)
(* sender hands the candidates over an unbuffered channel, a worker reads  *)
(* the store for each, the first error cancels the rest, and the recall    *)
(* goes on only with every candidate loaded.                               *)
(***************************************************************************)
EXTENDS Integers, FiniteSets

CONSTANTS
  Workers,         \* the pool's goroutines
  PoolCandidates   \* number of candidates to load

ASSUME PoolCandidatesAssumption == PoolCandidates \in Nat

VARIABLES
  sender,     \* "select", "check", "closed", or how the recall went on
  next,       \* the candidate to send
  holding,    \* worker -> the candidate it reads, 0 for none
  loaded,     \* candidates whose residuals were read
  firstErr,   \* an error was recorded
  cancelled,  \* workCtx is done
  expired     \* the recall's own context is done

poolVars == <<sender, next, holding, loaded, firstErr, cancelled, expired>>

Send(w) ==
  /\ sender = "select"
  /\ holding[w] = 0
  /\ holding' = [holding EXCEPT ![w] = next]
  /\ next' = next + 1
  /\ sender' = "check"
  /\ UNCHANGED <<loaded, firstErr, cancelled, expired>>

\* The other case of the select: the break leaves the select only.
SeeDone ==
  /\ sender = "select"
  /\ cancelled
  /\ sender' = "check"
  /\ UNCHANGED <<next, holding, loaded, firstErr, cancelled, expired>>

CheckDone ==
  /\ sender = "check"
  /\ sender' = IF cancelled \/ next > PoolCandidates THEN "closed" ELSE "select"
  /\ UNCHANGED <<next, holding, loaded, firstErr, cancelled, expired>>

Loads(w) ==
  /\ holding[w] # 0
  /\ loaded' = loaded \cup {holding[w]}
  /\ holding' = [holding EXCEPT ![w] = 0]
  /\ UNCHANGED <<sender, next, firstErr, cancelled, expired>>

\* Fault: the work is cancelled without the error being kept.
FailsUnrecorded(w) ==
  /\ holding[w] # 0
  /\ cancelled' = TRUE
  /\ holding' = [holding EXCEPT ![w] = 0]
  /\ UNCHANGED <<sender, next, loaded, firstErr, expired>>

Fails(w) ==
  /\ holding[w] # 0
  /\ firstErr' = TRUE
  /\ cancelled' = TRUE
  /\ holding' = [holding EXCEPT ![w] = 0]
  /\ UNCHANGED <<sender, next, loaded, expired>>

\* The workers have drained the closed channel and ended.
GoOn ==
  /\ sender = "closed"
  /\ \A w \in Workers : holding[w] = 0
  /\ sender' = IF firstErr \/ expired THEN "failed" ELSE "done"
  /\ UNCHANGED <<next, holding, loaded, firstErr, cancelled, expired>>

\* The request is cancelled or its deadline passes.
Expire ==
  /\ ~expired
  /\ expired' = TRUE
  /\ cancelled' = TRUE
  /\ UNCHANGED <<sender, next, holding, loaded, firstErr>>

PoolInit ==
  /\ sender = IF PoolCandidates = 0 THEN "done" ELSE "select"
  /\ next = 1
  /\ holding = [w \in Workers |-> 0]
  /\ loaded = {}
  /\ firstErr = FALSE
  /\ cancelled = FALSE
  /\ expired = FALSE

Work(w) == Loads(w) \/ Fails(w)

PoolNext == \/ \E w \in Workers : Send(w) \/ Work(w)
            \/ SeeDone \/ CheckDone \/ GoOn \/ Expire

PoolSpec == PoolInit /\ [][PoolNext]_poolVars

(***************************************************************************)
(* Properties                                                              *)
(***************************************************************************)

\* However workers, errors and the cancellation of the request interleave, the
\* recall goes on only with the residuals of every candidate
\* (loadResidualCandidates: firstErr, then ctx.Err).
LoadsComplete == sender = "done" => loaded = 1..PoolCandidates
=============================================================================
