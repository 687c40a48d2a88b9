---------------------------- MODULE RecallOrder ----------------------------
(***************************************************************************)
(* From the nominated frontier of a recall to its packet: which decisions  *)
(* may supply independent evidence, how the retrieval contract and the     *)
(* bounded rank deltas order the candidates, and which of them are packed. *)
(*                                                                         *)
(* Scores are whole points from 0 to Top.  The corrections that posteriors,*)
(* residuals and the graph make to a baseline score, the answer of the     *)
(* retrieval contract and whether an uncertain boundary expands the packet *)
(* are inputs.  A penalty of diversity is rounded down to whole points.    *)
(***************************************************************************)
EXTENDS Integers, FiniteSets, Sequences, SequencesExt, Sums

CONSTANTS
  Frontiers,      \* nominated candidates: id -> what is known of its event
  Plain,          \* posterior key of an event outside every certified bucket
  Top,            \* the score 1.0
  MaxRankDelta,   \* Config.MaxRankDelta
  MinScale, MaxScale, ScaleUnit,   \* ElasticRankDelta, out of ScaleUnit
  Preference,     \* resolution preference (0.05)
  Similarity,     \* PackingPolicy.EvidenceSimilarity, in percent
  OccupancyLimit, \* PackingPolicy.EvidenceOccupancyLimit
  MaxActive,      \* BayesianPolicy.MaxActive
  ActivationThreshold,             \* BayesianPolicy.Threshold
  RecallK, PackK, MaxPack,         \* budgets of the packet
  TokenBudget,
  DiversityPenalty, PriorityPenalty,   \* PackingPolicy, in points
  Answers(_)      \* what the retrieval contract may rank of a frontier

ASSUME Budgets == /\ RecallK \in Nat /\ PackK \in 1..RecallK /\ MaxPack \in Nat
                  /\ TokenBudget \in Nat \ {0} /\ OccupancyLimit \in Int
                  /\ Top \in Nat /\ MaxRankDelta \in Nat /\ Preference \in Nat
                  /\ ScaleUnit \in Nat \ {0} /\ MinScale \in Nat /\ MaxScale \in Nat
                  /\ MinScale <= MaxScale

\* A frontier lists its candidates; the contract answers with a list and scores.
ASSUME FrontiersTyped ==
  \A f \in Frontiers :
    /\ f \in Seq(Range(f))
    /\ \A i \in DOMAIN f : /\ {f[i].base, f[i].correction, f[i].available} \subseteq Int
                           /\ f[i].tokens \in Nat
    /\ \A a \in Answers(f) : /\ a.ranked \in Seq(Range(a.ranked))
                             /\ \A i \in Range(a.ranked) : a.scores[i] \in Int

VARIABLES
  frontier,    \* the candidates
  stage,       \* the next step of recallOnce
  order,       \* the candidates in their present order
  score,       \* their present scores
  retrieval,   \* RetrievalScore
  decisions,   \* the decision of each candidate
  limit,       \* how many candidates the packet may hold
  packed,      \* the packet so far
  resolution   \* the request's resolution

orderVars == <<frontier, stage, order, score, retrieval, decisions, limit, packed, resolution>>

Ids == DOMAIN frontier

Clamp(value, lo, hi) == Max({lo, Min({value, hi})})

\* The elements of seq in the strict total order R of their indices: each one
\* behind as many as come before it.
Arrange(seq, R) ==
  LET place(i) == 1 + Cardinality({j \in DOMAIN seq : <<j, i>> \in R})
  IN [k \in DOMAIN seq |-> seq[CHOOSE i \in DOMAIN seq : place(i) = k]]

\* sort.SliceStable by falling score; the more recently available candidate
\* first among equals where the code asks for it.
StableSort(seq, value, recentFirst) ==
  LET before(i, j) ==
        \/ value[seq[i]] > value[seq[j]]
        \/ /\ value[seq[i]] = value[seq[j]]
           /\ IF recentFirst /\ frontier[seq[i]].available # frontier[seq[j]].available
              THEN frontier[seq[i]].available > frontier[seq[j]].available
              ELSE i < j
  IN Arrange(seq, {p \in (DOMAIN seq) \X (DOMAIN seq) : before(p[1], p[2])})

\* The elements first[1] to first[n] of seq in that order, the others behind them.
PutFirst(seq, first, n) ==
  LET place(i) == IF \E k \in 1..n : first[k] = seq[i]
                  THEN CHOOSE k \in 1..n : first[k] = seq[i] ELSE n + i
  IN Arrange(seq, {p \in (DOMAIN seq) \X (DOMAIN seq) : place(p[1]) < place(p[2])})

(***************************************************************************)
(* Evidence groups: what epistemic.Describe derives from a frame, and when *)
(* two records speak with one voice.                                       *)
(***************************************************************************)

EvidenceGroup(c) == <<c.claim, c.lineage, IF c.distinct THEN c.occurrence ELSE 0>>

Correlated(c, d) ==
  \/ EvidenceGroup(c) = EvidenceGroup(d)
  \/ /\ ~c.distinct /\ ~d.distinct
     /\ c.lineage = d.lineage
     /\ c.claim # {} /\ d.claim # {}
     /\ 100 * Cardinality(c.claim \cap d.claim) >= Similarity * Cardinality(c.claim \cup d.claim)

DistinctCertifiedBuckets(k, l) == k # Plain /\ l # Plain /\ k # l

\* Evaluate: every ready candidate is updated, the first MaxActive of those
\* over the threshold are reviewed deeply; order by activation.
ByActivation == StableSort(order, [i \in Ids |-> frontier[i].activation], FALSE)

DeepReview(seq, k) ==
  /\ frontier[seq[k]].activation >= ActivationThreshold
  /\ Cardinality({j \in 1..k : frontier[seq[j]].activation >= ActivationThreshold}) <= MaxActive

\* markCorrelatedBayesianDecisions: a later decision of a group is compared
\* with the group's first one.
CorrelatedSuppressed(seq, k) ==
  LET group(j) == EvidenceGroup(frontier[seq[j]])
      same == {j \in 1..k : group(j) = group(k)}
  IN /\ Min(same) # k
     /\ ~DistinctCertifiedBuckets(frontier[seq[Min(same)]].key, frontier[seq[k]].key)

DecideFrontier ==
  /\ stage = "decide"
  /\ decisions' = [k \in DOMAIN order |->
                     [id |-> ByActivation[k], deep |-> DeepReview(ByActivation, k),
                      suppressed |-> CorrelatedSuppressed(ByActivation, k)]]
  /\ stage' = "correct"
  /\ UNCHANGED <<frontier, order, score, retrieval, limit, packed, resolution>>

\* Posteriors, residuals and the graph move the baseline scores.
Corrected(i) == Clamp(frontier[i].base + frontier[i].correction, 0, Top)

Correct ==
  /\ stage = "correct"
  /\ score' = [i \in Ids |-> Corrected(i)]
  /\ order' = StableSort(order, score', TRUE)
  /\ stage' = "rank"
  /\ UNCHANGED <<frontier, retrieval, decisions, limit, packed, resolution>>

(***************************************************************************)
(* The retrieval contract ranks at most k2 candidates; the others follow   *)
(* behind with their base score.                                           *)
(***************************************************************************)

ValidAnswer(ranked) == /\ Len(ranked) <= Min({RecallK, Len(order)})
                       /\ Range(ranked) \subseteq Ids /\ IsInjective(ranked)

RankCandidates(ranked, scores) ==
  /\ stage = "rank"
  /\ ValidAnswer(ranked)
  /\ retrieval' = [i \in Ids |-> Clamp(IF i \in Range(ranked) THEN scores[i] ELSE frontier[i].base,
                                       0, Top)]
  /\ score' = retrieval'
  /\ order' = PutFirst(order, ranked, Len(ranked))
  /\ stage' = "deltas"
  /\ UNCHANGED <<frontier, decisions, limit, packed, resolution>>

\* The contract fails, or answers with too many, unknown or repeated candidates;
\* required is Config.CandidateRankerRequired.
RankFails(required) ==
  /\ stage = "rank"
  /\ IF required
     THEN stage' = "failed" /\ UNCHANGED <<retrieval, score>>
     ELSE /\ stage' = "deltas"
          /\ retrieval' = [i \in Ids |-> Clamp(frontier[i].base, 0, Top)]
          /\ score' = retrieval'
  /\ UNCHANGED <<frontier, order, decisions, limit, packed, resolution>>

(***************************************************************************)
(* Rank deltas: a reliable correction moves a candidate by its size times  *)
(* the plasticity of the packing boundary, but never by more than          *)
(* MaxRankDelta.                                                           *)
(***************************************************************************)

\* The gap at the packing boundary out of the larger of the two scores there.
BoundaryScale == IF PackK >= Len(order) THEN 1
                 ELSE Max({retrieval[order[PackK]], retrieval[order[PackK + 1]], 1})

BoundaryGap == IF PackK >= Len(order) THEN 1
               ELSE Max({0, retrieval[order[PackK]] - retrieval[order[PackK + 1]]})

Delta(i) == Clamp(Corrected(i) - frontier[i].base, -MaxRankDelta, MaxRankDelta)

ElasticDelta(i) ==
  (Delta(i) * (MinScale * BoundaryScale + (MaxScale - MinScale) * (BoundaryScale - BoundaryGap)))
    \div (ScaleUnit * BoundaryScale)

\* Fault: the scaled delta is not bounded again.
RankDeltaUnbounded(i) == ElasticDelta(i)

RankDelta(i) == Clamp(ElasticDelta(i), -MaxRankDelta, MaxRankDelta)

ApplyRankDeltas ==
  /\ stage = "deltas"
  /\ score' = [i \in Ids |-> IF Delta(i) = 0 THEN score[i]
                             ELSE Clamp(retrieval[i] + RankDelta(i), 0, Top)]
  /\ order' = StableSort(order, score', FALSE)
  /\ stage' = "resolution"
  /\ UNCHANGED <<frontier, retrieval, decisions, limit, packed, resolution>>

\* A composed candidate is preferred to its members at coarse resolution and
\* they to it at fine resolution, the representative staying where it is.
Adjustment(i) ==
  LET own == IF frontier[i].members = {} THEN 0
             ELSE IF resolution = "coarse" THEN Preference ELSE -Preference
      holders == {c \in Ids : /\ i \in frontier[c].members
                              /\ resolution = "coarse" => i # frontier[c].representative}
      half == IF resolution = "coarse" THEN -(Preference \div 2) ELSE Preference \div 2
  IN Clamp(own + half * Cardinality(holders), -Preference, Preference)

ApplyResolutionPreference ==
  /\ stage = "resolution"
  /\ IF resolution = "auto"
     THEN UNCHANGED <<score, order>>
     ELSE /\ score' = [i \in Ids |-> Clamp(score[i] + Adjustment(i), 0, Top)]
          /\ order' = StableSort(order, score', TRUE)
  /\ stage' = "limit"
  /\ UNCHANGED <<frontier, retrieval, decisions, limit, packed, resolution>>

(***************************************************************************)
(* Packing: candidates in order, each unless the tokens run out or enough  *)
(* of its evidence is in the packet already.                               *)
(***************************************************************************)

Recalled == SubSeq(order, 1, Min({RecallK, Len(order)}))

Overlap(c, d) == IF c.claim = {} \/ d.claim = {} THEN 0
                 ELSE (100 * Cardinality(c.claim \cap d.claim)) \div Cardinality(c.claim \cup d.claim)

\* What candidate i is worth next to the ones already selected.
DiverseScore(i, selected) ==
  LET rivals == {k \in DOMAIN selected :
                   ~DistinctCertifiedBuckets(frontier[i].key, frontier[selected[k]].key)}
      overlap == Max({0} \cup {Overlap(frontier[i], frontier[selected[k]]) : k \in rivals})
      penalty == IF frontier[i].critical THEN Min({DiversityPenalty, PriorityPenalty})
                 ELSE DiversityPenalty
  IN score[i] - (penalty * overlap) \div 100

\* diversify: n times the best of the remaining.
DiverseFirst(seq, n) ==
  LET pick(selected, k) ==
        LET rest == SelectSeq(seq, LAMBDA i : i \notin Range(selected))
            best == CHOOSE m \in DOMAIN rest :
                      \A j \in DOMAIN rest :
                        \/ DiverseScore(rest[m], selected) > DiverseScore(rest[j], selected)
                        \/ /\ DiverseScore(rest[m], selected) = DiverseScore(rest[j], selected)
                           /\ m <= j
        IN Append(selected, rest[best])
  IN FoldLeft(pick, <<>>, [k \in 1..n |-> k])

Diversify(seq, n) == PutFirst(seq, DiverseFirst(seq, n), n)

\* Expansion of an uncertain boundary, then the diversity reordering.
SetLimit(expanded, diverse) ==
  /\ stage = "limit"
  /\ expanded => Len(Recalled) > PackK
  /\ limit' = Min({Len(Recalled), IF expanded THEN Min({2 * PackK, RecallK, MaxPack}) ELSE PackK})
  /\ order' = IF diverse THEN Diversify(Recalled, limit') ELSE Recalled
  /\ stage' = "pack"
  /\ UNCHANGED <<frontier, score, retrieval, decisions, packed, resolution>>

Tokens(seq) == SumUpTo([k \in DOMAIN seq |-> frontier[seq[k]].tokens], Len(seq))

CorrelatedPacked(i) ==
  Cardinality({k \in DOMAIN packed :
                 /\ ~DistinctCertifiedBuckets(frontier[i].key, frontier[packed[k]].key)
                 /\ Correlated(frontier[i], frontier[packed[k]])})

Occupied(i) == OccupancyLimit > 0 /\ CorrelatedPacked(i) >= OccupancyLimit

\* Fault: the first candidate that does not fit ends the packet.
PackPrefix ==
  /\ stage = "pack" /\ order # <<>>
  /\ LET i == Head(order)
         fits == /\ Len(packed) < limit
                 /\ Tokens(packed) + frontier[i].tokens <= TokenBudget
                 /\ ~Occupied(i)
     IN /\ packed' = IF fits THEN Append(packed, i) ELSE packed
        /\ order' = IF fits THEN Tail(order) ELSE <<>>
  /\ UNCHANGED <<frontier, stage, score, retrieval, decisions, limit, resolution>>

Pack ==
  /\ stage = "pack" /\ order # <<>>
  /\ LET i == Head(order)
         fits == /\ Len(packed) < limit
                 /\ Tokens(packed) + frontier[i].tokens <= TokenBudget
                 /\ ~Occupied(i)
     IN packed' = IF fits THEN Append(packed, i) ELSE packed
  /\ order' = Tail(order)
  /\ UNCHANGED <<frontier, stage, score, retrieval, decisions, limit, resolution>>

OrderInit ==
  /\ frontier \in Frontiers
  /\ stage = "decide"
  /\ score = [i \in Ids |-> frontier[i].base]
  /\ order = StableSort([i \in Ids |-> i], score, TRUE)
  /\ retrieval = score
  /\ decisions = <<>>
  /\ limit = 0
  /\ packed = <<>>
  /\ resolution \in {"auto", "coarse", "fine"}

OrderNext ==
  \/ DecideFrontier
  \/ Correct
  \/ \E a \in Answers(frontier) : RankCandidates(a.ranked, a.scores)
  \/ \E required \in BOOLEAN : RankFails(required)
  \/ ApplyRankDeltas
  \/ ApplyResolutionPreference
  \/ \E expanded, diverse \in BOOLEAN : SetLimit(expanded, diverse)
  \/ Pack

OrderSpec == OrderInit /\ [][OrderNext]_orderVars

(***************************************************************************)
(* Properties                                                              *)
(***************************************************************************)

\* The bounded frontier survives the contract, and no correction or preference
\* lifts a candidate over one whose retrieval score is further ahead than the
\* policy's bounds allow (rankCandidates, applyRankDeltas).
MotionBounded ==
  stage = "limit" =>
    /\ Range(order) = Ids /\ Len(order) = Cardinality(Ids)
    /\ \A k, l \in DOMAIN order : k < l =>
         retrieval[order[l]] - retrieval[order[k]]
           <= 2 * (MaxRankDelta + (IF resolution = "auto" THEN 0 ELSE Preference))

\* The finished packet is within its budgets, holds no two correlated records
\* outside distinct certified buckets, and leaves out no recalled candidate
\* that could still be added: what Select skipped at one point of its pass is
\* still excluded by what was packed after it.
PacketMaximal ==
  stage = "pack" /\ order = <<>> =>
    /\ Len(packed) <= limit /\ Tokens(packed) <= TokenBudget
    /\ \A k, l \in DOMAIN packed : k # l /\ OccupancyLimit = 1 =>
         \/ DistinctCertifiedBuckets(frontier[packed[k]].key, frontier[packed[l]].key)
         \/ ~Correlated(frontier[packed[k]], frontier[packed[l]])
    /\ Cardinality(Ids) <= RecallK =>
         \A i \in Ids \ Range(packed) :
           \/ Len(packed) = limit
           \/ Tokens(packed) + frontier[i].tokens > TokenBudget
           \/ Occupied(i)

\* service.go: "repeated records cannot present themselves as independent
\* selected evidence. Certified Anti-Pigeon buckets remain independent": of the
\* decisions of one evidence group, those not suppressed lie in different
\* certified buckets.
RepeatsSuppressed ==
  \A k, l \in DOMAIN decisions :
    /\ k # l
    /\ ~decisions[k].suppressed /\ ~decisions[l].suppressed
    /\ EvidenceGroup(frontier[decisions[k].id]) = EvidenceGroup(frontier[decisions[l].id])
    => DistinctCertifiedBuckets(frontier[decisions[k].id].key, frontier[decisions[l].id].key)
=============================================================================
