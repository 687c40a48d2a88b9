--------------------------- MODULE PlanningProofs --------------------------
(***************************************************************************)
(* Theorems about the computations behind a decision: the planner of       *)
(* turns, the order and packet of a recall, and the publication of graphs. *)
(*                                                                         *)
(*   - PlannerInv: what a planner found stored, decided and put is the plan*)
(*     of its request, so a stored turn was admitted by PlanTau, and what  *)
(*     that admits pays off under every law within the radius (LowerBound).*)
(*   - MotionInv: every step rearranges the whole frontier, and the scores *)
(*     it sorts by stay near the scores of the retrieval contract.         *)
(*   - PacketInv: a candidate the pass is past is packed or excluded, and  *)
(*     more packed candidates exclude no less.                             *)
(*   - BurdenInv: what a search has seen can be reached, and is closed but *)
(*     for its queue; the burden is that of the obligations settled.       *)
(*   - InfluenceInv: after one level the closure holds the neighbours of   *)
(*     every difference, and an edge that lends an event outside it is the *)
(*     same, between the same nodes, in both graphs.                       *)
(***************************************************************************)
EXTENDS TauPlanner, RecallOrder, SnapClosure, WellFoundedInduction, FiniteSetTheorems, TLAPS

(***************************************************************************)
(* Induction.  The provers cannot instantiate an induction theorem's       *)
(* predicate, but they can use one that speaks of a set.                   *)
(***************************************************************************)

\* Every set of natural numbers has a least one.
LEMMA LeastNumber ==
  ASSUME NEW T, T \subseteq Nat, T # {}
  PROVE \E x \in T : \A y \in T : x <= y
<1>1. PICK x \in T : \A y \in T : ~ (<<y, x>> \in OpToRel(<, Nat))
  BY NatLessThanWellFounded, WFMin, Zenon
<1>2. \A y \in T : ~(y < x)
  BY <1>1 DEF OpToRel
<1> QED BY <1>2

\* Induction up to n, for a set instead of a formula.
LEMMA Climb ==
  ASSUME NEW n \in Nat, NEW S, 0 \in S, \A k \in 0..n-1 : k \in S => k+1 \in S
  PROVE 0..n \subseteq S
<1> DEFINE T == (0..n) \ S
<1>1. SUFFICES ASSUME T # {} PROVE FALSE
  OBVIOUS
<1>2. T \subseteq Nat
  OBVIOUS
<1>3. PICK x \in T : \A y \in T : x <= y
  <2> HIDE DEF T
  <2> QED BY <1>1, <1>2, LeastNumber
<1>4. x # 0 /\ x \in 0..n /\ x \notin S
  BY <1>3
<1>5. x - 1 \in S
  BY <1>3, <1>4
<1> QED BY <1>4, <1>5

\* s[k] is the sum of the first k values of f.
PartialSums(f, n, s) == s = [k \in 0..n |-> IF k = 0 THEN 0 ELSE s[k - 1] + f[k]]

LEMMA SumsExist ==
  ASSUME NEW f, NEW n \in Nat
  PROVE \E s : PartialSums(f, n, s)
<1> DEFINE S == {m \in Nat : \E s : PartialSums(f, m, s)}
<1>1. 0 \in S
  <2>1. PartialSums(f, 0, [k \in 0..0 |-> 0])
    BY DEF PartialSums
  <2> QED BY <2>1
<1>2. ASSUME NEW m \in 0..n-1, m \in S PROVE m + 1 \in S
  <2>1. PICK s : PartialSums(f, m, s)
    BY <1>2
  <2> DEFINE t == [k \in 0..m+1 |-> IF k = m + 1 THEN s[m] + f[m + 1] ELSE s[k]]
  <2>2. ASSUME NEW k \in 0..m+1 PROVE t[k] = IF k = 0 THEN 0 ELSE t[k - 1] + f[k]
    <3>1. CASE k = m + 1
      BY <3>1
    <3>2. CASE k \in 0..m
      <4>1. s[k] = IF k = 0 THEN 0 ELSE s[k - 1] + f[k]
        BY <2>1, <3>2 DEF PartialSums
      <4> QED BY <4>1, <3>2
    <3> QED BY <3>1, <3>2
  <2>3. t = [k \in 0..m+1 |-> IF k = 0 THEN 0 ELSE t[k - 1] + f[k]]
    BY <2>2
  <2>4. PartialSums(f, m+1, t)
    BY <2>3, Zenon DEF PartialSums
  <2> HIDE DEF t
  <2> QED BY <2>4
<1>3. 0..n \subseteq S
  <2> HIDE DEF S
  <2> QED BY <1>1, <1>2, Climb
<1> QED BY <1>3

LEMMA SumIs ==
  ASSUME NEW f, NEW n \in Nat
  PROVE \E s : PartialSums(f, n, s) /\ SumUpTo(f, n) = s[n]
BY SumsExist, Zenon DEF SumUpTo, PartialSums

LEMMA PartialSumsAgree ==
  ASSUME NEW f, NEW m \in Nat, NEW n \in Nat, m <= n, NEW s, NEW t,
         PartialSums(f, m, s), PartialSums(f, n, t)
  PROVE s[m] = t[m]
<1> DEFINE S == {k \in Nat : s[k] = t[k]}
<1>1. 0 \in S
  <2>1. s[0] = 0
    BY DEF PartialSums
  <2>2. t[0] = 0
    BY DEF PartialSums
  <2> QED BY <2>1, <2>2
<1>2. ASSUME NEW k \in 0..m-1, k \in S PROVE k + 1 \in S
  <2>1. s[k + 1] = s[k] + f[k + 1]
    BY DEF PartialSums
  <2>2. t[k + 1] = t[k] + f[k + 1]
    BY DEF PartialSums
  <2> QED BY <2>1, <2>2, <1>2
<1>3. 0..m \subseteq S
  <2> HIDE DEF S
  <2> QED BY <1>1, <1>2, Climb
<1> QED BY <1>3

\* The two equations of a sum.
LEMMA SumEquations ==
  ASSUME NEW f
  PROVE /\ SumUpTo(f, 0) = 0
        /\ \A n \in Nat : SumUpTo(f, n + 1) = SumUpTo(f, n) + f[n + 1]
<1>1. SumUpTo(f, 0) = 0
  BY SumIs DEF PartialSums
<1>2. ASSUME NEW n \in Nat PROVE SumUpTo(f, n + 1) = SumUpTo(f, n) + f[n + 1]
  <2>1. PICK s : PartialSums(f, n, s) /\ SumUpTo(f, n) = s[n]
    BY SumIs
  <2>2. PICK t : PartialSums(f, n + 1, t) /\ SumUpTo(f, n + 1) = t[n + 1]
    BY SumIs
  <2>3. t[n + 1] = t[n] + f[n + 1]
    BY <2>2 DEF PartialSums
  <2>4. s[n] = t[n]
    BY <2>1, <2>2, PartialSumsAgree
  <2> QED BY <2>1, <2>2, <2>3, <2>4
<1> QED BY <1>1, <1>2

LEMMA SumType ==
  ASSUME NEW n \in Nat, NEW f, \A i \in 1..n : f[i] \in Int
  PROVE SumUpTo(f, n) \in Int
<1> DEFINE S == {k \in Nat : SumUpTo(f, k) \in Int}
<1>1. 0 \in S
  BY SumEquations
<1>2. ASSUME NEW k \in 0..n-1, k \in S PROVE k + 1 \in S
  <2>1. SumUpTo(f, k + 1) = SumUpTo(f, k) + f[k + 1]
    BY SumEquations
  <2>2. f[k + 1] \in Int
    OBVIOUS
  <2> QED BY <2>1, <2>2, <1>2
<1>3. 0..n \subseteq S
  <2> HIDE DEF S
  <2> QED BY <1>1, <1>2, Climb
<1> QED BY <1>3

\* An inequality between the terms is one between the sums.
LEMMA SumsCompare ==
  ASSUME NEW n \in Nat, NEW a, NEW b, NEW c, NEW d, NEW e,
         \A i \in 1..n : /\ a[i] \in Int /\ b[i] \in Int /\ c[i] \in Int
                         /\ d[i] \in Int /\ e[i] \in Int
                         /\ a[i] - b[i] <= c[i] + d[i] - e[i]
  PROVE SumUpTo(a, n) - SumUpTo(b, n) <= SumUpTo(c, n) + SumUpTo(d, n) - SumUpTo(e, n)
<1> DEFINE S == {k \in Nat : SumUpTo(a, k) - SumUpTo(b, k)
                               <= SumUpTo(c, k) + SumUpTo(d, k) - SumUpTo(e, k)}
<1>1. 0 \in S
  BY SumEquations
<1>2. ASSUME NEW k \in 0..n-1, k \in S PROVE k + 1 \in S
  <2>1. /\ SumUpTo(a, k) \in Int /\ SumUpTo(b, k) \in Int /\ SumUpTo(c, k) \in Int
        /\ SumUpTo(d, k) \in Int /\ SumUpTo(e, k) \in Int
    BY SumType
  <2>2. /\ SumUpTo(a, k + 1) = SumUpTo(a, k) + a[k + 1]
        /\ SumUpTo(b, k + 1) = SumUpTo(b, k) + b[k + 1]
        /\ SumUpTo(c, k + 1) = SumUpTo(c, k) + c[k + 1]
        /\ SumUpTo(d, k + 1) = SumUpTo(d, k) + d[k + 1]
        /\ SumUpTo(e, k + 1) = SumUpTo(e, k) + e[k + 1]
    BY SumEquations
  <2>3. k + 1 \in 1..n
    OBVIOUS
  <2> QED BY <2>1, <2>2, <2>3, <1>2
<1>3. 0..n \subseteq S
  <2> HIDE DEF S
  <2> QED BY <1>1, <1>2, Climb
<1> QED BY <1>3

(***************************************************************************)
(* What a turn is worth.                                                   *)
(***************************************************************************)

LEMMA LawDomain ==
  ASSUME NEW law \in TauForecast
  PROVE /\ Len(law.points) \in Nat /\ DOMAIN law.points = 1..Len(law.points)
        /\ law.none \in Int /\ law.total \in Int /\ law.tv \in Int
        /\ law.origin \in Int /\ law.validUntil \in Int
        /\ \A i \in 1..Len(law.points) : law.points[i].delay \in Int /\ law.points[i].weight \in Int
<1>1. law.points \in Seq(TauPoint)
  BY DEF TauForecast
<1>2. Len(law.points) \in Nat /\ DOMAIN law.points = 1..Len(law.points)
  BY <1>1
<1>3. \A i \in 1..Len(law.points) : law.points[i] \in TauPoint
  BY <1>1
<1> QED BY <1>2, <1>3 DEF TauForecast, TauPoint

LEMMA SumOverType ==
  ASSUME NEW n \in Nat, NEW f, NEW S, \A i \in 1..n : f[i] \in Int
  PROVE SumOver(f, S, n) \in Int
<1> DEFINE g == [i \in 1..n |-> IF i \in S THEN f[i] ELSE 0]
<1>1. \A i \in 1..n : g[i] \in Int
  OBVIOUS
<1>2. SumUpTo(g, n) \in Int
  <2> HIDE DEF g
  <2> QED BY <1>1, SumType
<1> QED BY <1>2 DEF SumOver

\* A law within the radius keeps on a larger set of points all the mass the
\* forecast gives a smaller one, up to what it moved elsewhere.
LEMMA MassKept ==
  ASSUME NEW n \in Nat, NEW w, NEW q, NEW S, NEW T, S \subseteq T,
         \A i \in 1..n : w[i] \in Int /\ q[i] \in Nat
  PROVE SumOver(w, S, n) - SumOver(q, T, n)
          <= SumUpTo([i \in 1..n |-> Excess(q[i], w[i])], n)
             + SumOver(w, 1..n, n) - SumUpTo(q, n)
<1> DEFINE a == [i \in 1..n |-> IF i \in S THEN w[i] ELSE 0]
           b == [i \in 1..n |-> IF i \in T THEN q[i] ELSE 0]
           c == [i \in 1..n |-> Excess(q[i], w[i])]
           d == [i \in 1..n |-> IF i \in 1..n THEN w[i] ELSE 0]
<1>1. ASSUME NEW i \in 1..n
      PROVE /\ a[i] \in Int /\ b[i] \in Int /\ c[i] \in Int /\ d[i] \in Int /\ q[i] \in Int
            /\ a[i] - b[i] <= c[i] + d[i] - q[i]
  <2>1. w[i] \in Int /\ q[i] \in Int /\ q[i] >= 0
    OBVIOUS
  <2>2. PICK x, y : x = w[i] /\ y = q[i]
    OBVIOUS
  <2>3. a[i] = (IF i \in S THEN x ELSE 0) /\ b[i] = (IF i \in T THEN y ELSE 0)
        /\ c[i] = (IF y > x THEN y - x ELSE 0) /\ d[i] = x
    BY <2>2 DEF Excess
  <2> HIDE DEF a, b, c, d
  <2> QED BY <2>1, <2>2, <2>3
<1>2. SumUpTo(a, n) - SumUpTo(b, n) <= SumUpTo(c, n) + SumUpTo(d, n) - SumUpTo(q, n)
  <2> HIDE DEF a, b, c, d
  <2> QED BY <1>1, SumsCompare
<1> QED BY <1>2 DEF SumOver

LEMMA SumOverNat ==
  ASSUME NEW n \in Nat, NEW f, NEW S, \A i \in 1..n : f[i] \in Nat
  PROVE SumOver(f, S, n) \in Nat
<1> DEFINE a == [i \in 1..n |-> 0]
           b == [i \in 1..n |-> IF i \in S THEN f[i] ELSE 0]
<1>1. \A i \in 1..n : a[i] = 0 /\ b[i] \in Int /\ b[i] >= 0
  OBVIOUS
<1>2. SumUpTo(a, n) - SumUpTo(b, n) <= SumUpTo(a, n) + SumUpTo(a, n) - SumUpTo(a, n)
  <2>1. \A i \in 1..n : a[i] - b[i] <= a[i] + a[i] - a[i]
    BY <1>1
  <2> HIDE DEF a, b
  <2> QED BY <1>1, <2>1, SumsCompare
<1>3. SumUpTo(a, n) \in Int /\ SumUpTo(b, n) \in Int
  <2> HIDE DEF a, b
  <2> QED BY <1>1, SumType
<1>4. SumUpTo(b, n) >= 0
  <2> HIDE DEF a, b
  <2> QED BY <1>2, <1>3
<1> QED BY <1>3, <1>4 DEF SumOver

\* LowerProbability bounds the chance of the event under every admitted law.
LEMMA LowerBound ==
  ASSUME NEW law \in TauForecast, NEW q \in Laws(law), NEW S, NEW T, S \subseteq T,
         law.none + Weight(law, DOMAIN law.points) = law.total
  PROVE /\ SumOver(q, T, Len(law.points)) \in Nat
        /\ Weight(law, S) \in Int
        /\ LowerProbability(law, Weight(law, S)) \in Int
        /\ LowerProbability(law, Weight(law, S)) <= SumOver(q, T, Len(law.points)) * Unit
<1> DEFINE n == Len(law.points)
           w == [i \in DOMAIN law.points |-> law.points[i].weight]
           up == [i \in 1..n |-> Excess(q[i], law.points[i].weight)]
<1>1. /\ n \in Nat /\ DOMAIN law.points = 1..n
      /\ law.none \in Int /\ law.total \in Int /\ law.tv \in Int
      /\ \A i \in 1..n : law.points[i].weight \in Int
  BY LawDomain
<1>2. /\ q \in [0..n -> 0..law.total]
      /\ q[0] + SumUpTo(q, n) = law.total
      /\ (Excess(q[0], law.none) + SumUpTo(up, n)) * Unit <= law.tv * law.total
  BY DEF Laws
<1>3. \A i \in 1..n : w[i] \in Int /\ q[i] \in Nat /\ q[i] \in Int
  BY <1>1, <1>2
<1>4. up = [i \in 1..n |-> Excess(q[i], w[i])]
  BY <1>1
<1>5. /\ Weight(law, S) = SumOver(w, S, n)
      /\ Weight(law, DOMAIN law.points) = SumOver(w, 1..n, n)
  BY <1>1 DEF Weight
<1>6. q[0] \in Nat
  BY <1>1, <1>2
<1>7. ASSUME NEW i \in 1..n PROVE up[i] \in Int
  <2>1. up[i] = Excess(q[i], law.points[i].weight)
    OBVIOUS
  <2>2. law.points[i].weight \in Int /\ q[i] \in Int
    BY <1>1, <1>3
  <2> HIDE DEF up
  <2> QED BY <2>1, <2>2 DEF Excess
<1> HIDE DEF n, w, up
<1>8. SumOver(w, S, n) - SumOver(q, T, n) <= SumUpTo(up, n) + SumOver(w, 1..n, n) - SumUpTo(q, n)
  BY <1>1, <1>3, <1>4, MassKept
<1>9. /\ SumOver(w, S, n) \in Int /\ SumOver(w, 1..n, n) \in Int
      /\ SumOver(q, T, n) \in Nat /\ SumUpTo(q, n) \in Int /\ SumUpTo(up, n) \in Int
  BY <1>1, <1>3, <1>7, SumOverType, SumOverNat, SumType
<1>10. PICK mass, hit, none, q0, sup, total, tv :
         /\ mass = SumOver(w, S, n) /\ hit = SumOver(q, T, n) /\ none = law.none /\ q0 = q[0]
         /\ sup = SumUpTo(up, n) /\ total = law.total /\ tv = law.tv
  OBVIOUS
<1>11. /\ mass \in Int /\ hit \in Nat /\ none \in Int /\ q0 \in Nat /\ sup \in Int
       /\ total \in Int /\ tv \in Int
  BY <1>1, <1>6, <1>9, <1>10
<1>12. mass - hit <= sup + q0 - none
  <2>1. PICK all, sq : all = SumOver(w, 1..n, n) /\ sq = SumUpTo(q, n)
    OBVIOUS
  <2>2. all \in Int /\ sq \in Int
    BY <1>9, <2>1
  <2>3. none + all = total
    BY <1>5, <1>10, <2>1
  <2>4. q0 + sq = total
    BY <1>2, <1>10, <2>1
  <2>5. mass - hit <= sup + all - sq
    BY <1>8, <1>10, <2>1
  <2> QED BY <1>11, <2>2, <2>3, <2>4, <2>5
<1>13. PICK ex : ex = Excess(q0, none)
  OBVIOUS
<1>14. ex \in Int /\ q0 - none <= ex
  BY <1>11, <1>13 DEF Excess
<1>15. (ex + sup) * Unit <= tv * total
  BY <1>2, <1>10, <1>13
<1>16. mass - hit <= ex + sup
  BY <1>11, <1>12, <1>14
<1>17. mass * Unit - tv * total <= hit * Unit
  <2>1. Unit \in Nat
    BY PlannerConstants
  <2>2. (mass - hit) * Unit <= (ex + sup) * Unit
    BY <1>11, <1>14, <1>16, <2>1
  <2>3. (mass - hit) * Unit = mass * Unit - hit * Unit
    BY <1>11, <2>1
  <2>4. PICK mu, hu, tt, eu : /\ mu = mass * Unit /\ hu = hit * Unit /\ tt = tv * total
                              /\ eu = (ex + sup) * Unit
    OBVIOUS
  <2>5. mu \in Int /\ hu \in Int /\ tt \in Int /\ eu \in Int
    BY <1>11, <1>14, <2>1, <2>4
  <2> QED BY <1>15, <2>2, <2>3, <2>4, <2>5
<1>18. hit * Unit >= 0 /\ hit * Unit \in Int /\ mass * Unit \in Int /\ tv * total \in Int
  BY <1>11, PlannerConstants
<1>19. /\ LowerProbability(law, mass) \in Int
       /\ LowerProbability(law, mass) <= hit * Unit
  BY <1>10, <1>17, <1>18 DEF LowerProbability, Excess
<1> QED BY <1>5, <1>9, <1>10, <1>19 DEF n

LEMMA Scaled ==
  ASSUME NEW u \in Nat, u # 0, NEW a \in Int, NEW b \in Int, a * u < b * u
  PROVE a < b
<1>1. SUFFICES ASSUME b <= a PROVE FALSE
  OBVIOUS
<1>2. (a - b) * u >= 0
  BY <1>1
<1>3. (a - b) * u = a * u - b * u
  OBVIOUS
<1>4. PICK au, bu : au = a * u /\ bu = b * u
  OBVIOUS
<1>5. au \in Int /\ bu \in Int
  BY <1>4
<1> QED BY <1>2, <1>3, <1>4, <1>5

LEMMA UtilityIsEarned ==
  ASSUME NEW k \in Nat, NEW c \in Int, NEW m \in Int, NEW total \in Int, NEW u \in Nat, u # 0,
         NEW lower \in Int, NEW hit \in Nat, lower <= hit * u,
         k * lower - (c * u) * total > (m * u) * total
  PROVE k * hit - c * total > m * total
<1>1. k * lower <= k * (hit * u)
  <2>1. PICK h : h = hit * u
    OBVIOUS
  <2>2. h \in Int /\ lower <= h
    BY <2>1
  <2>3. k * (h - lower) >= 0
    BY <2>2
  <2>4. k * (h - lower) = k * h - k * lower
    BY <2>2
  <2>5. k * h \in Int /\ k * lower \in Int
    BY <2>2
  <2>6. PICK x, y : x = k * h /\ y = k * lower
    OBVIOUS
  <2>7. y <= x
    BY <2>3, <2>4, <2>5, <2>6
  <2> QED BY <2>1, <2>6, <2>7
<1>2. k * (hit * u) = (k * hit) * u
  OBVIOUS
<1>3. (c * u) * total = (c * total) * u
  OBVIOUS
<1>4. (m * u) * total = (m * total) * u
  OBVIOUS
<1>5. PICK x, y, z, kl : x = k * hit /\ y = c * total /\ z = m * total /\ kl = k * lower
  OBVIOUS
<1>6. x \in Int /\ y \in Int /\ z \in Int /\ kl \in Int
  BY <1>5
<1>7. kl - y * u > z * u /\ kl <= x * u
  BY <1>1, <1>2, <1>3, <1>4, <1>5
<1>8. (z + y) * u = z * u + y * u
  BY <1>6
<1>9. z * u \in Int /\ y * u \in Int /\ x * u \in Int
  BY <1>6
<1>10. (z + y) * u < x * u
  <2>1. PICK zu, yu, xu : zu = z * u /\ yu = y * u /\ xu = x * u
    OBVIOUS
  <2>2. kl - yu > zu /\ kl <= xu /\ zu \in Int /\ yu \in Int /\ xu \in Int
    BY <1>7, <1>9, <2>1
  <2>3. zu + yu < xu
    BY <1>6, <2>2
  <2> QED BY <1>8, <2>1, <2>3
<1>11. z + y < x
  BY <1>6, <1>10, Scaled
<1> QED BY <1>5, <1>6, <1>11

\* A turn that PlanTau admits is worth more than its margin under every law
\* within the radius and at every dispatch inside the slack.
LEMMA AdmittedPaysOff ==
  ASSUME NEW law \in TauForecast, NEW p \in TauTurnPolicy, NEW now, NEW offset \in Int, NEW proposal,
         ValidateTau(law, p, now),
         Admissible(law, p, now, Turn(law, p, offset)),
         proposal.law = law, proposal.request.policy = p,
         proposal.decision = Turn(law, p, offset)
  PROVE PaysOff(proposal)
<1> DEFINE S == Useful(law, p, offset + p.lead + p.slack, offset + p.lead + p.window)
           lower == LowerProbability(law, Weight(law, S))
<1>1. /\ Turn(law, p, offset).deliverAt = law.origin + offset
      /\ Turn(law, p, offset).latest = law.origin + offset + p.slack
      /\ Turn(law, p, offset).utility = Utility(law, p, lower)
  BY DEF Turn
<1>2. /\ p.lead \in Int /\ p.slack \in Int /\ p.window \in Int
      /\ p.benefit \in Nat /\ p.falseCost \in Nat /\ p.turnCost \in Nat /\ p.margin \in Nat
  BY PlannerConstants DEF TauTurnPolicy, ValidateTau, ValidPolicy
<1>3. law.origin \in Int /\ law.total \in Int
  BY LawDomain
<1>4. law.none + Weight(law, DOMAIN law.points) = law.total
  BY DEF ValidateTau, ValidLaw
<1>5. Unit \in Nat /\ Unit # 0
  BY PlannerConstants
<1>6. SUFFICES ASSUME NEW q \in Laws(law),
                      NEW d \in law.origin + offset..law.origin + offset + p.slack
               PROVE (p.benefit + p.falseCost)
                       * SumOver(q, Useful(law, p, d - law.origin + p.lead,
                                           d - law.origin + p.lead + p.window), Len(law.points))
                       - (p.falseCost + p.turnCost) * law.total
                     > p.margin * law.total
  BY <1>1 DEF PaysOff
<1> DEFINE T == Useful(law, p, d - law.origin + p.lead, d - law.origin + p.lead + p.window)
<1>7. S \subseteq T
  <2>1. d \in Int /\ d - law.origin >= offset /\ d - law.origin <= offset + p.slack
    BY <1>2, <1>3
  <2>2. ASSUME NEW i \in S PROVE i \in T
    <3>1. PICK x : x = law.points[i].delay
      OBVIOUS
    <3>2. /\ i \in DOMAIN law.points /\ law.points[i].mark = p.target
          /\ x \in (offset + p.lead + p.slack)..(offset + p.lead + p.window)
      BY <3>1 DEF Useful
    <3>3. x \in (d - law.origin + p.lead)..(d - law.origin + p.lead + p.window)
      BY <1>2, <1>3, <2>1, <3>2
    <3> QED BY <3>1, <3>2, <3>3 DEF Useful
  <2> QED BY <2>2
<1>8. /\ SumOver(q, T, Len(law.points)) \in Nat
      /\ lower \in Int /\ lower <= SumOver(q, T, Len(law.points)) * Unit
  <2> HIDE DEF S, T
  <2> QED BY <1>4, <1>7, LowerBound
<1>9. (p.benefit + p.falseCost) * lower - ((p.falseCost + p.turnCost) * Unit) * law.total
        > (p.margin * Unit) * law.total
  BY <1>1 DEF Admissible, Utility
<1>10. p.benefit + p.falseCost \in Nat /\ p.falseCost + p.turnCost \in Int /\ p.margin \in Int
  BY <1>2
<1> HIDE DEF S, T, lower
<1>11. (p.benefit + p.falseCost) * SumOver(q, T, Len(law.points))
         - (p.falseCost + p.turnCost) * law.total > p.margin * law.total
  BY <1>3, <1>5, <1>8, <1>9, <1>10, UtilityIsEarned
<1> QED BY <1>11 DEF T

(***************************************************************************)
(* Quiet hours.                                                            *)
(***************************************************************************)

LEMMA Products ==
  ASSUME NEW a \in Int, NEW b \in Int, a <= b, NEW h \in Nat
  PROVE a * h <= b * h
<1>1. (b - a) * h >= 0
  OBVIOUS
<1>2. (b - a) * h = b * h - a * h
  OBVIOUS
<1>3. PICK x, y : x = a * h /\ y = b * h
  OBVIOUS
<1>4. x \in Int /\ y \in Int
  BY <1>3
<1> QED BY <1>1, <1>2, <1>3, <1>4

LEMMA Division ==
  ASSUME NEW a \in Int, NEW D \in Int, D > 0
  PROVE /\ a \div D \in Int /\ a % D \in Int
        /\ a = D * (a \div D) + (a % D) /\ 0 <= a % D /\ a % D < D
OBVIOUS

\* An interval around d that TauQuietBlocked lets through leaves d's hour alone.
LEMMA QuietLemma ==
  ASSUME NEW p \in TauTurnPolicy, NEW start \in Int, NEW end \in Int, NEW d \in start..end,
         p.quiet # NoQuiet,
         p.quiet[1] \in 0..DayHours - 1, p.quiet[2] \in 0..DayHours - 1,
         QuietHour(p, (d % Day) \div HourTicks)
  PROVE TauQuietBlocked(start, end, p)
<1>1. HourTicks \in Nat /\ HourTicks > 0 /\ DayHours \in Nat /\ DayHours > 0
  BY PlannerConstants
<1>2. PICK H, N, q1, q2 : H = HourTicks /\ N = DayHours /\ q1 = p.quiet[1] /\ q2 = p.quiet[2]
  OBVIOUS
<1>3. /\ H \in Nat /\ H > 0 /\ N \in Nat /\ N > 0
      /\ q1 \in Int /\ 0 <= q1 /\ q1 <= N - 1 /\ q2 \in Int /\ 0 <= q2 /\ q2 <= N - 1
  BY <1>1, <1>2
<1>4. PICK D : D = H * N
  OBVIOUS
<1>5. D = Day /\ D \in Int /\ D > 0
  BY <1>2, <1>3, <1>4 DEF Day
<1>6. d \in Int /\ start <= d /\ d <= end
  OBVIOUS
<1>7. PICK day, rem : day = d \div D /\ rem = d % D
  OBVIOUS
<1>8. day \in Int /\ rem \in Int /\ d = D * day + rem /\ 0 <= rem /\ rem < D
  BY <1>5, <1>6, <1>7, Division
<1>9. PICK h : h = rem \div H
  OBVIOUS
<1>10. h \in Int /\ H * h <= rem /\ rem < H * h + H
  <2>1. h \in Int /\ rem = H * h + (rem % H) /\ 0 <= rem % H /\ rem % H < H /\ rem % H \in Int
    BY <1>3, <1>8, <1>9, Division
  <2>2. PICK x, y : x = H * h /\ y = rem % H
    OBVIOUS
  <2>3. x \in Int /\ y \in Int /\ rem = x + y /\ 0 <= y /\ y < H
    BY <1>3, <2>1, <2>2
  <2>4. x <= rem /\ rem < x + H
    BY <1>3, <1>8, <2>3
  <2> QED BY <2>1, <2>2, <2>4
<1>11. /\ (start \div D) \in Int /\ (end \div D) \in Int
       /\ start \div D <= day /\ day <= end \div D
  <2>1. PICK s, e, rs, re : s = start \div D /\ e = end \div D /\ rs = start % D /\ re = end % D
    OBVIOUS
  <2>2. /\ s \in Int /\ e \in Int /\ rs \in Int /\ re \in Int
        /\ start = D * s + rs /\ 0 <= rs /\ rs < D /\ end = D * e + re /\ 0 <= re /\ re < D
    <3>1. /\ s \in Int /\ rs \in Int /\ start = D * s + rs /\ 0 <= rs /\ rs < D
      BY <1>5, <2>1, Division
    <3>2. /\ e \in Int /\ re \in Int /\ end = D * e + re /\ 0 <= re /\ re < D
      BY <1>5, <2>1, Division
    <3> QED BY <3>1, <3>2
  <2>3. s <= day
    <3>1. SUFFICES ASSUME day + 1 <= s PROVE FALSE
      BY <1>8, <2>2
    <3>2. (day + 1) * D <= s * D
      BY <1>5, <1>8, <2>2, <3>1, Products
    <3>3. D * day + D <= D * s
      BY <1>5, <1>8, <2>2, <3>2
    <3>4. PICK x, y : x = D * day /\ y = D * s
      OBVIOUS
    <3>5. x \in Int /\ y \in Int
      BY <1>5, <1>8, <2>2, <3>4
    <3> QED BY <1>5, <1>6, <1>8, <2>2, <3>3, <3>4, <3>5
  <2>4. day <= e
    <3>1. SUFFICES ASSUME e + 1 <= day PROVE FALSE
      BY <1>8, <2>2
    <3>2. (e + 1) * D <= day * D
      BY <1>5, <1>8, <2>2, <3>1, Products
    <3>3. D * e + D <= D * day
      BY <1>5, <1>8, <2>2, <3>2
    <3>4. PICK x, y : x = D * day /\ y = D * e
      OBVIOUS
    <3>5. x \in Int /\ y \in Int
      BY <1>5, <1>8, <2>2, <3>4
    <3> QED BY <1>5, <1>6, <1>8, <2>2, <3>3, <3>4, <3>5
  <2> QED BY <2>1, <2>2, <2>3, <2>4
<1> DEFINE lo(x) == x * D + q1 * H
           hi(x) == x * D + q2 * H
<1>12. SUFFICES \E x \in (start \div D) - 1 .. end \div D :
                  start < (IF hi(x) > lo(x) THEN hi(x) ELSE hi(x) + D) /\ end >= lo(x)
  BY <1>2, <1>5 DEF TauQuietBlocked
<1>13. PICK base, a, b, c : base = day * D /\ a = q1 * H /\ b = q2 * H /\ c = H * h
  OBVIOUS
<1>14. base \in Int /\ a \in Int /\ b \in Int /\ c \in Int /\ d = base + rem /\ c <= rem /\ rem < c + H
  BY <1>3, <1>5, <1>8, <1>10, <1>13
<1>15. a >= 0 /\ a <= D
  <2>1. q1 * H >= 0
    BY <1>3
  <2>2. q1 * H <= N * H
    BY <1>3, Products
  <2> QED BY <1>3, <1>4, <1>13, <2>1, <2>2
<1>16. QuietHour(p, h)
  BY <1>2, <1>5, <1>7, <1>9
<1>17. q1 <= h => a <= c
  BY <1>3, <1>10, <1>13, Products
<1>18. h < q2 => c + H <= b
  <2>1. SUFFICES ASSUME h < q2 PROVE c + H <= b
    OBVIOUS
  <2>2. (h + 1) * H <= q2 * H
    BY <1>3, <1>10, <2>1, Products
  <2> QED BY <1>3, <1>10, <1>13, <2>2
<1>19. q1 < q2 => a < b
  <2>1. SUFFICES ASSUME q1 + 1 <= q2 PROVE a < b
    BY <1>3
  <2>2. (q1 + 1) * H <= q2 * H
    BY <1>3, <2>1, Products
  <2>3. (q1 + 1) * H = q1 * H + H
    BY <1>3
  <2> QED BY <1>3, <1>13, <1>14, <2>2, <2>3
<1>20. q2 <= q1 => b <= a
  BY <1>3, <1>13, Products
<1>21. CASE q1 < q2
  <2>1. q1 <= h /\ h < q2
    BY <1>2, <1>16, <1>21 DEF QuietHour
  <2>2. lo(day) = base + a /\ hi(day) = base + b
    BY <1>13
  <2>3. start < base + b /\ end >= base + a /\ base + b > base + a
    BY <1>6, <1>14, <1>17, <1>18, <1>19, <1>21, <2>1, <1>3, <1>8
  <2>4. day \in (start \div D) - 1 .. end \div D
    BY <1>8, <1>11
  <2> HIDE DEF lo, hi
  <2> QED BY <2>2, <2>3, <2>4
<1>22. CASE q2 <= q1 /\ q1 <= h
  <2>2. lo(day) = base + a /\ hi(day) = base + b
    BY <1>13
  <2>3. start < base + b + D /\ end >= base + a /\ ~(base + b > base + a)
    <3>1. b >= 0
      BY <1>3, <1>13
    <3> QED BY <1>6, <1>14, <1>17, <1>20, <1>22, <1>3, <1>5, <1>8, <3>1
  <2>4. day \in (start \div D) - 1 .. end \div D
    BY <1>8, <1>11
  <2> HIDE DEF lo, hi
  <2> QED BY <2>2, <2>3, <2>4
<1>23. CASE q2 <= q1 /\ h < q2
  <2>1. (day - 1) * D = base - D
    BY <1>5, <1>8, <1>13
  <2>2. lo(day - 1) = base - D + a /\ hi(day - 1) = base - D + b
    BY <1>13, <2>1
  <2>3. /\ start < base - D + b + D /\ end >= base - D + a
        /\ ~(base - D + b > base - D + a)
    BY <1>6, <1>14, <1>15, <1>18, <1>20, <1>23, <1>3, <1>5, <1>8
  <2>4. day - 1 \in (start \div D) - 1 .. end \div D
    BY <1>8, <1>11
  <2> HIDE DEF lo, hi
  <2> QED BY <2>2, <2>3, <2>4
<1>24. q1 < q2 \/ (q2 <= q1 /\ q1 <= h) \/ (q2 <= q1 /\ h < q2)
  BY <1>2, <1>3, <1>16 DEF QuietHour
<1> QED BY <1>21, <1>22, <1>23, <1>24

(***************************************************************************)
(* Requests in flight.                                                     *)
(***************************************************************************)

\* What PlanTau decides is an admissible turn at one of the candidate delays.
LEMMA PlanTauAdmits ==
  ASSUME NEW law \in TauForecast, NEW p \in TauTurnPolicy, NEW now,
         PlanTau(law, p, now).schedule
  PROVE \E offset \in Int : /\ PlanTau(law, p, now) = Turn(law, p, offset)
                            /\ Admissible(law, p, now, PlanTau(law, p, now))
<1> DEFINE open == {turn \in {Turn(law, p, offset) : offset \in CandidateDelays(law, p)} :
                      Admissible(law, p, now, turn)}
           best == {turn \in open : \A other \in open : ~Better(other, turn)}
<1>1. PlanTau(law, p, now) = IF best = {} THEN NoTurn ELSE CHOOSE turn \in best : TRUE
  BY DEF PlanTau
<1>2. best # {}
  <2>1. ~NoTurn.schedule
    BY DEF NoTurn
  <2> HIDE DEF best
  <2> QED BY <1>1, <2>1
<1>3. PlanTau(law, p, now) \in best
  <2> HIDE DEF best
  <2> QED BY <1>1, <1>2
<1>4. PICK offset \in CandidateDelays(law, p) : PlanTau(law, p, now) = Turn(law, p, offset)
  BY <1>3
<1>5. offset \in Int
  <2>1. p.delays \in Seq(Int) /\ p.lead \in Int /\ p.slack \in Int
    BY DEF TauTurnPolicy
  <2>2. \A i \in DOMAIN law.points : law.points[i].delay \in Int
    BY LawDomain
  <2> QED BY <1>4, <2>1, <2>2 DEF CandidateDelays
<1> QED BY <1>3, <1>4, <1>5

LEMMA LawOfType ==
  ASSUME NEW o \in Offers, NEW r \in o
  PROVE LawOf(r) \in TauForecast /\ r.policy \in TauTurnPolicy
<1>1. r.law \in TauForecast /\ r.policy \in TauTurnPolicy /\ r.bins \in Seq(Int)
      /\ r.episodes \in Seq(TauEpisode)
  BY RequestsTyped
<1>2. FitTau(r) \in TauForecast
  <2> DEFINE eps == r.episodes
             hits(i) == {k \in DOMAIN eps : ~eps[k].noEvent
                                            /\ FirstBin(r.bins, EpisodeDelay(eps[k])) = i}
             misses == {k \in DOMAIN eps : eps[k].noEvent}
             points == [i \in DOMAIN r.bins |-> [mark |-> r.policy.target, delay |-> r.bins[i],
                                                 weight |-> 1 + Cardinality(hits(i))]]
  <2>1. Len(eps) \in Nat /\ DOMAIN eps = 1..Len(eps) /\ Len(r.bins) \in Nat
    BY <1>1
  <2>2. IsFiniteSet(DOMAIN eps)
    BY <2>1, FS_Interval
  <2>3. ASSUME NEW S \in SUBSET DOMAIN eps PROVE 1 + Cardinality(S) \in Int
    BY <2>2, FS_Subset, FS_CardinalityType
  <2>4. 1 + Cardinality(misses) \in Int
    BY <2>3
  <2>5. ASSUME NEW i \in DOMAIN r.bins PROVE points[i] \in TauPoint
    <3>1. hits(i) \in SUBSET DOMAIN eps
      OBVIOUS
    <3>2. 1 + Cardinality(hits(i)) \in Int
      BY <2>3, <3>1
    <3>3. r.policy.target \in Kinds /\ r.bins[i] \in Int
      BY <1>1 DEF TauTurnPolicy
    <3>4. points[i] = [mark |-> r.policy.target, delay |-> r.bins[i],
                       weight |-> 1 + Cardinality(hits(i))]
      OBVIOUS
    <3> HIDE DEF points, hits
    <3> QED BY <3>2, <3>3, <3>4 DEF TauPoint
  <2>6. points \in Seq(TauPoint)
    <3>1. DOMAIN points = 1..Len(r.bins)
      BY <1>1
    <3>2. points = [i \in 1..Len(r.bins) |-> points[i]]
      BY <3>1
    <3> HIDE DEF points
    <3> QED BY <2>1, <2>5, <3>1, <3>2, <1>1
  <2>7. /\ r.law.origin + r.law.horizon \in Int
        /\ Len(eps) + Len(r.bins) + 1 \in Int
    BY <1>1, <2>1 DEF TauForecast
  <2>8. FitTau(r) = [r.law EXCEPT !.validUntil = r.law.origin + r.law.horizon, !.points = points,
                                  !.none = 1 + Cardinality(misses),
                                  !.total = Len(eps) + Len(r.bins) + 1]
    BY DEF FitTau
  <2> HIDE DEF points, misses, eps
  <2> QED BY <1>1, <2>4, <2>6, <2>7, <2>8 DEF TauForecast
<1> QED BY <1>1, <1>2 DEF LawOf

\* A decision to schedule: an admissible turn of a valid law and policy.
Decided(r, now, decision) ==
  \E offset \in Int : /\ ValidateTau(LawOf(r), r.policy, now)
                      /\ decision = Turn(LawOf(r), r.policy, offset)
                      /\ Admissible(LawOf(r), r.policy, now, decision)

CallOK(call) ==
  \/ call = Idle
  \/ call \in [pc : {"base", "gather"}, request : offer, now : Nat]
  \/ /\ call.pc = "put" /\ call.request \in offer
     /\ Decided(call.request, call.now, call.decision)

PlanOK(plan) ==
  \/ plans[plan] = NoPlan
  \/ \E r, now, decision :
       /\ r \in offer
       /\ r.plan = plan /\ Decided(r, now, decision)
       /\ plans[plan] = [plan |-> plan, request |-> r, law |-> LawOf(r), decision |-> decision]

\* What a stored turn and a call about to store one rest on, and that an answer
\* is the stored turn.
PlannerInv ==
  /\ offer \in Offers
  /\ clock \in Nat
  /\ DOMAIN plans = {r.plan : r \in offer}
  /\ \A plan \in DOMAIN plans : PlanOK(plan)
  /\ DOMAIN planner = Planners
  /\ \A c \in Planners : CallOK(planner[c])
  /\ \A a \in answered : a.plan \in DOMAIN plans
  /\ OneTurnPerPlan

LEMMA ProposalIsPlan ==
  ASSUME NEW plan, NEW r, NEW law, NEW decision
  PROVE [plan |-> plan, request |-> r, law |-> law, decision |-> decision] # NoPlan
<1>1. DOMAIN [plan |-> plan, request |-> r, law |-> law, decision |-> decision]
        = {"plan", "request", "law", "decision"}
  OBVIOUS
<1>2. DOMAIN NoPlan = {"plan"}
  BY DEF NoPlan
<1>3. "request" \notin DOMAIN NoPlan
  BY <1>2
<1> QED BY <1>1, <1>3

LEMMA PlannerInvInit ==
  PlannerInit => PlannerInv
BY DEF PlannerInit, PlannerInv, PlanOK, CallOK, OneTurnPerPlan

LEMMA PlansKept ==
  ASSUME PlannerInv, plans' = plans, offer' = offer
  PROVE \A plan \in DOMAIN plans' : PlanOK(plan)'
<1>1. SUFFICES ASSUME NEW plan \in DOMAIN plans PROVE PlanOK(plan)'
  OBVIOUS
<1>2. CASE plans[plan] = NoPlan
  BY <1>2 DEF PlanOK
<1>3. CASE plans[plan] # NoPlan
  <2>1. PICK r, now, decision :
          /\ r \in offer
          /\ r.plan = plan /\ Decided(r, now, decision)
          /\ plans[plan] = [plan |-> plan, request |-> r, law |-> LawOf(r), decision |-> decision]
    BY <1>3 DEF PlannerInv, PlanOK
  <2> QED BY <2>1 DEF PlanOK
<1> QED BY <1>2, <1>3

LEMMA OtherCalls ==
  ASSUME PlannerInv, offer' = offer, NEW c \in Planners, NEW call,
         planner' = [planner EXCEPT ![c] = call], CallOK(call)
  PROVE DOMAIN planner' = Planners /\ \A d \in Planners : CallOK(planner[d])'
<1>1. DOMAIN planner' = Planners /\ planner'[c] = call
      /\ \A d \in Planners : d # c => planner'[d] = planner[d]
  BY DEF PlannerInv
<1>2. ASSUME NEW d \in Planners PROVE CallOK(planner[d])'
  <2>1. CASE d = c
    BY <1>1, <2>1 DEF CallOK
  <2>2. CASE d # c
    BY <1>1, <2>2 DEF CallOK, PlannerInv
  <2> QED BY <2>1, <2>2
<1> QED BY <1>1, <1>2

LEMMA LookupKeeps ==
  ASSUME PlannerInv, NEW c \in Planners, NEW r \in offer, Lookup(c, r)
  PROVE PlannerInv'
<1>1. /\ offer' = offer /\ clock' = clock /\ plans' = plans
  BY DEF Lookup
<1>2. r.plan \in DOMAIN plans
  BY DEF PlannerInv
<1>3. CASE plans[r.plan] = NoPlan
  <2> DEFINE call == [pc |-> "base", request |-> r, now |-> clock]
  <2>1. planner' = [planner EXCEPT ![c] = call] /\ answered' = answered
    BY <1>3 DEF Lookup
  <2>2. call \in [pc : {"base", "gather"}, request : offer, now : Nat]
    BY DEF PlannerInv
  <2>3. CallOK(call)
    <3> HIDE DEF call
    <3> QED BY <2>2 DEF CallOK
  <2>4. DOMAIN planner' = Planners /\ \A d \in Planners : CallOK(planner[d])'
    <3> HIDE DEF call
    <3> QED BY <1>1, <2>1, <2>3, OtherCalls
  <2> QED BY <1>1, <2>1, <2>4, PlansKept DEF PlannerInv, OneTurnPerPlan
<1>4. CASE plans[r.plan] # NoPlan
  <2>1. /\ plans[r.plan].request = r /\ planner' = planner
        /\ answered' = answered \cup {Answer(r, plans[r.plan].decision)}
    BY <1>4 DEF Lookup
  <2>2. \A d \in Planners : CallOK(planner[d])'
    BY <1>1, <2>1 DEF CallOK, PlannerInv
  <2>3. PICK a : a = Answer(r, plans[r.plan].decision)
    OBVIOUS
  <2>4. a.plan = r.plan /\ a.request = r /\ a.decision = plans[r.plan].decision
    BY <2>3 DEF Answer
  <2>5. OneTurnPerPlan'
    BY <1>1, <1>4, <2>1, <2>3, <2>4 DEF OneTurnPerPlan, PlannerInv
  <2>6. \A b \in answered' : b.plan \in DOMAIN plans'
    BY <1>1, <1>2, <2>1, <2>3, <2>4 DEF PlannerInv
  <2> QED BY <1>1, <2>1, <2>2, <2>5, <2>6, PlansKept DEF PlannerInv
<1> QED BY <1>3, <1>4

\* A step that only moves one call on.
LEMMA CallMoves ==
  ASSUME PlannerInv, NEW c \in Planners, NEW call, CallOK(call),
         planner' = [planner EXCEPT ![c] = call],
         UNCHANGED <<offer, clock, plans, answered>>
  PROVE PlannerInv'
<1>1. DOMAIN planner' = Planners /\ \A d \in Planners : CallOK(planner[d])'
  BY OtherCalls
<1> QED BY <1>1, PlansKept DEF PlannerInv, OneTurnPerPlan

LEMMA CheckBaseKeeps ==
  ASSUME PlannerInv, NEW c \in Planners, CheckBase(c)
  PROVE PlannerInv'
<1>1. UNCHANGED <<offer, clock, plans, answered>> /\ planner[c].pc = "base"
  BY DEF CheckBase
<1>2. CASE Return(c)
  BY <1>1, <1>2, CallMoves DEF Return, CallOK
<1>3. CASE planner' = [planner EXCEPT ![c].pc = "gather"]
  <2>1. planner[c] \in [pc : {"base", "gather"}, request : offer, now : Nat]
    BY <1>1 DEF PlannerInv, CallOK, Idle
  <2> DEFINE call == [planner[c] EXCEPT !.pc = "gather"]
  <2>2. call \in [pc : {"base", "gather"}, request : offer, now : Nat]
    BY <2>1
  <2>3. planner' = [planner EXCEPT ![c] = call]
    BY <1>3
  <2> HIDE DEF call
  <2> QED BY <1>1, <2>2, <2>3, CallMoves DEF CallOK
<1> QED BY <1>2, <1>3 DEF CheckBase

LEMMA DecideKeeps ==
  ASSUME PlannerInv, NEW c \in Planners, Decide(c)
  PROVE PlannerInv'
<1>1. UNCHANGED <<offer, clock, plans, answered>> /\ planner[c].pc = "gather"
  BY DEF Decide
<1>2. planner[c] \in [pc : {"base", "gather"}, request : offer, now : Nat]
  BY <1>1 DEF PlannerInv, CallOK, Idle
<1>3. CASE Return(c)
  BY <1>1, <1>3, CallMoves DEF Return, CallOK
<1>4. CASE ~Return(c)
  <2>1. PICK r, now : r = planner[c].request /\ now = planner[c].now
    OBVIOUS
  <2> DEFINE decision == PlanTau(LawOf(r), r.policy, now)
             call == [pc |-> "put", request |-> r, now |-> now, decision |-> decision]
  <2>2. /\ Plannable(r, now) /\ decision.schedule
        /\ planner' = [planner EXCEPT ![c] = call]
    BY <1>4, <2>1 DEF Decide, NoTurn
  <2>3. r \in offer /\ offer \in Offers
    BY <1>2, <2>1 DEF PlannerInv
  <2>4. LawOf(r) \in TauForecast /\ r.policy \in TauTurnPolicy
    BY <2>3, LawOfType
  <2>5. \E offset \in Int : /\ decision = Turn(LawOf(r), r.policy, offset)
                            /\ Admissible(LawOf(r), r.policy, now, decision)
    BY <2>2, <2>4, PlanTauAdmits
  <2>6. Decided(r, now, decision)
    BY <2>2, <2>5 DEF Decided, Plannable
  <2>7. CallOK(call)
    <3> HIDE DEF decision
    <3> QED BY <2>3, <2>6 DEF CallOK
  <2> HIDE DEF call, decision
  <2> QED BY <1>1, <2>2, <2>7, CallMoves
<1> QED BY <1>3, <1>4

LEMMA PutCall ==
  ASSUME PlannerInv, NEW c \in Planners, planner[c].pc = "put"
  PROVE /\ planner[c].request \in offer
        /\ Decided(planner[c].request, planner[c].now, planner[c].decision)
        /\ planner[c].request.plan \in DOMAIN plans
<1>1. CallOK(planner[c])
  BY DEF PlannerInv
<1> QED BY <1>1 DEF CallOK, Idle, PlannerInv

LEMMA PutKeeps ==
  ASSUME PlannerInv, NEW c \in Planners, Put(c)
  PROVE PlannerInv'
<1>1. UNCHANGED <<offer, clock>> /\ planner[c].pc = "put" /\ Return(c)
  BY DEF Put
<1>2. PICK call : call = planner[c]
  OBVIOUS
<1>3. PICK plan : plan = call.request.plan
  OBVIOUS
<1>4. /\ call.request \in offer /\ Decided(call.request, call.now, call.decision)
      /\ plan \in DOMAIN plans
  BY <1>1, <1>2, <1>3, PutCall
<1>5. DOMAIN planner' = Planners /\ \A d \in Planners : CallOK(planner[d])'
  BY <1>1, OtherCalls DEF Return, CallOK
<1>6. Proposal(call) = [plan |-> plan, request |-> call.request,
                        law |-> LawOf(call.request), decision |-> call.decision]
  BY <1>3 DEF Proposal
<1>7. /\ Proposal(call) # NoPlan
      /\ Proposal(call).request = call.request /\ Proposal(call).decision = call.decision
  BY <1>6, ProposalIsPlan
<1>8. PICK a : a = Answer(call.request, call.decision)
  OBVIOUS
<1>9. a.plan = plan /\ a.request = call.request /\ a.decision = call.decision
  BY <1>3, <1>8 DEF Answer
<1>10. /\ answered' = answered \cup {a}
       /\ \/ plans[plan] = NoPlan /\ plans' = [plans EXCEPT ![plan] = Proposal(call)]
          \/ plans[plan] = Proposal(call) /\ plans' = plans
  BY <1>2, <1>3, <1>8 DEF Put
<1>11. /\ DOMAIN plans' = DOMAIN plans /\ plans'[plan] = Proposal(call)
       /\ \A other \in DOMAIN plans : other # plan => plans'[other] = plans[other]
  BY <1>4, <1>10
<1>12. ASSUME NEW other \in DOMAIN plans' PROVE PlanOK(other)'
  <2>1. CASE other = plan
    BY <1>1, <1>3, <1>4, <1>6, <1>11, <2>1 DEF PlanOK
  <2>2. CASE other # plan
    <3>1. PlanOK(other) /\ plans'[other] = plans[other]
      BY <1>11, <2>2 DEF PlannerInv
    <3>2. CASE plans[other] = NoPlan
      BY <3>1, <3>2 DEF PlanOK
    <3>3. CASE plans[other] # NoPlan
      <4>1. PICK r, now, decision :
              /\ r \in offer
              /\ r.plan = other /\ Decided(r, now, decision)
              /\ plans[other] = [plan |-> other, request |-> r, law |-> LawOf(r),
                                 decision |-> decision]
        BY <3>1, <3>3 DEF PlanOK
      <4> QED BY <1>1, <3>1, <4>1 DEF PlanOK
    <3> QED BY <3>2, <3>3
  <2> QED BY <2>1, <2>2
<1>13. OneTurnPerPlan'
  <2>1. SUFFICES ASSUME NEW b \in answered'
                 PROVE /\ plans'[b.plan] # NoPlan
                       /\ plans'[b.plan].request = b.request
                       /\ plans'[b.plan].decision = b.decision
    BY DEF OneTurnPerPlan
  <2>2. CASE b = a
    BY <1>7, <1>9, <1>11, <2>2
  <2>3. CASE b \in answered
    <3>1. /\ b.plan \in DOMAIN plans /\ plans[b.plan] # NoPlan
          /\ plans[b.plan].request = b.request /\ plans[b.plan].decision = b.decision
      BY <2>3 DEF PlannerInv, OneTurnPerPlan
    <3>2. plans'[b.plan] = plans[b.plan]
      BY <1>10, <1>11, <3>1
    <3> QED BY <3>1, <3>2
  <2> QED BY <1>10, <2>2, <2>3
<1>14. \A b \in answered' : b.plan \in DOMAIN plans'
  BY <1>4, <1>9, <1>10, <1>11 DEF PlannerInv
<1> QED BY <1>1, <1>5, <1>11, <1>12, <1>13, <1>14 DEF PlannerInv

LEMMA PlannerInvNext ==
  ASSUME PlannerInv, [PlannerNext]_plannerVars
  PROVE PlannerInv'
<1>1. ASSUME NEW c \in Planners, NEW r \in offer, Lookup(c, r) PROVE PlannerInv'
  BY <1>1, LookupKeeps
<1>2. ASSUME NEW c \in Planners, CheckBase(c) PROVE PlannerInv'
  BY <1>2, CheckBaseKeeps
<1>3. ASSUME NEW c \in Planners, Decide(c) PROVE PlannerInv'
  BY <1>3, DecideKeeps
<1>4. ASSUME NEW c \in Planners, Put(c) PROVE PlannerInv'
  BY <1>4, PutKeeps
<1>5. ASSUME NEW c \in Planners, Refuse(c) PROVE PlannerInv'
  BY <1>5, CallMoves DEF Refuse, Return, CallOK
<1>6. ASSUME offer' = offer, plans' = plans, planner' = planner, answered' = answered,
             clock' \in Nat
      PROVE PlannerInv'
  <2>1. \A d \in Planners : CallOK(planner[d])'
    BY <1>6 DEF CallOK, PlannerInv
  <2> QED BY <1>6, <2>1, PlansKept DEF PlannerInv, OneTurnPerPlan
<1>7. ASSUME NEW removed, Mutate(removed) PROVE PlannerInv'
  BY <1>6, <1>7 DEF Mutate, PlannerInv
<1>8. CASE PlannerTick
  BY <1>6, <1>8 DEF PlannerTick, PlannerInv
<1>9. CASE UNCHANGED plannerVars
  BY <1>6, <1>9 DEF plannerVars, PlannerInv
<1> QED BY <1>1, <1>2, <1>3, <1>4, <1>5, <1>7, <1>8, <1>9 DEF PlannerNext

\* For any number of planners, requests and stored plans, PlannerInv holds of
\* every interleaving of their calls (PlanTauTurn and the turn queue).
THEOREM PlannerInvariant == PlannerSpec => []PlannerInv
<1>1. PlannerInit => PlannerInv
  BY PlannerInvInit
<1>2. PlannerInv /\ [PlannerNext]_plannerVars => PlannerInv'
  BY PlannerInvNext
<1> QED BY <1>1, <1>2, PTL DEF PlannerSpec

\* However calls of one plan race, repeat or change their request, every turn a
\* caller was told of is the one the queue holds for that plan.
THEOREM OneTurnIsPlanned == PlannerSpec => []OneTurnPerPlan
<1>1. PlannerInv => OneTurnPerPlan
  BY DEF PlannerInv
<1> QED BY <1>1, PlannerInvariant, PTL

\* For any quiet hours, length of a day, laws and policies, no dispatch a stored
\* turn admits falls into a quiet hour or outlives its forecast.
THEOREM QuietHoursAreKept == PlannerSpec => []QuietHoursKept
<1>1. PlannerInv => QuietHoursKept
  <2>1. SUFFICES ASSUME PlannerInv, NEW plan \in DOMAIN plans, plans[plan] # NoPlan,
                        NEW d \in plans[plan].decision.deliverAt..plans[plan].decision.latest
                 PROVE /\ d <= plans[plan].law.validUntil
                       /\ plans[plan].request.policy.quiet # NoQuiet
                            => ~QuietHour(plans[plan].request.policy, (d % Day) \div HourTicks)
    BY DEF QuietHoursKept
  <2>2. PICK r, now, turn :
          /\ r \in offer
          /\ r.plan = plan /\ Decided(r, now, turn)
          /\ plans[plan] = [plan |-> plan, request |-> r, law |-> LawOf(r), decision |-> turn]
    BY <2>1 DEF PlannerInv, PlanOK
  <2>3. PICK law, p : law = LawOf(r) /\ p = r.policy
    OBVIOUS
  <2>4. law \in TauForecast /\ p \in TauTurnPolicy
    BY <2>1, <2>2, <2>3, LawOfType DEF PlannerInv
  <2>5. PICK offset \in Int : /\ ValidateTau(law, p, now)
                              /\ turn = Turn(law, p, offset)
                              /\ Admissible(law, p, now, turn)
    BY <2>2, <2>3 DEF Decided
  <2>6. law.origin \in Int /\ law.validUntil \in Int /\ p.slack \in Int
    BY <2>4, LawDomain DEF TauTurnPolicy
  <2>7. turn.deliverAt = law.origin + offset /\ turn.latest = law.origin + offset + p.slack
    BY <2>5 DEF Turn
  <2>8. turn.deliverAt \in Int /\ turn.latest \in Int /\ turn.latest <= law.validUntil
    BY <2>5, <2>6, <2>7 DEF Admissible
  <2>9. d \in turn.deliverAt..turn.latest
    BY <2>2
  <2>10. d <= law.validUntil
    BY <2>6, <2>8, <2>9
  <2>11. ASSUME p.quiet # NoQuiet PROVE ~QuietHour(p, (d % Day) \div HourTicks)
    <3>1. p.quiet[1] \in 0..DayHours - 1 /\ p.quiet[2] \in 0..DayHours - 1
      BY <2>5, <2>11 DEF ValidateTau, ValidPolicy
    <3>2. ~TauQuietBlocked(turn.deliverAt, turn.latest, p)
      BY <2>5 DEF Admissible
    <3> QED BY <2>4, <2>8, <2>9, <2>11, <3>1, <3>2, QuietLemma
  <2> QED BY <2>2, <2>3, <2>10, <2>11
<1> QED BY <1>1, PlannerInvariant, PTL

\* Whatever law within the declared radius is the true one, and whenever inside
\* the slack the turn is dispatched, a turn that is issued is worth more than
\* the policy's margin.
THEOREM TurnsArePaidOff == PlannerSpec => TurnsPayOff
<1>1. ASSUME PlannerInv', NEW plan \in DOMAIN plans', plans'[plan] # NoPlan
      PROVE PaysOff(plans'[plan])
  <2>1. PICK r, now, turn :
          /\ r \in offer'
          /\ r.plan = plan /\ Decided(r, now, turn)
          /\ plans'[plan] = [plan |-> plan, request |-> r, law |-> LawOf(r), decision |-> turn]
    BY <1>1 DEF PlannerInv, PlanOK
  <2>2. PICK law, p : law = LawOf(r) /\ p = r.policy
    OBVIOUS
  <2>3. law \in TauForecast /\ p \in TauTurnPolicy
    BY <1>1, <2>1, <2>2, LawOfType DEF PlannerInv
  <2>4. PICK offset \in Int : /\ ValidateTau(law, p, now)
                              /\ turn = Turn(law, p, offset)
                              /\ Admissible(law, p, now, turn)
    BY <2>1, <2>2 DEF Decided
  <2>5. /\ plans'[plan].law = law /\ plans'[plan].request.policy = p
        /\ plans'[plan].decision = Turn(law, p, offset)
    BY <2>1, <2>2, <2>4
  <2> QED BY <2>3, <2>4, <2>5, AdmittedPaysOff
<1>2. ASSUME PlannerInv, PlannerInv', [PlannerNext]_plannerVars, NEW plan \in DOMAIN plans,
             plans'[plan] # plans[plan]
      PROVE plan \in DOMAIN plans' /\ plans'[plan] # NoPlan
  <2>1. PICK c \in Planners : Put(c)
    BY <1>2 DEF PlannerNext, plannerVars, Lookup, CheckBase, Decide, Refuse, Mutate, PlannerTick
  <2>2. plans' = [plans EXCEPT ![planner[c].request.plan] = Proposal(planner[c])]
    BY <1>2, <2>1 DEF Put
  <2>3. plans'[plan] = Proposal(planner[c])
    BY <1>2, <2>2
  <2> QED BY <2>2, <2>3, ProposalIsPlan DEF Proposal
<1>3. PlannerInv /\ PlannerInv' /\ [PlannerNext]_plannerVars
        => [\A plan \in DOMAIN plans : plans'[plan] # plans[plan] => PaysOff(plans'[plan])]_plannerVars
  BY <1>1, <1>2
<1> QED BY <1>3, PlannerInvariant, PTL DEF PlannerSpec, TurnsPayOff

(***************************************************************************)
(* Arranging a sequence.                                                   *)
(***************************************************************************)

StrictTotalOrder(R, S) ==
  /\ \A i \in S : <<i, i>> \notin R
  /\ \A i, j, k \in S : <<i, j>> \in R /\ <<j, k>> \in R => <<i, k>> \in R
  /\ \A i, j \in S : i # j => <<i, j>> \in R \/ <<j, i>> \in R

LEMMA SubsetOfInterval ==
  ASSUME NEW n \in Nat, NEW S \in SUBSET (1..n)
  PROVE IsFiniteSet(S) /\ Cardinality(S) \in Nat /\ Cardinality(S) <= n
<1>1. IsFiniteSet(1..n) /\ Cardinality(1..n) = n
  BY FS_Interval
<1> QED BY <1>1, FS_Subset, FS_CardinalityType

LEMMA StrictlySmaller ==
  ASSUME NEW n \in Nat, NEW T \in SUBSET (1..n), NEW S, NEW x \in T, S \subseteq T \ {x}
  PROVE Cardinality(S) < Cardinality(T)
<1>1. IsFiniteSet(T) /\ Cardinality(T) \in Nat
  BY SubsetOfInterval
<1>2. IsFiniteSet(T \ {x}) /\ Cardinality(T \ {x}) = Cardinality(T) - 1
  BY <1>1, FS_RemoveElement
<1>3. IsFiniteSet(S) /\ Cardinality(S) <= Cardinality(T \ {x})
  BY <1>2, FS_Subset
<1>4. Cardinality(S) \in Nat
  BY <1>3, FS_CardinalityType
<1> QED BY <1>1, <1>2, <1>3, <1>4

\* s holds the elements of seq in the order R of their indices.
Arrangement(s, seq, n, R) ==
  \E pos \in [1..n -> 1..n] :
    /\ \A k \in 1..n : s[k] = seq[pos[k]]
    /\ \A k, l \in 1..n : k < l => <<pos[k], pos[l]>> \in R
    /\ \A i \in 1..n : \E k \in 1..n : pos[k] = i

LEMMA Arranged ==
  ASSUME NEW n \in Nat, NEW seq, DOMAIN seq = 1..n, NEW R, StrictTotalOrder(R, 1..n)
  PROVE /\ DOMAIN Arrange(seq, R) = 1..n
        /\ Arrangement(Arrange(seq, R), seq, n, R)
<1> DEFINE below(i) == {j \in 1..n : <<j, i>> \in R}
           place == [i \in 1..n |-> 1 + Cardinality(below(i))]
           pos == [k \in 1..n |-> CHOOSE i \in 1..n : place[i] = k]
<1>1. ASSUME NEW i \in 1..n, NEW j \in 1..n, <<i, j>> \in R PROVE place[i] < place[j]
  <2>1. i \in below(j)
    BY <1>1
  <2>2. below(i) \subseteq below(j) \ {i}
    BY <1>1 DEF StrictTotalOrder
  <2>3. below(i) \in SUBSET (1..n) /\ below(j) \in SUBSET (1..n)
    OBVIOUS
  <2>4. place[i] = 1 + Cardinality(below(i)) /\ place[j] = 1 + Cardinality(below(j))
    OBVIOUS
  <2> HIDE DEF below, place
  <2>5. Cardinality(below(i)) < Cardinality(below(j))
    BY <2>1, <2>2, <2>3, StrictlySmaller
  <2>6. Cardinality(below(i)) \in Nat /\ Cardinality(below(j)) \in Nat
    BY <2>3, SubsetOfInterval
  <2> QED BY <2>4, <2>5, <2>6
<1>2. ASSUME NEW i \in 1..n PROVE place[i] \in 1..n
  <2>1. below(i) \subseteq (1..n) \ {i}
    BY DEF StrictTotalOrder
  <2>2. place[i] = 1 + Cardinality(below(i))
    OBVIOUS
  <2>3. below(i) \in SUBSET (1..n) /\ 1..n \in SUBSET (1..n)
    OBVIOUS
  <2> HIDE DEF below, place
  <2>4. Cardinality(below(i)) < Cardinality(1..n)
    BY <2>1, <2>3, StrictlySmaller
  <2>5. Cardinality(1..n) = n /\ Cardinality(below(i)) \in Nat
    BY <2>3, SubsetOfInterval, FS_Interval
  <2> QED BY <2>2, <2>4, <2>5
<1>3. ASSUME NEW i \in 1..n, NEW j \in 1..n, place[i] = place[j] PROVE i = j
  <2>1. place[i] \in Int /\ place[j] \in Int
    BY <1>2
  <2> HIDE DEF place
  <2>2. ~(<<i, j>> \in R)
    <3>1. SUFFICES ASSUME <<i, j>> \in R PROVE FALSE
      OBVIOUS
    <3>2. place[i] < place[j]
      BY <1>1, <3>1
    <3> QED BY <1>3, <2>1, <3>2
  <2>3. ~(<<j, i>> \in R)
    <3>1. SUFFICES ASSUME <<j, i>> \in R PROVE FALSE
      OBVIOUS
    <3>2. place[j] < place[i]
      BY <1>1, <3>1
    <3> QED BY <1>3, <2>1, <3>2
  <2> QED BY <2>2, <2>3 DEF StrictTotalOrder
<1>4. place \in Surjection(1..n, 1..n)
  <2>1. place \in [1..n -> 1..n]
    BY <1>2
  <2> HIDE DEF place
  <2>2. place \in Injection(1..n, 1..n)
    BY <1>3, <2>1 DEF Injection, IsInjective
  <2>3. IsFiniteSet(1..n)
    BY FS_Interval
  <2> QED BY <2>2, <2>3, FS_Injection
<1>5. ASSUME NEW k \in 1..n PROVE pos[k] \in 1..n /\ place[pos[k]] = k
  <2>1. \E i \in 1..n : place[i] = k
    BY <1>4 DEF Surjection
  <2>2. pos[k] = CHOOSE i \in 1..n : place[i] = k
    OBVIOUS
  <2> HIDE DEF pos, place
  <2> QED BY <2>1, <2>2
<1>6. /\ DOMAIN Arrange(seq, R) = 1..n
      /\ \A k \in 1..n : Arrange(seq, R)[k] = seq[pos[k]]
  <2>1. Arrange(seq, R) = [k \in 1..n |-> seq[CHOOSE i \in 1..n : 1 + Cardinality(below(i)) = k]]
    BY DEF Arrange
  <2>2. ASSUME NEW k \in 1..n
        PROVE pos[k] = CHOOSE i \in 1..n : 1 + Cardinality(below(i)) = k
    <3>1. \A i \in 1..n : place[i] = 1 + Cardinality(below(i))
      OBVIOUS
    <3>2. pos[k] = CHOOSE i \in 1..n : place[i] = k
      OBVIOUS
    <3> HIDE DEF pos, place, below
    <3> QED BY <3>1, <3>2
  <2> HIDE DEF pos, place, below
  <2> QED BY <2>1, <2>2
<1>7. pos \in [1..n -> 1..n]
  <2>1. ASSUME NEW k \in 1..n PROVE (CHOOSE i \in 1..n : place[i] = k) \in 1..n
    BY <1>5
  <2> HIDE DEF place
  <2> QED BY <2>1
<1>8. ASSUME NEW k \in 1..n, NEW l \in 1..n, k < l PROVE <<pos[k], pos[l]>> \in R
  <2>1. pos[k] \in 1..n /\ pos[l] \in 1..n /\ place[pos[k]] = k /\ place[pos[l]] = l
    BY <1>5
  <2> HIDE DEF pos, place
  <2>2. pos[k] # pos[l]
    BY <1>8, <2>1
  <2>3. ~(<<pos[l], pos[k]>> \in R)
    <3>1. SUFFICES ASSUME <<pos[l], pos[k]>> \in R PROVE FALSE
      OBVIOUS
    <3>2. place[pos[l]] < place[pos[k]]
      BY <1>1, <2>1, <3>1
    <3> QED BY <1>8, <2>1, <3>2
  <2> QED BY <2>1, <2>2, <2>3 DEF StrictTotalOrder
<1>9. ASSUME NEW i \in 1..n PROVE \E k \in 1..n : pos[k] = i
  <2>1. place[i] \in 1..n
    BY <1>2
  <2>2. pos[place[i]] \in 1..n /\ place[pos[place[i]]] = place[i]
    BY <1>5, <2>1
  <2>3. pos[place[i]] = i
    BY <1>3, <2>2
  <2> HIDE DEF pos, place
  <2> QED BY <2>1, <2>3
<1> HIDE DEF pos
<1> QED BY <1>6, <1>7, <1>8, <1>9 DEF Arrangement

\* A list of all of S, each member once.
Lists(seq, n, S) ==
  /\ seq \in [1..n -> S]
  /\ \A x \in S : \E k \in 1..n : seq[k] = x
  /\ \A k, l \in 1..n : seq[k] = seq[l] => k = l

LEMMA ArrangedLists ==
  ASSUME NEW n \in Nat, NEW S, NEW seq, Lists(seq, n, S), NEW R, StrictTotalOrder(R, 1..n)
  PROVE Lists(Arrange(seq, R), n, S)
<1>1. DOMAIN seq = 1..n
  BY DEF Lists
<1>2. PICK s : s = Arrange(seq, R)
  OBVIOUS
<1>3. PICK pos \in [1..n -> 1..n] :
        /\ \A k \in 1..n : s[k] = seq[pos[k]]
        /\ \A k, l \in 1..n : k < l => <<pos[k], pos[l]>> \in R
        /\ \A i \in 1..n : \E k \in 1..n : pos[k] = i
  <2>1. Arrangement(s, seq, n, R)
    BY <1>1, <1>2, Arranged
  <2> QED BY <2>1 DEF Arrangement
<1>4. s = [k \in 1..n |-> s[k]]
  <2>1. DOMAIN s = 1..n
    BY <1>1, <1>2, Arranged
  <2>2. s = [k \in DOMAIN s |-> s[k]]
    BY <1>2 DEF Arrange
  <2> QED BY <2>1, <2>2
<1>5. s \in [1..n -> S]
  BY <1>3, <1>4 DEF Lists
<1>6. ASSUME NEW x \in S PROVE \E k \in 1..n : s[k] = x
  <2>1. PICK i \in 1..n : seq[i] = x
    BY DEF Lists
  <2>2. PICK k \in 1..n : pos[k] = i
    BY <1>3
  <2> QED BY <1>3, <2>1, <2>2
<1>7. ASSUME NEW k \in 1..n, NEW l \in 1..n, s[k] = s[l] PROVE k = l
  <2>1. pos[k] = pos[l]
    BY <1>3, <1>7 DEF Lists
  <2>2. \A i \in 1..n : <<i, i>> \notin R
    BY DEF StrictTotalOrder
  <2>3. ~(k < l) /\ ~(l < k)
    BY <1>3, <2>1, <2>2
  <2> QED BY <2>3
<1> QED BY <1>2, <1>5, <1>6, <1>7 DEF Lists

LEMMA SortedLists ==
  ASSUME NEW n \in Nat, NEW seq, Lists(seq, n, Ids), NEW value, NEW recentFirst \in BOOLEAN,
         \A i \in Ids : value[i] \in Int /\ frontier[i].available \in Int
  PROVE /\ Lists(StableSort(seq, value, recentFirst), n, Ids)
        /\ \A k, l \in 1..n : k < l => value[StableSort(seq, value, recentFirst)[l]]
                                         <= value[StableSort(seq, value, recentFirst)[k]]
<1> DEFINE before(i, j) ==
             \/ value[seq[i]] > value[seq[j]]
             \/ /\ value[seq[i]] = value[seq[j]]
                /\ IF recentFirst /\ frontier[seq[i]].available # frontier[seq[j]].available
                   THEN frontier[seq[i]].available > frontier[seq[j]].available
                   ELSE i < j
           R == {p \in (1..n) \X (1..n) : before(p[1], p[2])}
<1>1. DOMAIN seq = 1..n /\ \A i \in 1..n : seq[i] \in Ids
  BY DEF Lists
<1>2. StableSort(seq, value, recentFirst) = Arrange(seq, R)
  BY <1>1 DEF StableSort
<1>3. \A i, j \in 1..n : <<i, j>> \in R <=> before(i, j)
  OBVIOUS
<1>4. \A i \in 1..n : value[seq[i]] \in Int /\ frontier[seq[i]].available \in Int
  BY <1>1
<1>5. \A i \in 1..n : ~before(i, i)
  BY <1>4
<1>6. ASSUME NEW i \in 1..n, NEW j \in 1..n, NEW k \in 1..n, before(i, j), before(j, k)
      PROVE before(i, k)
  <2>1. PICK vi, vj, vk, ai, aj, ak :
          /\ vi = value[seq[i]] /\ vj = value[seq[j]] /\ vk = value[seq[k]]
          /\ ai = frontier[seq[i]].available /\ aj = frontier[seq[j]].available
          /\ ak = frontier[seq[k]].available
    OBVIOUS
  <2>2. vi \in Int /\ vj \in Int /\ vk \in Int /\ ai \in Int /\ aj \in Int /\ ak \in Int
    BY <1>4, <2>1
  <2>3. /\ vi > vj \/ (vi = vj /\ IF recentFirst /\ ai # aj THEN ai > aj ELSE i < j)
        /\ vj > vk \/ (vj = vk /\ IF recentFirst /\ aj # ak THEN aj > ak ELSE j < k)
    BY <1>6, <2>1
  <2>4. vi > vk \/ (vi = vk /\ IF recentFirst /\ ai # ak THEN ai > ak ELSE i < k)
    BY <2>2, <2>3
  <2> QED BY <2>1, <2>4
<1>7. ASSUME NEW i \in 1..n, NEW j \in 1..n, i # j PROVE before(i, j) \/ before(j, i)
  <2>1. PICK vi, vj, ai, aj :
          /\ vi = value[seq[i]] /\ vj = value[seq[j]]
          /\ ai = frontier[seq[i]].available /\ aj = frontier[seq[j]].available
    OBVIOUS
  <2>2. vi \in Int /\ vj \in Int /\ ai \in Int /\ aj \in Int
    BY <1>4, <2>1
  <2>3. \/ vi > vj \/ (vi = vj /\ IF recentFirst /\ ai # aj THEN ai > aj ELSE i < j)
        \/ vj > vi \/ (vj = vi /\ IF recentFirst /\ aj # ai THEN aj > ai ELSE j < i)
    BY <1>7, <2>2
  <2> QED BY <2>1, <2>3
<1>8. StrictTotalOrder(R, 1..n)
  <2> HIDE DEF before, R
  <2> QED BY <1>3, <1>5, <1>6, <1>7 DEF StrictTotalOrder
<1>9. Lists(Arrange(seq, R), n, Ids)
  <2> HIDE DEF R
  <2> QED BY <1>8, ArrangedLists
<1>10. PICK s : s = Arrange(seq, R)
  OBVIOUS
<1>11. PICK pos \in [1..n -> 1..n] :
         /\ \A k \in 1..n : s[k] = seq[pos[k]]
         /\ \A k, l \in 1..n : k < l => <<pos[k], pos[l]>> \in R
  <2> HIDE DEF R
  <2>1. Arrangement(s, seq, n, R)
    BY <1>1, <1>8, <1>10, Arranged
  <2> QED BY <2>1 DEF Arrangement
<1>12. ASSUME NEW k \in 1..n, NEW l \in 1..n, k < l PROVE value[s[l]] <= value[s[k]]
  <2>1. before(pos[k], pos[l])
    <3>1. pos[k] \in 1..n /\ pos[l] \in 1..n /\ <<pos[k], pos[l]>> \in R
      BY <1>11, <1>12
    <3> HIDE DEF before, R
    <3> QED BY <1>3, <3>1
  <2>2. s[k] = seq[pos[k]] /\ s[l] = seq[pos[l]]
    BY <1>11
  <2>3. value[seq[pos[k]]] \in Int /\ value[seq[pos[l]]] \in Int
    BY <1>4, <1>11
  <2>4. value[seq[pos[k]]] > value[seq[pos[l]]] \/ value[seq[pos[k]]] = value[seq[pos[l]]]
    BY <2>1
  <2> QED BY <2>2, <2>3, <2>4
<1> HIDE DEF R
<1> QED BY <1>2, <1>9, <1>10, <1>12

LEMMA PutFirstLists ==
  ASSUME NEW n \in Nat, NEW S, NEW seq, Lists(seq, n, S), NEW first, NEW m \in Nat
  PROVE Lists(PutFirst(seq, first, m), n, S)
<1> DEFINE place(i) == IF \E k \in 1..m : first[k] = seq[i]
                       THEN CHOOSE k \in 1..m : first[k] = seq[i] ELSE m + i
           R == {p \in (1..n) \X (1..n) : place(p[1]) < place(p[2])}
<1>1. DOMAIN seq = 1..n
  BY DEF Lists
<1>2. PutFirst(seq, first, m) = Arrange(seq, R)
  BY <1>1 DEF PutFirst
<1>3. ASSUME NEW i \in 1..n
      PROVE /\ (place(i) \in 1..m /\ first[place(i)] = seq[i]) \/ place(i) = m + i
            /\ place(i) \in Int
  <2>1. CASE \E k \in 1..m : first[k] = seq[i]
    <3>1. place(i) = CHOOSE k \in 1..m : first[k] = seq[i]
      BY <2>1
    <3>2. place(i) \in 1..m /\ first[place(i)] = seq[i]
      <4> HIDE DEF place
      <4> QED BY <2>1, <3>1
    <3> HIDE DEF place
    <3> QED BY <3>2
  <2>2. CASE ~\E k \in 1..m : first[k] = seq[i]
    <3>1. place(i) = m + i
      BY <2>2
    <3> HIDE DEF place
    <3> QED BY <3>1
  <2> QED BY <2>1, <2>2
<1>4. \A i, j \in 1..n : <<i, j>> \in R <=> place(i) < place(j)
  OBVIOUS
<1> HIDE DEF place, R
<1>5. ASSUME NEW i \in 1..n, NEW j \in 1..n, place(i) = place(j) PROVE i = j
  <2>1. CASE place(i) \in 1..m
    <3>1. first[place(i)] = seq[i] /\ first[place(j)] = seq[j]
      BY <1>3, <1>5, <2>1
    <3>2. seq[i] = seq[j]
      BY <1>5, <3>1
    <3> QED BY <3>2 DEF Lists
  <2>2. CASE place(i) \notin 1..m
    <3>1. place(i) = m + i /\ place(j) = m + j
      BY <1>3, <1>5, <2>2
    <3>2. m + i = m + j
      BY <1>5, <3>1
    <3>3. m \in Int /\ i \in Int /\ j \in Int
      OBVIOUS
    <3> QED BY <3>2, <3>3
  <2> QED BY <2>1, <2>2
<1>6. \A i \in 1..n : place(i) \in Int
  BY <1>3
<1>7. StrictTotalOrder(R, 1..n)
  <2>1. \A i \in 1..n : <<i, i>> \notin R
    BY <1>4, <1>6
  <2>2. \A i, j, k \in 1..n : <<i, j>> \in R /\ <<j, k>> \in R => <<i, k>> \in R
    BY <1>4, <1>6
  <2>3. \A i, j \in 1..n : i # j => <<i, j>> \in R \/ <<j, i>> \in R
    BY <1>4, <1>5, <1>6
  <2> QED BY <2>1, <2>2, <2>3 DEF StrictTotalOrder
<1> QED BY <1>2, <1>7, ArrangedLists

(***************************************************************************)
(* The order of a recall.                                                  *)
(***************************************************************************)

LEMMA MaxOfTwo ==
  ASSUME NEW a \in Int, NEW b \in Int
  PROVE Max({a, b}) \in Int /\ Max({a, b}) = IF a >= b THEN a ELSE b
<1>1. \E x \in {a, b} : \A y \in {a, b} : x >= y
  OBVIOUS
<1>2. Max({a, b}) = CHOOSE x \in {a, b} : \A y \in {a, b} : x >= y
  BY DEF Max
<1>3. Max({a, b}) \in {a, b} /\ \A y \in {a, b} : Max({a, b}) >= y
  BY <1>1, <1>2
<1> QED BY <1>3

LEMMA MinOfTwo ==
  ASSUME NEW a \in Int, NEW b \in Int
  PROVE Min({a, b}) \in Int /\ Min({a, b}) = IF a <= b THEN a ELSE b
<1>1. \E x \in {a, b} : \A y \in {a, b} : x <= y
  OBVIOUS
<1>2. Min({a, b}) = CHOOSE x \in {a, b} : \A y \in {a, b} : x <= y
  BY DEF Min
<1>3. Min({a, b}) \in {a, b} /\ \A y \in {a, b} : Min({a, b}) <= y
  BY <1>1, <1>2
<1> QED BY <1>3

LEMMA Clamped ==
  ASSUME NEW v \in Int, NEW lo \in Int, NEW hi \in Int, lo <= hi
  PROVE /\ Clamp(v, lo, hi) \in Int
        /\ Clamp(v, lo, hi) = IF v < lo THEN lo ELSE IF v > hi THEN hi ELSE v
<1>1. PICK m : m = Min({v, hi})
  OBVIOUS
<1>2. m \in Int /\ m = IF v <= hi THEN v ELSE hi
  BY <1>1, MinOfTwo
<1>3. Max({lo, m}) \in Int /\ Max({lo, m}) = IF lo >= m THEN lo ELSE m
  BY <1>2, MaxOfTwo
<1>4. Clamp(v, lo, hi) = Max({lo, m})
  BY <1>1 DEF Clamp
<1> QED BY <1>2, <1>3, <1>4

\* The same around zero.
LEMMA ClampedAround ==
  ASSUME NEW v \in Int, NEW b \in Nat
  PROVE Clamp(v, -b, b) \in Int /\ Clamp(v, -b, b) <= b /\ -b <= Clamp(v, -b, b)
<1>1. PICK lo : lo = -b
  OBVIOUS
<1>2. lo \in Int /\ b \in Int /\ lo <= b
  BY <1>1
<1>3. /\ Clamp(v, lo, b) \in Int
      /\ Clamp(v, lo, b) = IF v < lo THEN lo ELSE IF v > b THEN b ELSE v
  BY <1>2, Clamped
<1>4. Clamp(v, lo, b) <= b /\ lo <= Clamp(v, lo, b)
  BY <1>2, <1>3
<1> QED BY <1>1, <1>3, <1>4

Size == Len(frontier)

\* The numbers of a frontier.
LEMMA FrontierType ==
  ASSUME frontier \in Frontiers
  PROVE /\ Size \in Nat /\ Ids = 1..Size /\ Cardinality(Ids) = Size
        /\ \A i \in Ids : /\ frontier[i].base \in Int /\ frontier[i].correction \in Int
                          /\ frontier[i].available \in Int /\ frontier[i].tokens \in Nat
<1>1. frontier \in Seq(Range(frontier))
  BY FrontiersTyped
<1>2. Size \in Nat /\ Ids = 1..Size
  BY <1>1 DEF Size, Ids
<1>3. Cardinality(Ids) = Size
  BY <1>2, FS_Interval
<1>4. \A i \in Ids : /\ {frontier[i].base, frontier[i].correction, frontier[i].available} \subseteq Int
                     /\ frontier[i].tokens \in Nat
  BY FrontiersTyped DEF Ids
<1> QED BY <1>2, <1>3, <1>4

\* How far scores may have left the retrieval score, and in which order they are.
Near(bound) ==
  \A i \in Ids : /\ score[i] \in Int
                 /\ score[i] - retrieval[i] <= bound /\ retrieval[i] - score[i] <= bound

Falling == \A k, l \in 1..Size : k < l => score[order[l]] <= score[order[k]]

Bound == MaxRankDelta + (IF resolution = "auto" THEN 0 ELSE Preference)

RankedScores == \A i \in Ids : retrieval[i] \in 0..Top

\* Up to the packing the order is a list of the frontier, and its scores stay
\* near the retrieval scores.
MotionInv ==
  /\ frontier \in Frontiers
  /\ stage \in {"decide", "correct", "rank", "failed", "deltas", "resolution", "limit", "pack"}
  /\ stage # "pack" => Lists(order, Size, Ids)
  /\ stage = "deltas" => RankedScores /\ score = retrieval
  /\ stage = "resolution" => RankedScores /\ Near(MaxRankDelta) /\ Falling
  /\ stage = "limit" => RankedScores /\ Near(Bound) /\ Falling

LEMMA MaxOfThree ==
  ASSUME NEW a \in Int, NEW b \in Int, NEW c \in Int
  PROVE Max({a, b, c}) \in Int /\ Max({a, b, c}) >= c
<1>1. \E x \in {a, b, c} : \A y \in {a, b, c} : x >= y
  OBVIOUS
<1>2. Max({a, b, c}) = CHOOSE x \in {a, b, c} : \A y \in {a, b, c} : x >= y
  BY DEF Max
<1>3. Max({a, b, c}) \in {a, b, c} /\ \A y \in {a, b, c} : Max({a, b, c}) >= y
  BY <1>1, <1>2
<1> QED BY <1>3

LEMMA MotionInvInit == OrderInit => MotionInv
<1>1. SUFFICES ASSUME OrderInit PROVE MotionInv
  OBVIOUS
<1>2. frontier \in Frontiers /\ stage = "decide"
  BY <1>1 DEF OrderInit
<1>3. /\ Size \in Nat /\ Ids = 1..Size
      /\ \A i \in Ids : frontier[i].base \in Int /\ frontier[i].available \in Int
  BY <1>2, FrontierType
<1>4. PICK seq, value : seq = [i \in Ids |-> i] /\ value = score
  OBVIOUS
<1>5. Lists(seq, Size, Ids)
  BY <1>3, <1>4 DEF Lists
<1>6. \A i \in Ids : value[i] \in Int /\ frontier[i].available \in Int
  BY <1>1, <1>3, <1>4 DEF OrderInit
<1>7. order = StableSort(seq, value, TRUE)
  BY <1>1, <1>4 DEF OrderInit
<1>8. Lists(order, Size, Ids)
  BY <1>3, <1>5, <1>6, <1>7, SortedLists
<1> QED BY <1>2, <1>8 DEF MotionInv

\* A step that sorts the order by new scores.
LEMMA Resorted ==
  ASSUME frontier \in Frontiers, frontier' = frontier, Lists(order, Size, Ids),
         NEW recentFirst \in BOOLEAN, order' = StableSort(order, score', recentFirst),
         \A i \in Ids : score'[i] \in Int
  PROVE Lists(order, Size, Ids)' /\ Falling'
<1>1. Size \in Nat /\ \A i \in Ids : frontier[i].available \in Int
  BY FrontierType
<1>2. PICK value : value = score'
  OBVIOUS
<1>3. order' = StableSort(order, value, recentFirst)
  BY <1>2
<1>4. \A i \in Ids : value[i] \in Int /\ frontier[i].available \in Int
  BY <1>1, <1>2
<1>5. /\ Lists(StableSort(order, value, recentFirst), Size, Ids)
      /\ \A k, l \in 1..Size : k < l => value[StableSort(order, value, recentFirst)[l]]
                                          <= value[StableSort(order, value, recentFirst)[k]]
  BY <1>1, <1>4, SortedLists
<1>6. Size' = Size /\ Ids' = Ids
  BY DEF Size, Ids
<1>7. Lists(order', Size, Ids)
  BY <1>3, <1>5
<1>8. Lists(order, Size, Ids)'
  BY <1>6, <1>7 DEF Lists
<1>9. Falling'
  BY <1>2, <1>3, <1>5, <1>6 DEF Falling
<1> QED BY <1>8, <1>9

LEMMA CorrectedType ==
  ASSUME frontier \in Frontiers, NEW i \in Ids
  PROVE Corrected(i) \in Int
<1>1. frontier[i].base \in Int /\ frontier[i].correction \in Int
  BY FrontierType
<1>2. frontier[i].base + frontier[i].correction \in Int /\ 0 <= Top /\ Top \in Int
  BY <1>1, Budgets
<1>3. PICK v \in Int : v = frontier[i].base + frontier[i].correction
  BY <1>2
<1>4. Clamp(v, 0, Top) \in Int
  BY <1>2, Clamped
<1> QED BY <1>3, <1>4 DEF Corrected

LEMMA RankDeltaType ==
  ASSUME MotionInv, stage = "deltas", NEW i \in Ids
  PROVE RankDelta(i) \in Int /\ RankDelta(i) <= MaxRankDelta /\ -MaxRankDelta <= RankDelta(i)
<1>1. MaxRankDelta \in Nat /\ -MaxRankDelta \in Int /\ -MaxRankDelta <= MaxRankDelta
  BY Budgets
<1>2. frontier[i].base \in Int /\ Corrected(i) \in Int
  BY FrontierType, CorrectedType DEF MotionInv
<1>3. Delta(i) \in Int
  <2>1. Corrected(i) - frontier[i].base \in Int
    BY <1>2
  <2> QED BY <1>1, <2>1, ClampedAround DEF Delta
<1>4. Size \in Nat /\ order \in [1..Size -> Ids] /\ Len(order) = Size
  <2>1. Size \in Nat /\ order \in [1..Size -> Ids]
    BY FrontierType DEF MotionInv, Lists
  <2>2. order \in Seq(Ids)
    BY <2>1
  <2> QED BY <2>1, <2>2
<1>5. \A k \in 1..Size : retrieval[order[k]] \in Int
  BY <1>4, Budgets DEF MotionInv, RankedScores
<1>6. PackK \in Nat /\ PackK >= 1
  BY Budgets
<1>7. BoundaryScale \in Int /\ BoundaryScale >= 1
  <2>1. CASE PackK >= Len(order)
    BY <2>1 DEF BoundaryScale
  <2>2. CASE PackK < Len(order)
    <3>1. retrieval[order[PackK]] \in Int /\ retrieval[order[PackK + 1]] \in Int
      BY <1>4, <1>5, <1>6, <2>2
    <3>2. BoundaryScale = Max({retrieval[order[PackK]], retrieval[order[PackK + 1]], 1})
      BY <1>4, <1>6, <2>2 DEF BoundaryScale
    <3> QED BY <3>1, <3>2, MaxOfThree
  <2> QED BY <1>4, <1>6, <2>1, <2>2
<1>8. BoundaryGap \in Int
  <2>1. CASE PackK >= Len(order)
    BY <2>1 DEF BoundaryGap
  <2>2. CASE PackK < Len(order)
    <3>1. retrieval[order[PackK]] - retrieval[order[PackK + 1]] \in Int
      BY <1>4, <1>5, <1>6, <2>2
    <3>2. BoundaryGap = Max({0, retrieval[order[PackK]] - retrieval[order[PackK + 1]]})
      BY <1>4, <1>6, <2>2 DEF BoundaryGap
    <3> QED BY <3>1, <3>2, MaxOfTwo
  <2> QED BY <1>4, <1>6, <2>1, <2>2
<1>9. ElasticDelta(i) \in Int
  <2>1. PICK d, bs, bg : d = Delta(i) /\ bs = BoundaryScale /\ bg = BoundaryGap
    OBVIOUS
  <2>2. /\ d \in Int /\ bs \in Int /\ bs >= 1 /\ bg \in Int
        /\ MinScale \in Int /\ MaxScale \in Int /\ ScaleUnit \in Int /\ ScaleUnit >= 1
    BY <1>3, <1>7, <1>8, <2>1, Budgets
  <2>3. PICK x, y : /\ x = d * (MinScale * bs + (MaxScale - MinScale) * (bs - bg))
                    /\ y = ScaleUnit * bs
    OBVIOUS
  <2>4. x \in Int
    BY <2>2, <2>3
  <2>5. y \in Int /\ y > 0
    BY <2>2, <2>3
  <2>6. ElasticDelta(i) = x \div y
    BY <2>1, <2>3 DEF ElasticDelta
  <2> QED BY <2>4, <2>5, <2>6, Division
<1> QED BY <1>1, <1>9, ClampedAround DEF RankDelta

LEMMA AdjustmentType ==
  ASSUME frontier \in Frontiers, NEW i \in Ids
  PROVE Adjustment(i) \in Int /\ Adjustment(i) <= Preference /\ -Preference <= Adjustment(i)
<1> DEFINE own == IF frontier[i].members = {} THEN 0
                  ELSE IF resolution = "coarse" THEN Preference ELSE -Preference
           holders == {c \in Ids : /\ i \in frontier[c].members
                                   /\ resolution = "coarse" => i # frontier[c].representative}
           half == IF resolution = "coarse" THEN -(Preference \div 2) ELSE Preference \div 2
<1>1. Preference \in Nat /\ -Preference \in Int /\ -Preference <= Preference /\ Preference \div 2 \in Int
  BY Budgets
<1>2. Cardinality(holders) \in Nat
  <2>1. holders \in SUBSET (1..Size) /\ Size \in Nat
    BY FrontierType
  <2> HIDE DEF holders
  <2> QED BY <2>1, SubsetOfInterval
<1>3. own \in Int /\ half \in Int
  BY <1>1
<1>4. Adjustment(i) = Clamp(own + half * Cardinality(holders), -Preference, Preference)
  BY DEF Adjustment
<1> HIDE DEF own, holders, half
<1>5. own + half * Cardinality(holders) \in Int
  BY <1>2, <1>3
<1> QED BY <1>1, <1>4, <1>5, ClampedAround

LEMMA RankedKeeps ==
  ASSUME MotionInv, NEW a \in Answers(frontier), RankCandidates(a.ranked, a.scores)
  PROVE MotionInv'
<1>1. /\ frontier' = frontier /\ stage' = "deltas" /\ score' = retrieval'
      /\ order' = PutFirst(order, a.ranked, Len(a.ranked))
      /\ stage = "rank" /\ frontier \in Frontiers /\ Lists(order, Size, Ids)
  BY DEF RankCandidates, MotionInv
<1>2. Len(a.ranked) \in Nat /\ \A i \in Range(a.ranked) : a.scores[i] \in Int
  <2>1. /\ a.ranked \in Seq(Range(a.ranked))
        /\ \A i \in Range(a.ranked) : a.scores[i] \in Int
    BY <1>1, FrontiersTyped
  <2> QED BY <2>1
<1>3. Size \in Nat /\ \A i \in Ids : frontier[i].base \in Int
  BY <1>1, FrontierType
<1>4. PICK first, m : first = a.ranked /\ m = Len(a.ranked)
  OBVIOUS
<1>5. Lists(order', Size, Ids)
  BY <1>1, <1>2, <1>3, <1>4, PutFirstLists
<1>6. Size' = Size /\ Ids' = Ids
  BY <1>1 DEF Size, Ids
<1>7. ASSUME NEW i \in Ids PROVE retrieval'[i] \in 0..Top
  <2>1. PICK v : v = IF i \in Range(a.ranked) THEN a.scores[i] ELSE frontier[i].base
    OBVIOUS
  <2>2. v \in Int /\ Top \in Nat
    BY <1>2, <1>3, <2>1, Budgets
  <2>3. retrieval'[i] = Clamp(v, 0, Top)
    BY <2>1 DEF RankCandidates
  <2>4. Clamp(v, 0, Top) \in Int
        /\ Clamp(v, 0, Top) = IF v < 0 THEN 0 ELSE IF v > Top THEN Top ELSE v
    BY <2>2, Clamped
  <2> QED BY <2>2, <2>3, <2>4
<1> QED BY <1>1, <1>5, <1>6, <1>7 DEF MotionInv, RankedScores

LEMMA RankFailsKeeps ==
  ASSUME MotionInv, NEW required \in BOOLEAN, RankFails(required)
  PROVE MotionInv'
<1>1. /\ frontier' = frontier /\ order' = order
      /\ stage = "rank" /\ frontier \in Frontiers /\ Lists(order, Size, Ids)
  BY DEF RankFails, MotionInv
<1>2. Size' = Size /\ Ids' = Ids
  BY <1>1 DEF Size, Ids
<1>3. CASE required
  BY <1>1, <1>2, <1>3 DEF RankFails, MotionInv
<1>4. CASE ~required
  <2>1. /\ stage' = "deltas" /\ score' = retrieval'
        /\ retrieval' = [i \in Ids |-> Clamp(frontier[i].base, 0, Top)]
    BY <1>4 DEF RankFails
  <2>2. ASSUME NEW i \in Ids PROVE retrieval'[i] \in 0..Top
    <3>1. PICK v : v = frontier[i].base
      OBVIOUS
    <3>2. v \in Int /\ Top \in Nat
      BY <1>1, <3>1, FrontierType, Budgets
    <3>3. Clamp(v, 0, Top) \in Int
          /\ Clamp(v, 0, Top) = IF v < 0 THEN 0 ELSE IF v > Top THEN Top ELSE v
      BY <3>2, Clamped
    <3> QED BY <2>1, <3>1, <3>2, <3>3
  <2> QED BY <1>1, <1>2, <2>1, <2>2 DEF MotionInv, RankedScores
<1> QED BY <1>3, <1>4

LEMMA DeltasKeep ==
  ASSUME MotionInv, ApplyRankDeltas
  PROVE MotionInv'
<1>1. /\ frontier' = frontier /\ retrieval' = retrieval /\ stage' = "resolution"
      /\ order' = StableSort(order, score', FALSE)
      /\ stage = "deltas" /\ frontier \in Frontiers /\ Lists(order, Size, Ids)
      /\ RankedScores /\ score = retrieval
  BY DEF ApplyRankDeltas, MotionInv
<1>2. Size' = Size /\ Ids' = Ids
  BY <1>1 DEF Size, Ids
<1>3. ASSUME NEW i \in Ids
      PROVE /\ score'[i] \in Int
            /\ score'[i] - retrieval[i] <= MaxRankDelta /\ retrieval[i] - score'[i] <= MaxRankDelta
  <2>1. PICK r, d : r = retrieval[i] /\ d = RankDelta(i)
    OBVIOUS
  <2>2. r \in Int /\ 0 <= r /\ r <= Top /\ Top \in Nat /\ MaxRankDelta \in Nat
    BY <1>1, <2>1, Budgets DEF RankedScores
  <2>3. d \in Int /\ d <= MaxRankDelta /\ -MaxRankDelta <= d
    BY <1>1, <2>1, RankDeltaType
  <2>4. score'[i] = r \/ score'[i] = Clamp(r + d, 0, Top)
    BY <1>1, <2>1 DEF ApplyRankDeltas
  <2>5. PICK v : v = r + d
    OBVIOUS
  <2>6. v \in Int
    BY <2>2, <2>3, <2>5
  <2>7. /\ Clamp(v, 0, Top) \in Int
        /\ Clamp(v, 0, Top) = IF v < 0 THEN 0 ELSE IF v > Top THEN Top ELSE v
    BY <2>2, <2>6, Clamped
  <2>8. PICK c : c = Clamp(v, 0, Top)
    OBVIOUS
  <2>9. c \in Int /\ c - r <= MaxRankDelta /\ r - c <= MaxRankDelta
    BY <2>2, <2>3, <2>5, <2>7, <2>8
  <2> QED BY <2>1, <2>2, <2>4, <2>5, <2>8, <2>9
<1>4. Lists(order, Size, Ids)' /\ Falling'
  BY <1>1, <1>3, Resorted
<1>5. Near(MaxRankDelta)'
  BY <1>1, <1>2, <1>3 DEF Near
<1> QED BY <1>1, <1>2, <1>4, <1>5 DEF MotionInv, RankedScores

LEMMA ResolutionKeeps ==
  ASSUME MotionInv, ApplyResolutionPreference
  PROVE MotionInv'
<1>1. /\ frontier' = frontier /\ retrieval' = retrieval /\ resolution' = resolution
      /\ stage' = "limit" /\ stage = "resolution"
      /\ frontier \in Frontiers /\ Lists(order, Size, Ids)
      /\ RankedScores /\ Near(MaxRankDelta) /\ Falling
  BY DEF ApplyResolutionPreference, MotionInv
<1>2. Size' = Size /\ Ids' = Ids /\ Bound' = Bound
  BY <1>1 DEF Size, Ids, Bound
<1>3. CASE resolution = "auto"
  <2>1. score' = score /\ order' = order
    BY <1>3 DEF ApplyResolutionPreference
  <2>2. Bound = MaxRankDelta
    BY <1>3, Budgets DEF Bound
  <2>3. Near(Bound)'
    BY <1>1, <1>2, <2>1, <2>2 DEF Near
  <2>4. Falling'
    BY <1>1, <1>2, <2>1 DEF Falling
  <2> QED BY <1>1, <1>2, <2>1, <2>3, <2>4 DEF MotionInv, RankedScores
<1>4. CASE resolution # "auto"
  <2>1. order' = StableSort(order, score', TRUE)
    BY <1>4 DEF ApplyResolutionPreference
  <2>2. Bound = MaxRankDelta + Preference
    BY <1>4 DEF Bound
  <2>3. ASSUME NEW i \in Ids
        PROVE /\ score'[i] \in Int
              /\ score'[i] - retrieval[i] <= Bound /\ retrieval[i] - score'[i] <= Bound
    <3>1. PICK r, s, d, v : /\ r = retrieval[i] /\ s = score[i] /\ d = Adjustment(i)
                            /\ v = score[i] + Adjustment(i)
      OBVIOUS
    <3>2. /\ r \in Int /\ 0 <= r /\ r <= Top /\ Top \in Nat
          /\ MaxRankDelta \in Nat /\ Preference \in Nat
          /\ s \in Int /\ s - r <= MaxRankDelta /\ r - s <= MaxRankDelta
      BY <1>1, <3>1, Budgets DEF RankedScores, Near
    <3>3. d \in Int /\ d <= Preference /\ -Preference <= d
      BY <1>1, <3>1, AdjustmentType
    <3>4. v \in Int /\ v = s + d
      BY <3>1, <3>2, <3>3
    <3>5. /\ Clamp(v, 0, Top) \in Int
          /\ Clamp(v, 0, Top) = IF v < 0 THEN 0 ELSE IF v > Top THEN Top ELSE v
      <4>1. v \in Int /\ 0 <= Top /\ Top \in Int
        BY <3>4, Budgets
      <4> QED BY <4>1, Clamped
    <3>6. PICK c : c = Clamp(v, 0, Top)
      OBVIOUS
    <3>7. c \in Int /\ c - r <= MaxRankDelta + Preference /\ r - c <= MaxRankDelta + Preference
      BY <3>2, <3>3, <3>4, <3>5, <3>6
    <3>8. score'[i] = c
      BY <1>4, <3>1, <3>6 DEF ApplyResolutionPreference
    <3> QED BY <2>2, <3>1, <3>7, <3>8
  <2>4. Lists(order, Size, Ids)' /\ Falling'
    BY <1>1, <2>1, <2>3, Resorted
  <2>5. Near(Bound)'
    BY <1>1, <1>2, <2>3 DEF Near
  <2> QED BY <1>1, <1>2, <2>4, <2>5 DEF MotionInv, RankedScores
<1> QED BY <1>3, <1>4

LEMMA MotionInvNext ==
  ASSUME MotionInv, [OrderNext]_orderVars
  PROVE MotionInv'
<1>1. ASSUME frontier' = frontier, order' = order, stage' \in {"correct", stage},
             score' = score, retrieval' = retrieval, resolution' = resolution,
             stage' # stage => stage = "decide"
      PROVE MotionInv'
  <2>1. Size' = Size /\ Ids' = Ids /\ Bound' = Bound
    BY <1>1 DEF Size, Ids, Bound
  <2>2. /\ RankedScores' = RankedScores /\ Falling' = Falling
        /\ Lists(order', Size', Ids') = Lists(order, Size, Ids)
    BY <1>1, <2>1 DEF RankedScores, Falling
  <2>3. Near(MaxRankDelta)' = Near(MaxRankDelta) /\ Near(Bound)' = Near(Bound)
    BY <1>1, <2>1 DEF Near
  <2> QED BY <1>1, <2>1, <2>2, <2>3 DEF MotionInv
<1>2. CASE DecideFrontier
  BY <1>1, <1>2 DEF DecideFrontier
<1>3. CASE Correct
  <2>1. /\ frontier' = frontier /\ stage' = "rank" /\ frontier \in Frontiers
        /\ Lists(order, Size, Ids) /\ order' = StableSort(order, score', TRUE)
        /\ \A i \in Ids : score'[i] = Corrected(i)
    BY <1>3 DEF Correct, MotionInv
  <2>2. \A i \in Ids : score'[i] \in Int
    BY <2>1, CorrectedType
  <2>3. Lists(order, Size, Ids)'
    BY <2>1, <2>2, Resorted
  <2> QED BY <2>1, <2>3 DEF MotionInv
<1>4. ASSUME NEW a \in Answers(frontier), RankCandidates(a.ranked, a.scores) PROVE MotionInv'
  BY <1>4, RankedKeeps
<1>5. ASSUME NEW required \in BOOLEAN, RankFails(required) PROVE MotionInv'
  BY <1>5, RankFailsKeeps
<1>6. CASE ApplyRankDeltas
  BY <1>6, DeltasKeep
<1>7. CASE ApplyResolutionPreference
  BY <1>7, ResolutionKeeps
<1>8. ASSUME NEW expanded \in BOOLEAN, NEW diverse \in BOOLEAN, SetLimit(expanded, diverse)
      PROVE MotionInv'
  BY <1>8 DEF SetLimit, MotionInv
<1>9. CASE Pack
  BY <1>9 DEF Pack, MotionInv
<1>10. CASE UNCHANGED orderVars
  BY <1>1, <1>10 DEF orderVars
<1> QED BY <1>2, <1>3, <1>4, <1>5, <1>6, <1>7, <1>8, <1>9, <1>10 DEF OrderNext

\* For any frontier and any answer of the retrieval contract, every stage of
\* recallOnce keeps MotionInv.
THEOREM MotionInvariant == OrderSpec => []MotionInv
<1>1. OrderInit => MotionInv
  BY MotionInvInit
<1>2. MotionInv /\ [OrderNext]_orderVars => MotionInv'
  BY MotionInvNext
<1> QED BY <1>1, <1>2, PTL DEF OrderSpec

\* For any frontier, contract answer and policy, the ranked order still lists the
\* whole frontier, and nothing was lifted over a candidate further ahead than
\* the bounds of the deltas and of the resolution preference allow.
THEOREM MotionIsBounded == OrderSpec => []MotionBounded
<1>1. MotionInv => MotionBounded
  <2>1. SUFFICES ASSUME MotionInv, stage = "limit"
                 PROVE /\ Range(order) = Ids /\ Len(order) = Cardinality(Ids)
                       /\ \A k, l \in DOMAIN order : k < l =>
                            retrieval[order[l]] - retrieval[order[k]] <= 2 * Bound
    BY DEF MotionBounded, Bound
  <2>2. Lists(order, Size, Ids) /\ RankedScores /\ Near(Bound) /\ Falling /\ frontier \in Frontiers
    BY <2>1 DEF MotionInv
  <2>3. Size \in Nat /\ Cardinality(Ids) = Size
    BY <2>2, FrontierType
  <2>4. order \in [1..Size -> Ids] /\ DOMAIN order = 1..Size
    BY <2>2 DEF Lists
  <2>5. Len(order) = Size
    <3>1. order \in Seq(Ids)
      BY <2>3, <2>4
    <3> QED BY <2>3, <2>4, <3>1
  <2>6. Range(order) = Ids
    BY <2>2, <2>4 DEF Lists, Range
  <2>7. ASSUME NEW k \in 1..Size, NEW l \in 1..Size, k < l
        PROVE retrieval[order[l]] - retrieval[order[k]] <= 2 * Bound
    <3>1. PICK i, j : i = order[k] /\ j = order[l]
      OBVIOUS
    <3>2. i \in Ids /\ j \in Ids
      BY <2>4, <3>1
    <3>3. PICK si, sj, ri, rj, b : /\ si = score[i] /\ sj = score[j] /\ ri = retrieval[i]
                                   /\ rj = retrieval[j] /\ b = Bound
      OBVIOUS
    <3>4. /\ si \in Int /\ sj \in Int /\ ri \in Int /\ rj \in Int /\ b \in Int
          /\ si - ri <= b /\ ri - si <= b /\ sj - rj <= b /\ rj - sj <= b
      BY <2>2, <3>2, <3>3, Budgets DEF Near, RankedScores, Bound
    <3>5. sj <= si
      BY <2>2, <2>7, <3>1, <3>3 DEF Falling
    <3>6. rj - ri <= 2 * b
      BY <3>4, <3>5
    <3> QED BY <3>1, <3>3, <3>6
  <2> QED BY <2>3, <2>4, <2>5, <2>6, <2>7
<1> QED BY <1>1, MotionInvariant, PTL

(***************************************************************************)
(* The packet.                                                             *)
(***************************************************************************)

LEMMA SumsAgree ==
  ASSUME NEW n \in Nat, NEW f, NEW g, \A i \in 1..n : f[i] = g[i]
  PROVE SumUpTo(f, n) = SumUpTo(g, n)
<1> DEFINE S == {k \in Nat : SumUpTo(f, k) = SumUpTo(g, k)}
<1>1. 0 \in S
  BY SumEquations
<1>2. ASSUME NEW k \in 0..n-1, k \in S PROVE k + 1 \in S
  <2>1. SumUpTo(f, k + 1) = SumUpTo(f, k) + f[k + 1]
    BY SumEquations
  <2>2. SumUpTo(g, k + 1) = SumUpTo(g, k) + g[k + 1]
    BY SumEquations
  <2>3. f[k + 1] = g[k + 1]
    OBVIOUS
  <2> QED BY <2>1, <2>2, <2>3, <1>2
<1>3. 0..n \subseteq S
  <2> HIDE DEF S
  <2> QED BY <1>1, <1>2, Climb
<1> QED BY <1>3

LEMMA TokensOf ==
  ASSUME frontier \in Frontiers, NEW s \in Seq(Ids)
  PROVE /\ Tokens(s) \in Int
        /\ \A i \in Ids : Tokens(Append(s, i)) = Tokens(s) + frontier[i].tokens
<1>1. Len(s) \in Nat /\ DOMAIN s = 1..Len(s) /\ \A k \in 1..Len(s) : s[k] \in Ids
  OBVIOUS
<1>2. \A i \in Ids : frontier[i].tokens \in Int
  BY FrontierType
<1> DEFINE f == [k \in DOMAIN s |-> frontier[s[k]].tokens]
<1>3. \A k \in 1..Len(s) : f[k] \in Int
  BY <1>1, <1>2
<1>4. Tokens(s) = SumUpTo(f, Len(s))
  BY DEF Tokens
<1>5. Tokens(s) \in Int
  <2> HIDE DEF f
  <2> QED BY <1>1, <1>3, <1>4, SumType
<1>6. ASSUME NEW i \in Ids PROVE Tokens(Append(s, i)) = Tokens(s) + frontier[i].tokens
  <2> DEFINE t == Append(s, i)
             g == [k \in DOMAIN t |-> frontier[t[k]].tokens]
  <2>1. Len(t) = Len(s) + 1 /\ DOMAIN t = 1..Len(s) + 1 /\ t[Len(s) + 1] = i
        /\ \A k \in 1..Len(s) : t[k] = s[k]
    BY <1>1
  <2>2. Tokens(t) = SumUpTo(g, Len(s) + 1)
    BY <2>1 DEF Tokens
  <2>3. \A k \in 1..Len(s) : g[k] = f[k]
    BY <1>1, <2>1
  <2>4. g[Len(s) + 1] = frontier[i].tokens
    BY <1>1, <2>1
  <2> HIDE DEF t, g, f
  <2>5. SumUpTo(g, Len(s) + 1) = SumUpTo(g, Len(s)) + g[Len(s) + 1]
    BY <1>1, SumEquations
  <2>6. SumUpTo(g, Len(s)) = SumUpTo(f, Len(s))
    BY <1>1, <2>3, SumsAgree
  <2>7. Tokens(t) = Tokens(s) + frontier[i].tokens
    BY <1>4, <2>2, <2>4, <2>5, <2>6
  <2> QED BY <2>7 DEF t
<1> QED BY <1>5, <1>6

Excluded(i) == \/ Len(packed) = limit
               \/ Tokens(packed) + frontier[i].tokens > TokenBudget
               \/ Occupied(i)

\* No two of the packed records speak with one voice.
VoicesApart ==
  \A k, l \in DOMAIN packed : k # l /\ OccupancyLimit = 1 =>
    \/ DistinctCertifiedBuckets(frontier[packed[k]].key, frontier[packed[l]].key)
    \/ ~Correlated(frontier[packed[k]], frontier[packed[l]])

\* What the pass has settled: a candidate it is past is packed or excluded, and
\* stays excluded.
PacketInv ==
  /\ MotionInv
  /\ stage # "pack" => packed = <<>>
  /\ stage = "pack" =>
       /\ limit \in Nat
       /\ order \in Seq(Ids) /\ packed \in Seq(Ids)
       /\ Len(packed) <= limit /\ Tokens(packed) <= TokenBudget
       /\ VoicesApart
       /\ Size <= RecallK =>
            \A i \in Ids : \/ \E k \in DOMAIN order : order[k] = i
                           \/ \E k \in DOMAIN packed : packed[k] = i
                           \/ Excluded(i)

LEMMA MinOfThree ==
  ASSUME NEW a \in Nat, NEW b \in Nat, NEW c \in Nat
  PROVE Min({a, b, c}) \in Nat
<1>1. \E x \in {a, b, c} : \A y \in {a, b, c} : x <= y
  OBVIOUS
<1>2. Min({a, b, c}) = CHOOSE x \in {a, b, c} : \A y \in {a, b, c} : x <= y
  BY DEF Min
<1>3. Min({a, b, c}) \in {a, b, c}
  BY <1>1, <1>2
<1> QED BY <1>3

\* The recalled candidates are all of a frontier that is no larger than RecallK.
LEMMA RecalledLists ==
  ASSUME frontier \in Frontiers, Lists(order, Size, Ids)
  PROVE \E m \in Nat, S \in SUBSET Ids : /\ Len(Recalled) = m /\ Lists(Recalled, m, S)
                                         /\ Size <= RecallK => S = Ids
<1>1. Size \in Nat /\ RecallK \in Nat
  BY FrontierType, Budgets
<1>2. order \in [1..Size -> Ids] /\ order \in Seq(Ids) /\ Len(order) = Size
  <2>1. order \in [1..Size -> Ids]
    BY DEF Lists
  <2>2. order \in Seq(Ids)
    BY <1>1, <2>1
  <2> QED BY <1>1, <2>1, <2>2
<1>3. PICK m : m = Min({RecallK, Size})
  OBVIOUS
<1>4. m \in Nat /\ m <= Size /\ (Size <= RecallK => m = Size)
  BY <1>1, <1>3, MinOfTwo
<1>5. Recalled = SubSeq(order, 1, m)
  BY <1>2, <1>3 DEF Recalled
<1>6. PICK s : s = Recalled
  OBVIOUS
<1>7. s \in Seq(Ids) /\ Len(s) = m /\ DOMAIN s = 1..m /\ \A k \in 1..m : s[k] = order[k]
  BY <1>1, <1>2, <1>4, <1>5, <1>6
<1>8. PICK S : S = {order[k] : k \in 1..m}
  OBVIOUS
<1>9. S \in SUBSET Ids
  BY <1>1, <1>2, <1>4, <1>8
<1>10. s \in [1..m -> S]
  BY <1>7, <1>8
<1>11. Lists(s, m, S)
  <2>1. \A x \in S : \E k \in 1..m : s[k] = x
    BY <1>7, <1>8
  <2>2. \A k, l \in 1..m : s[k] = s[l] => k = l
    <3>1. \A k \in 1..m : k \in 1..Size
      BY <1>1, <1>4
    <3> QED BY <1>7, <3>1 DEF Lists
  <2> QED BY <1>10, <2>1, <2>2 DEF Lists
<1>12. ASSUME Size <= RecallK PROVE S = Ids
  <2>1. m = Size
    BY <1>4, <1>12
  <2>2. \A x \in Ids : \E k \in 1..Size : order[k] = x
    BY DEF Lists
  <2> QED BY <1>8, <1>9, <2>1, <2>2
<1> QED BY <1>4, <1>6, <1>7, <1>9, <1>11, <1>12

\* The packed records that speak with the voice of candidate i.
Voices(i, s) == {k \in DOMAIN s :
                   /\ ~DistinctCertifiedBuckets(frontier[i].key, frontier[s[k]].key)
                   /\ Correlated(frontier[i], frontier[s[k]])}

LEMMA VoicesGrow ==
  ASSUME NEW s \in Seq(Ids), NEW i, NEW j \in Ids
  PROVE /\ Cardinality(Voices(i, s)) \in Nat /\ Cardinality(Voices(i, Append(s, j))) \in Nat
        /\ Cardinality(Voices(i, s)) <= Cardinality(Voices(i, Append(s, j)))
        /\ Cardinality(Voices(i, s)) < 1 => Voices(i, s) = {}
<1>1. PICK n, t : n = Len(s) /\ t = Append(s, j)
  OBVIOUS
<1>2. n \in Nat /\ DOMAIN s = 1..n /\ DOMAIN t = 1..n+1 /\ \A k \in 1..n : t[k] = s[k]
  BY <1>1
<1>3. Voices(i, s) \in SUBSET (1..n) /\ Voices(i, t) \in SUBSET (1..n+1)
  BY <1>2 DEF Voices
<1>4. Voices(i, s) \subseteq Voices(i, t)
  BY <1>2 DEF Voices
<1>5. PICK A, B, m : A = Voices(i, s) /\ B = Voices(i, t) /\ m = n + 1
  OBVIOUS
<1>6. n \in Nat /\ m \in Nat /\ A \in SUBSET (1..n) /\ B \in SUBSET (1..m) /\ A \subseteq B
  BY <1>2, <1>3, <1>4, <1>5
<1>7. IsFiniteSet(A) /\ Cardinality(A) \in Nat
  BY <1>6, SubsetOfInterval
<1>8. IsFiniteSet(B) /\ Cardinality(B) \in Nat
  BY <1>6, SubsetOfInterval
<1>9. Cardinality(A) <= Cardinality(B)
  BY <1>6, <1>8, FS_Subset
<1>10. Cardinality(A) < 1 => A = {}
  <2>1. Cardinality(A) < 1 => Cardinality(A) = 0
    BY <1>7
  <2> QED BY <1>7, <2>1, FS_EmptySet
<1> QED BY <1>1, <1>5, <1>7, <1>8, <1>9, <1>10

LEMMA VoicesCounted ==
  ASSUME NEW i
  PROVE Occupied(i) <=> OccupancyLimit > 0 /\ Cardinality(Voices(i, packed)) >= OccupancyLimit
BY DEF Occupied, CorrelatedPacked, Voices

LEMMA CorrelationIsSymmetric ==
  ASSUME NEW c, NEW d, Correlated(c, d)
  PROVE Correlated(d, c)
<1>1. c.claim \cap d.claim = d.claim \cap c.claim /\ c.claim \cup d.claim = d.claim \cup c.claim
  OBVIOUS
<1> QED BY <1>1, Zenon DEF Correlated

LEMMA PacketInvInit == OrderInit => PacketInv
BY MotionInvInit DEF OrderInit, PacketInv

\* The candidates in the order they are packed in.
LEMMA LimitSet ==
  ASSUME PacketInv, NEW expanded \in BOOLEAN, NEW diverse \in BOOLEAN, SetLimit(expanded, diverse)
  PROVE PacketInv'
<1>1. /\ stage = "limit" /\ stage' = "pack" /\ frontier' = frontier /\ packed' = packed
      /\ packed = <<>> /\ frontier \in Frontiers /\ Lists(order, Size, Ids)
  BY DEF SetLimit, PacketInv, MotionInv
<1>2. MotionInv'
  <2>1. OrderNext
    BY DEF OrderNext
  <2> QED BY <2>1, MotionInvNext DEF PacketInv
<1>3. PICK m \in Nat, S \in SUBSET Ids : /\ Len(Recalled) = m /\ Lists(Recalled, m, S)
                                         /\ Size <= RecallK => S = Ids
  BY <1>1, RecalledLists
<1>4. limit' \in Nat
  <2>1. PackK \in Nat /\ RecallK \in Nat /\ MaxPack \in Nat /\ 2 * PackK \in Nat
    BY Budgets
  <2>2. PICK p : p = 2 * PackK
    OBVIOUS
  <2>3. Min({p, RecallK, MaxPack}) \in Nat
    BY <2>1, <2>2, MinOfThree
  <2>4. PICK b : b = IF expanded THEN Min({p, RecallK, MaxPack}) ELSE PackK
    OBVIOUS
  <2>5. b \in Nat
    BY <2>1, <2>3, <2>4
  <2>6. limit' = Min({m, b})
    BY <1>3, <2>2, <2>4 DEF SetLimit
  <2> QED BY <2>5, <2>6, MinOfTwo
<1>5. Lists(order', m, S)
  <2>1. CASE ~diverse
    BY <1>3, <2>1 DEF SetLimit
  <2>2. CASE diverse
    <3>1. order' = Diversify(Recalled, limit')
      BY <2>2 DEF SetLimit
    <3>2. PICK first, l : l = limit' /\ first = DiverseFirst(Recalled, limit')
      OBVIOUS
    <3>3. order' = PutFirst(Recalled, first, l)
      BY <3>1, <3>2 DEF Diversify
    <3> QED BY <1>3, <1>4, <3>2, <3>3, PutFirstLists
  <2> QED BY <2>1, <2>2
<1>6. order' \in Seq(Ids) /\ DOMAIN order' = 1..m /\ \A x \in S : \E k \in 1..m : order'[k] = x
  <2>1. order' \in [1..m -> S]
    BY <1>5 DEF Lists
  <2>2. order' \in [1..m -> Ids]
    BY <2>1
  <2> QED BY <1>5, <2>1, <2>2 DEF Lists
<1>7. Ids' = Ids /\ Size' = Size
  BY <1>1 DEF Ids, Size
<1>8. Tokens(packed)' = 0
  <2>1. PICK f : f = [k \in DOMAIN packed' |-> frontier'[packed'[k]].tokens]
    OBVIOUS
  <2>2. Tokens(packed)' = SumUpTo(f, 0)
    BY <1>1, <2>1 DEF Tokens
  <2> QED BY <2>2, SumEquations
<1>9. VoicesApart'
  BY <1>1 DEF VoicesApart
<1>10. Len(packed') = 0 /\ packed' \in Seq(Ids)
  BY <1>1
<1>11. TokenBudget \in Nat
  BY Budgets
<1>12. ASSUME Size <= RecallK, NEW i \in Ids PROVE \E k \in DOMAIN order' : order'[k] = i
  BY <1>3, <1>6, <1>12
<1> QED BY <1>1, <1>2, <1>4, <1>6, <1>7, <1>8, <1>9, <1>10, <1>11, <1>12 DEF PacketInv

\* What is excluded stays excluded when another candidate is packed.
LEMMA ExclusionStays ==
  ASSUME frontier \in Frontiers, frontier' = frontier, limit' = limit, limit \in Nat,
         packed \in Seq(Ids), Len(packed) < limit, NEW i \in Ids, packed' = Append(packed, i),
         NEW j \in Ids, Excluded(j)
  PROVE Excluded(j)'
<1>1. CASE Tokens(packed) + frontier[j].tokens > TokenBudget
  <2>1. Tokens(packed)' = Tokens(packed) + frontier[i].tokens /\ Tokens(packed) \in Int
    <3>1. PICK s, t : s = packed /\ t = Append(s, i)
      OBVIOUS
    <3>2. Tokens(packed)' = Tokens(t)
      BY <3>1 DEF Tokens
    <3>3. Tokens(s) \in Int /\ Tokens(Append(s, i)) = Tokens(s) + frontier[i].tokens
      BY <3>1, TokensOf
    <3> QED BY <3>1, <3>2, <3>3
  <2>2. PICK a, b, c : a = Tokens(packed) /\ b = frontier[i].tokens /\ c = frontier[j].tokens
    OBVIOUS
  <2>3. a \in Int /\ b \in Nat /\ c \in Nat /\ TokenBudget \in Nat
    BY <2>1, <2>2, FrontierType, Budgets
  <2>4. (a + b) + c > TokenBudget
    <3>1. a + c > TokenBudget
      BY <1>1, <2>2
    <3> QED BY <2>3, <3>1
  <2>5. Tokens(packed)' = a + b /\ frontier'[j].tokens = c
    BY <2>1, <2>2
  <2> QED BY <2>4, <2>5 DEF Excluded
<1>2. CASE Occupied(j)
  <2>1. Voices(j, packed)' = Voices(j, Append(packed, i))
    BY DEF Voices
  <2>2. PICK a, b : a = Cardinality(Voices(j, packed)) /\ b = Cardinality(Voices(j, Append(packed, i)))
    OBVIOUS
  <2>3. a \in Nat /\ b \in Nat /\ a <= b
    BY <2>2, VoicesGrow
  <2>4. OccupancyLimit \in Int /\ OccupancyLimit > 0 /\ a >= OccupancyLimit
    BY <1>2, <2>2, VoicesCounted, Budgets
  <2>5. OccupancyLimit > 0 /\ b >= OccupancyLimit
    BY <2>3, <2>4
  <2>6. Occupied(j)' <=> OccupancyLimit > 0 /\ Cardinality(Voices(j, packed)') >= OccupancyLimit
    BY DEF Occupied, CorrelatedPacked, Voices
  <2>7. Occupied(j)'
    BY <2>1, <2>2, <2>5, <2>6
  <2> QED BY <2>7 DEF Excluded
<1>3. Len(packed) # limit
  <2>1. Len(packed) \in Nat
    OBVIOUS
  <2> QED BY <2>1
<1> QED BY <1>1, <1>2, <1>3 DEF Excluded

\* A candidate of a new voice keeps the voices apart.
LEMMA VoiceAdded ==
  ASSUME frontier' = frontier, packed \in Seq(Ids), NEW i \in Ids, packed' = Append(packed, i),
         ~Occupied(i), VoicesApart
  PROVE VoicesApart'
<1>1. SUFFICES ASSUME OccupancyLimit = 1, NEW k \in DOMAIN packed', NEW l \in DOMAIN packed', k # l
               PROVE \/ DistinctCertifiedBuckets(frontier[packed'[k]].key, frontier[packed'[l]].key)
                     \/ ~Correlated(frontier[packed'[k]], frontier[packed'[l]])
  BY DEF VoicesApart
<1>2. PICK n : n = Len(packed)
  OBVIOUS
<1>3. /\ n \in Nat /\ DOMAIN packed = 1..n /\ DOMAIN packed' = 1..n+1
      /\ packed'[n+1] = i /\ \A m \in 1..n : packed'[m] = packed[m]
  BY <1>2
<1>4. Voices(i, packed) = {}
  <2>1. PICK a : a = Cardinality(Voices(i, packed))
    OBVIOUS
  <2>2. a \in Nat /\ (a < 1 => Voices(i, packed) = {})
    BY <2>1, VoicesGrow
  <2>3. ~(OccupancyLimit > 0 /\ a >= OccupancyLimit)
    BY <2>1, VoicesCounted
  <2>4. a < 1
    BY <1>1, <2>2, <2>3
  <2> QED BY <2>2, <2>4
<1>5. \A m \in 1..n : \/ DistinctCertifiedBuckets(frontier[i].key, frontier[packed[m]].key)
                      \/ ~Correlated(frontier[i], frontier[packed[m]])
  BY <1>3, <1>4 DEF Voices
<1>6. CASE k \in 1..n /\ l \in 1..n
  BY <1>1, <1>3, <1>6 DEF VoicesApart
<1>7. CASE k = n + 1
  <2>1. l \in 1..n
    BY <1>1, <1>3, <1>7
  <2> QED BY <1>3, <1>5, <1>7, <2>1
<1>8. CASE l = n + 1
  <2>1. k \in 1..n
    BY <1>1, <1>3, <1>8
  <2>2. \/ DistinctCertifiedBuckets(frontier[i].key, frontier[packed[k]].key)
        \/ ~Correlated(frontier[i], frontier[packed[k]])
    BY <1>5, <2>1
  <2>3. PICK c, d : c = frontier[i] /\ d = frontier[packed[k]]
    OBVIOUS
  <2>4. DistinctCertifiedBuckets(d.key, c.key) \/ ~Correlated(d, c)
    BY <2>2, <2>3, CorrelationIsSymmetric DEF DistinctCertifiedBuckets
  <2> QED BY <1>3, <1>8, <2>1, <2>3, <2>4
<1>9. k \in 1..n \/ k = n + 1
  BY <1>3
<1>10. l \in 1..n \/ l = n + 1
  BY <1>3
<1> QED BY <1>6, <1>7, <1>8, <1>9, <1>10

LEMMA PackKeeps ==
  ASSUME PacketInv, Pack
  PROVE PacketInv'
<1>1. /\ stage = "pack" /\ stage' = "pack" /\ frontier' = frontier /\ limit' = limit
      /\ order # <<>> /\ order' = Tail(order) /\ frontier \in Frontiers
  BY DEF Pack, PacketInv, MotionInv
<1>2. MotionInv'
  <2>1. OrderNext
    BY DEF OrderNext
  <2> QED BY <2>1, MotionInvNext DEF PacketInv
<1>3. /\ limit \in Nat /\ order \in Seq(Ids) /\ packed \in Seq(Ids)
      /\ Len(packed) <= limit /\ Tokens(packed) <= TokenBudget /\ VoicesApart
      /\ Size <= RecallK => \A i \in Ids : \/ \E k \in DOMAIN order : order[k] = i
                                           \/ \E k \in DOMAIN packed : packed[k] = i
                                           \/ Excluded(i)
  BY <1>1 DEF PacketInv
<1>4. Ids' = Ids /\ Size' = Size
  BY <1>1 DEF Ids, Size
<1>5. PICK i : i = Head(order)
  OBVIOUS
<1>6. /\ i \in Ids /\ order' \in Seq(Ids) /\ Len(packed) \in Nat
      /\ \A k \in DOMAIN order : order[k] = i \/ \E l \in DOMAIN order' : order'[l] = order[k]
  <2>1. PICK n : n = Len(order)
    OBVIOUS
  <2>2. /\ n \in Nat /\ n # 0 /\ i = order[1] /\ DOMAIN order = 1..n
        /\ DOMAIN order' = 1..n-1 /\ \A l \in 1..n-1 : order'[l] = order[l + 1]
    BY <1>1, <1>3, <1>5, <2>1
  <2>3. ASSUME NEW k \in 1..n, k # 1 PROVE \E l \in 1..n-1 : order'[l] = order[k]
    <3>1. k - 1 \in 1..n-1 /\ (k - 1) + 1 = k
      BY <2>2, <2>3
    <3> QED BY <2>2, <3>1
  <2>4. i \in Ids
    BY <1>3, <2>2
  <2>5. order' \in Seq(Ids)
    BY <1>1, <1>3
  <2>6. Len(packed) \in Nat
    BY <1>3
  <2>7. ASSUME NEW k \in 1..n PROVE order[k] = i \/ \E l \in 1..n-1 : order'[l] = order[k]
    BY <2>2, <2>3
  <2> QED BY <2>2, <2>4, <2>5, <2>6, <2>7
<1> DEFINE fits == /\ Len(packed) < limit
                   /\ Tokens(packed) + frontier[i].tokens <= TokenBudget
                   /\ ~Occupied(i)
<1>7. packed' = IF fits THEN Append(packed, i) ELSE packed
  BY <1>5 DEF Pack
<1>8. CASE fits
  <2>1. packed' = Append(packed, i)
    BY <1>7, <1>8
  <2>2. /\ packed' \in Seq(Ids) /\ Len(packed') = Len(packed) + 1
        /\ \A k \in DOMAIN packed : k \in DOMAIN packed' /\ packed'[k] = packed[k]
        /\ \E k \in DOMAIN packed' : packed'[k] = i
    <3>1. Len(packed) + 1 \in DOMAIN packed' /\ packed'[Len(packed) + 1] = i
      BY <1>3, <1>6, <2>1
    <3> QED BY <1>3, <1>4, <1>6, <2>1, <3>1
  <2>3. Len(packed') <= limit
    BY <1>3, <1>6, <1>8, <2>2
  <2>4. Tokens(packed)' <= TokenBudget
    <3>1. PICK s, t : s = packed /\ t = Append(s, i)
      OBVIOUS
    <3>2. Tokens(packed)' = Tokens(t)
      BY <1>1, <2>1, <3>1 DEF Tokens
    <3>3. Tokens(Append(s, i)) = Tokens(s) + frontier[i].tokens
      BY <1>1, <1>3, <1>6, <3>1, TokensOf
    <3> QED BY <1>8, <3>1, <3>2, <3>3
  <2>5. VoicesApart'
    BY <1>1, <1>3, <1>6, <1>8, <2>1, VoiceAdded
  <2>6. \A j \in Ids : Excluded(j) => Excluded(j)'
    BY <1>1, <1>3, <1>6, <1>8, <2>1, ExclusionStays
  <2>7. ASSUME Size <= RecallK, NEW j \in Ids
        PROVE \/ \E k \in DOMAIN order' : order'[k] = j
              \/ \E k \in DOMAIN packed' : packed'[k] = j
              \/ Excluded(j)'
    <3>1. CASE \E k \in DOMAIN order : order[k] = j
      BY <1>6, <2>2, <3>1
    <3>2. CASE \E k \in DOMAIN packed : packed[k] = j
      BY <2>2, <3>2
    <3>3. CASE Excluded(j)
      BY <2>6, <3>3
    <3> QED BY <1>3, <2>7, <3>1, <3>2, <3>3
  <2> HIDE DEF fits
  <2> QED BY <1>1, <1>2, <1>3, <1>4, <1>6, <2>2, <2>3, <2>4, <2>5, <2>7 DEF PacketInv
<1>9. CASE ~fits
  <2>1. packed' = packed
    BY <1>7, <1>9
  <2>2. Tokens(packed)' = Tokens(packed)
    BY <1>1, <2>1 DEF Tokens
  <2>3. VoicesApart'
    BY <1>1, <1>3, <2>1 DEF VoicesApart
  <2>4. ASSUME NEW j PROVE Excluded(j)' <=> Excluded(j)
    <3>1. Occupied(j)' <=> Occupied(j)
      BY <1>1, <2>1 DEF Occupied, CorrelatedPacked
    <3> QED BY <1>1, <2>1, <2>2, <3>1 DEF Excluded
  <2>5. Excluded(i)
    <3>1. PICK a, b, n : a = Tokens(packed) /\ b = frontier[i].tokens /\ n = Len(packed)
      OBVIOUS
    <3>2. a \in Int /\ b \in Nat /\ TokenBudget \in Nat /\ n \in Nat
      <4>1. PICK s : s = packed
        OBVIOUS
      <4>2. Tokens(s) \in Int
        BY <1>1, <1>3, <4>1, TokensOf
      <4> QED BY <1>1, <1>6, <3>1, <4>1, <4>2, FrontierType, Budgets
    <3>3. ~(n < limit) \/ ~(a + b <= TokenBudget) \/ Occupied(i)
      BY <1>9, <3>1
    <3>4. n = limit \/ a + b > TokenBudget \/ Occupied(i)
      <4>1. n <= limit /\ limit \in Nat
        BY <1>3, <3>1
      <4>2. n < limit \/ n = limit
        BY <3>2, <4>1
      <4>3. a + b <= TokenBudget \/ a + b > TokenBudget
        BY <3>2
      <4> QED BY <3>3, <4>2, <4>3
    <3> QED BY <3>1, <3>4 DEF Excluded
  <2>6. ASSUME Size <= RecallK, NEW j \in Ids
        PROVE \/ \E k \in DOMAIN order' : order'[k] = j
              \/ \E k \in DOMAIN packed' : packed'[k] = j
              \/ Excluded(j)'
    BY <1>3, <1>6, <2>1, <2>4, <2>5, <2>6
  <2> HIDE DEF fits
  <2> QED BY <1>1, <1>2, <1>3, <1>4, <1>6, <2>1, <2>2, <2>3, <2>6 DEF PacketInv
<1> QED BY <1>8, <1>9

LEMMA PacketInvNext ==
  ASSUME PacketInv, [OrderNext]_orderVars
  PROVE PacketInv'
<1>1. MotionInv'
  BY MotionInvNext DEF PacketInv
<1>2. ASSUME stage # "pack", stage' # "pack", packed' = packed PROVE PacketInv'
  BY <1>1, <1>2 DEF PacketInv
<1>3. CASE DecideFrontier
  BY <1>2, <1>3 DEF DecideFrontier
<1>4. CASE Correct
  BY <1>2, <1>4 DEF Correct
<1>5. CASE \E a \in Answers(frontier) : RankCandidates(a.ranked, a.scores)
  BY <1>2, <1>5 DEF RankCandidates
<1>6. CASE \E required \in BOOLEAN : RankFails(required)
  BY <1>2, <1>6 DEF RankFails
<1>7. CASE ApplyRankDeltas
  BY <1>2, <1>7 DEF ApplyRankDeltas
<1>8. CASE ApplyResolutionPreference
  BY <1>2, <1>8 DEF ApplyResolutionPreference
<1>9. CASE \E expanded, diverse \in BOOLEAN : SetLimit(expanded, diverse)
  BY <1>9, LimitSet
<1>10. CASE Pack
  BY <1>10, PackKeeps
<1>11. CASE UNCHANGED orderVars
  <2>1. /\ frontier' = frontier /\ stage' = stage /\ order' = order /\ limit' = limit
        /\ packed' = packed
    BY <1>11 DEF orderVars
  <2>2. Ids' = Ids /\ Size' = Size /\ Tokens(packed)' = Tokens(packed)
    BY <2>1 DEF Ids, Size, Tokens
  <2>3. VoicesApart' <=> VoicesApart
    BY <2>1 DEF VoicesApart
  <2>4. ASSUME NEW i PROVE Excluded(i)' <=> Excluded(i)
    <3>1. Occupied(i)' <=> Occupied(i)
      BY <2>1 DEF Occupied, CorrelatedPacked
    <3> QED BY <2>1, <2>2, <3>1 DEF Excluded
  <2> QED BY <1>1, <2>1, <2>2, <2>3, <2>4 DEF PacketInv
<1> QED BY <1>3, <1>4, <1>5, <1>6, <1>7, <1>8, <1>9, <1>10, <1>11 DEF OrderNext

\* For any frontier, budgets and policy, the finished packet is within its
\* budgets, its records speak with voices of their own, and it has no room for
\* a recalled candidate it left out.
THEOREM PacketIsMaximal == OrderSpec => []PacketMaximal
<1>1. OrderInit => PacketInv
  BY PacketInvInit
<1>2. PacketInv /\ [OrderNext]_orderVars => PacketInv'
  BY PacketInvNext
<1>3. PacketInv => PacketMaximal
  <2>1. SUFFICES ASSUME PacketInv, stage = "pack", order = <<>> PROVE PacketMaximal
    BY DEF PacketMaximal
  <2>2. /\ Len(packed) <= limit /\ Tokens(packed) <= TokenBudget /\ VoicesApart
        /\ Size <= RecallK => \A i \in Ids : \/ \E k \in DOMAIN packed : packed[k] = i
                                             \/ Excluded(i)
    BY <2>1 DEF PacketInv
  <2>3. Cardinality(Ids) = Size
    BY <2>1, FrontierType DEF PacketInv, MotionInv
  <2>4. ASSUME Size <= RecallK, NEW i \in Ids \ Range(packed) PROVE Excluded(i)
    BY <2>2, <2>4 DEF Range
  <2> QED BY <2>2, <2>3, <2>4 DEF PacketMaximal, VoicesApart, Excluded
<1> QED BY <1>1, <1>2, <1>3, PTL DEF OrderSpec

(***************************************************************************)
(* The burden of a graph.                                                  *)
(***************************************************************************)

LEMMA SetListed ==
  ASSUME NEW S, IsFiniteSet(S)
  PROVE /\ SetToSeq(S) \in Seq(S)
        /\ \A x \in S : \E k \in DOMAIN SetToSeq(S) : SetToSeq(S)[k] = x
<1>1. PICK n : n = Cardinality(S)
  OBVIOUS
<1>2. n \in Nat
  BY <1>1, FS_CardinalityType
<1>3. IsFiniteSet(1..n) /\ Cardinality(1..n) = n
  BY <1>2, FS_Interval
<1>4. \E f \in [1..n -> S] : IsInjective(f)
  <2>1. ExistsBijection(1..n, S)
    BY <1>1, FS_CardinalityType
  <2>2. PICK f : f \in Bijection(1..n, S)
    BY <2>1 DEF ExistsBijection
  <2>3. f \in [1..n -> S] /\ IsInjective(f)
    BY <2>2 DEF Bijection, Injection, IsInjective
  <2> QED BY <2>3
<1>5. PICK q : q = SetToSeq(S)
  OBVIOUS
<1>6. q = CHOOSE f \in [1..n -> S] : IsInjective(f)
  BY <1>1, <1>5 DEF SetToSeq
<1>7. q \in [1..n -> S] /\ IsInjective(q)
  BY <1>4, <1>6
<1>8. q \in Injection(1..n, S)
  BY <1>7 DEF Injection, IsInjective
<1>9. q \in Surjection(1..n, S)
  BY <1>1, <1>3, <1>8, FS_Injection
<1>10. \A x \in S : \E k \in 1..n : q[k] = x
  BY <1>9 DEF Surjection
<1>11. q \in Seq(S) /\ DOMAIN q = 1..n
  BY <1>2, <1>7
<1> QED BY <1>5, <1>10, <1>11

\* The neighbours of a node in a valid graph.
LEMMA NeighboursAre ==
  ASSUME NEW g \in Candidates, ValidateCandidate(g), NEW S
  PROVE /\ Neighbours(Adjacency(g), S) \subseteq DOMAIN g.nodes
        /\ IsFiniteSet(Neighbours(Adjacency(g), S))
        /\ \A y : y \in Neighbours(Adjacency(g), S) <=> \E x \in S : <<x, y>> \in Adjacency(g)
<1>1. PICK E, A, N : E = DOMAIN g.edges /\ A = Adjacency(g) /\ N = Neighbours(Adjacency(g), S)
  OBVIOUS
<1>2. IsFiniteSet(E)
  <2>1. E \subseteq EdgeIds /\ IsFiniteSet(EdgeIds)
    BY <1>1, SnapRequestsTyped
  <2> QED BY <2>1, FS_Subset
<1>3. \A i \in E : g.edges[i].from \in DOMAIN g.nodes /\ g.edges[i].to \in DOMAIN g.nodes
  BY <1>1 DEF ValidateCandidate
<1>4. \A x, y : <<x, y>> \in A <=> \E i \in E : \/ x = g.edges[i].from /\ y = g.edges[i].to
                                                \/ x = g.edges[i].to /\ y = g.edges[i].from
  BY <1>1 DEF Adjacency
<1>5. \A p \in A : \E x, y : p = <<x, y>>
  BY <1>1 DEF Adjacency
<1>6. N = {p[2] : p \in {q \in A : q[1] \in S}}
  BY <1>1 DEF Neighbours
<1>7. ASSUME NEW y PROVE y \in N <=> \E x \in S : <<x, y>> \in A
  <2>1. ASSUME y \in N PROVE \E x \in S : <<x, y>> \in A
    <3>1. PICK p \in A : p[1] \in S /\ y = p[2]
      BY <1>6, <2>1
    <3>2. PICK a, b : p = <<a, b>>
      BY <1>5, <3>1
    <3> QED BY <3>1, <3>2
  <2>2. ASSUME NEW x \in S, <<x, y>> \in A PROVE y \in N
    <3>1. <<x, y>> \in {q \in A : q[1] \in S}
      BY <2>2
    <3> QED BY <1>6, <3>1
  <2> QED BY <2>1, <2>2
<1>8. \A y \in N : \E i \in E : y = g.edges[i].from \/ y = g.edges[i].to
  BY <1>4, <1>7, ZenonT(30)
<1>9. N \subseteq DOMAIN g.nodes
  BY <1>3, <1>8
<1>10. IsFiniteSet(N)
  <2> DEFINE F == {g.edges[i].from : i \in E}
             T == {g.edges[i].to : i \in E}
             f == [i \in E |-> g.edges[i].from]
             t == [i \in E |-> g.edges[i].to]
  <2>1. f \in Surjection(E, F) /\ t \in Surjection(E, T)
    BY DEF Surjection
  <2>2. N \subseteq F \cup T
    BY <1>8
  <2> HIDE DEF F, T, f, t
  <2>3. IsFiniteSet(F) /\ IsFiniteSet(T)
    BY <1>2, <2>1, FS_Surjection
  <2>4. IsFiniteSet(F \cup T)
    BY <2>3, FS_Union
  <2> QED BY <2>2, <2>4, FS_Subset
<1> QED BY <1>1, <1>7, <1>9, <1>10

\* The breadth-first search from one end of an obligation: what it has seen can
\* be reached, and is closed but for the queue.
Searching(g, o, queue, seen) ==
  /\ seen \subseteq DOMAIN g.nodes /\ o.from \in seen /\ o.to \notin seen
  /\ queue \in Seq(seen) /\ queue # <<>>
  /\ \A x \in seen : \/ \E k \in DOMAIN queue : queue[k] = x
                     \/ Neighbours(Adjacency(g), {x}) \subseteq seen
  /\ \A S \in SUBSET DOMAIN g.nodes :
       o.from \in S /\ Neighbours(Adjacency(g), S) \subseteq S => seen \subseteq S

LEMMA SearchStarts ==
  ASSUME NEW g, NEW o, o.from # o.to, o.from \in DOMAIN g.nodes
  PROVE Searching(g, o, <<o.from>>, {o.from})
<1>1. PICK a : a = o.from
  OBVIOUS
<1>2. <<a>> \in Seq({a}) /\ <<a>> # <<>> /\ 1 \in DOMAIN <<a>> /\ <<a>>[1] = a
  OBVIOUS
<1> QED BY <1>1, <1>2 DEF Searching

\* The node at the head of the queue and what follows it.
LEMMA QueueSplit ==
  ASSUME NEW seen, NEW queue \in Seq(seen), queue # <<>>
  PROVE /\ Head(queue) \in seen /\ Tail(queue) \in Seq(seen)
        /\ \A k \in DOMAIN queue : \/ queue[k] = Head(queue)
                                   \/ \E l \in DOMAIN Tail(queue) : Tail(queue)[l] = queue[k]
<1>1. PICK n, t : n = Len(queue) /\ t = Tail(queue)
  OBVIOUS
<1>2. /\ n \in Nat /\ n # 0 /\ Head(queue) = queue[1] /\ DOMAIN queue = 1..n
      /\ DOMAIN t = 1..n-1 /\ \A l \in 1..n-1 : t[l] = queue[l + 1]
  BY <1>1
<1>3. ASSUME NEW k \in 1..n, k # 1 PROVE \E l \in 1..n-1 : t[l] = queue[k]
  <2>1. k - 1 \in 1..n-1 /\ (k - 1) + 1 = k
    BY <1>2, <1>3
  <2> QED BY <1>2, <2>1
<1>4. Head(queue) \in seen /\ t \in Seq(seen)
  BY <1>1, <1>2
<1> QED BY <1>1, <1>2, <1>3, <1>4

\* The queue after a step holds what was behind the head and what is new.
LEMMA QueueJoined ==
  ASSUME NEW A, NEW B, NEW t \in Seq(A), NEW q \in Seq(B)
  PROVE /\ t \o q \in Seq(A \cup B)
        /\ \A k \in DOMAIN t : \E m \in DOMAIN (t \o q) : (t \o q)[m] = t[k]
        /\ \A k \in DOMAIN q : \E m \in DOMAIN (t \o q) : (t \o q)[m] = q[k]
        /\ t \o q = <<>> => t = <<>> /\ q = <<>>
<1>1. PICK n, l : n = Len(t) /\ l = Len(q)
  OBVIOUS
<1>2. n \in Nat /\ l \in Nat /\ DOMAIN t = 1..n /\ DOMAIN q = 1..l
  BY <1>1
<1>3. t \o q \in Seq(A \cup B)
  OBVIOUS
<1>4. /\ DOMAIN (t \o q) = 1..n+l /\ Len(t \o q) = n + l
      /\ \A k \in 1..n : (t \o q)[k] = t[k]
      /\ \A k \in 1..l : (t \o q)[n + k] = q[k]
  BY <1>1, <1>2
<1>5. \A k \in 1..n : k \in 1..n+l
  BY <1>2
<1>6. \A k \in 1..l : n + k \in 1..n+l
  BY <1>2
<1>7. ASSUME t \o q = <<>> PROVE t = <<>> /\ q = <<>>
  <2>1. n + l = 0
    BY <1>4, <1>7
  <2> QED BY <1>1, <1>2, <2>1
<1> QED BY <1>2, <1>3, <1>4, <1>5, <1>6, <1>7

LEMMA SearchGoesOn ==
  ASSUME NEW g \in Candidates, ValidateCandidate(g), NEW o, NEW queue, NEW seen,
         Searching(g, o, queue, seen),
         NEW next, next = Neighbours(Adjacency(g), {Head(queue)}),
         NEW rest, rest = Tail(queue) \o SetToSeq(next \ seen)
  PROVE /\ o.to \in next => Joined(g, o.from, o.to)
        /\ o.to \notin next /\ rest = <<>> => ~Joined(g, o.from, o.to)
        /\ o.to \notin next /\ rest # <<>> => Searching(g, o, rest, seen \cup next)
<1>1. /\ seen \subseteq DOMAIN g.nodes /\ o.from \in seen /\ o.to \notin seen
      /\ queue \in Seq(seen) /\ queue # <<>>
      /\ \A x \in seen : \/ \E k \in DOMAIN queue : queue[k] = x
                         \/ Neighbours(Adjacency(g), {x}) \subseteq seen
      /\ \A S \in SUBSET DOMAIN g.nodes :
           o.from \in S /\ Neighbours(Adjacency(g), S) \subseteq S => seen \subseteq S
  BY DEF Searching
<1>2. PICK x, t : x = Head(queue) /\ t = Tail(queue)
  OBVIOUS
<1>3. /\ x \in seen /\ t \in Seq(seen)
      /\ \A k \in DOMAIN queue : queue[k] = x \/ \E l \in DOMAIN t : t[l] = queue[k]
  BY <1>1, <1>2, QueueSplit
<1>4. next \subseteq DOMAIN g.nodes /\ IsFiniteSet(next)
  BY NeighboursAre
<1>5. PICK new, q : new = next \ seen /\ q = SetToSeq(new)
  OBVIOUS
<1>6. q \in Seq(new) /\ \A y \in new : \E k \in DOMAIN q : q[k] = y
  <2>1. IsFiniteSet(new)
    BY <1>4, <1>5, FS_Subset
  <2>2. /\ SetToSeq(new) \in Seq(new)
        /\ \A y \in new : \E k \in DOMAIN SetToSeq(new) : SetToSeq(new)[k] = y
    BY <2>1, SetListed
  <2> QED BY <1>5, <2>2
<1>7. rest = t \o q
  BY <1>2, <1>5
<1>8. /\ rest \in Seq(seen \cup new)
      /\ \A k \in DOMAIN t : \E m \in DOMAIN rest : rest[m] = t[k]
      /\ \A k \in DOMAIN q : \E m \in DOMAIN rest : rest[m] = q[k]
      /\ rest = <<>> => t = <<>> /\ q = <<>>
  <2>1. t \in Seq(seen) /\ q \in Seq(new)
    BY <1>3, <1>6
  <2>2. /\ t \o q \in Seq(seen \cup new)
        /\ \A k \in DOMAIN t : \E m \in DOMAIN (t \o q) : (t \o q)[m] = t[k]
        /\ \A k \in DOMAIN q : \E m \in DOMAIN (t \o q) : (t \o q)[m] = q[k]
        /\ t \o q = <<>> => t = <<>> /\ q = <<>>
    BY <2>1, QueueJoined
  <2> QED BY <1>7, <2>2, Zenon
<1>9. seen \cup new = seen \cup next
  BY <1>5
<1>10. ASSUME NEW S \in SUBSET DOMAIN g.nodes, o.from \in S, Neighbours(Adjacency(g), S) \subseteq S
       PROVE seen \cup next \subseteq S
  <2>1. seen \subseteq S
    BY <1>1, <1>10
  <2>2. \A y : y \in next => \E z \in {x} : <<z, y>> \in Adjacency(g)
    <3>1. PICK one : one = {x}
      OBVIOUS
    <3>2. next = Neighbours(Adjacency(g), one)
      BY <1>2, <3>1
    <3>3. \A y : y \in Neighbours(Adjacency(g), one) <=> \E z \in one : <<z, y>> \in Adjacency(g)
      BY NeighboursAre
    <3> QED BY <3>1, <3>2, <3>3, Zenon
  <2>3. \A y : y \in next => y \in Neighbours(Adjacency(g), S)
    BY <1>3, <2>1, <2>2, NeighboursAre
  <2> QED BY <1>10, <2>1, <2>3
<1>11. ASSUME NEW y \in seen \cup next
       PROVE \/ \E k \in DOMAIN rest : rest[k] = y
             \/ Neighbours(Adjacency(g), {y}) \subseteq seen \cup next
  <2>1. CASE y = x
    BY <1>2, <2>1
  <2>2. CASE y \in seen /\ y # x
    <3>1. CASE \E k \in DOMAIN queue : queue[k] = y
      <4>1. PICK k \in DOMAIN queue : queue[k] = y
        BY <3>1
      <4>2. PICK l \in DOMAIN t : t[l] = y
        BY <1>3, <2>2, <4>1, Zenon
      <4>3. \E m \in DOMAIN rest : rest[m] = t[l]
        BY <1>8, <4>2, Zenon
      <4> QED BY <4>2, <4>3, Zenon
    <3>2. CASE Neighbours(Adjacency(g), {y}) \subseteq seen
      BY <3>2, Zenon
    <3> QED BY <1>1, <2>2, <3>1, <3>2, Zenon
  <2>3. CASE y \in new
    <3>1. PICK k \in DOMAIN q : q[k] = y
      BY <1>6, <2>3
    <3>2. \E m \in DOMAIN rest : rest[m] = q[k]
      BY <1>8, <3>1, Zenon
    <3> QED BY <3>1, <3>2, Zenon
  <2> QED BY <1>5, <2>1, <2>2, <2>3
<1>12. ASSUME o.to \in next PROVE Joined(g, o.from, o.to)
  BY <1>1, <1>10, <1>12 DEF Joined
<1>13. ASSUME o.to \notin next, rest = <<>> PROVE ~Joined(g, o.from, o.to)
  <2>1. PICK all : all = seen \cup next
    OBVIOUS
  <2>2. DOMAIN rest = {}
    <3>1. DOMAIN <<>> = {}
      OBVIOUS
    <3> QED BY <1>13, <3>1, Zenon
  <2>3. \A y \in all : Neighbours(Adjacency(g), {y}) \subseteq all
    BY <1>11, <2>1, <2>2
  <2>4. ASSUME NEW z \in Neighbours(Adjacency(g), all) PROVE z \in all
    <3>1. PICK y \in all : <<y, z>> \in Adjacency(g)
      BY NeighboursAre
    <3>2. z \in Neighbours(Adjacency(g), {y})
      BY <3>1, NeighboursAre
    <3> QED BY <2>3, <3>1, <3>2
  <2>5. all \in SUBSET DOMAIN g.nodes /\ o.from \in all /\ o.to \notin all
    BY <1>1, <1>4, <1>13, <2>1
  <2> QED BY <2>4, <2>5 DEF Joined
<1>14. ASSUME o.to \notin next, rest # <<>> PROVE Searching(g, o, rest, seen \cup next)
  BY <1>1, <1>4, <1>8, <1>9, <1>10, <1>11, <1>14 DEF Searching
<1> QED BY <1>12, <1>13, <1>14

IsRequest(r) ==
  r = [phase |-> r.phase, base |-> r.base, version |-> r.version, candidate |-> r.candidate,
       affected |-> r.affected, frontier |-> r.frontier, depth |-> r.depth,
       obligations |-> r.obligations, owed |-> r.owed, queue |-> r.queue, seen |-> r.seen,
       burden |-> r.burden]

\* Of n obligations the owed ones are the last, and the burden is that of the
\* others.
Accounted(g, obligations, owed, burden) ==
  \E done \in 0..Len(obligations) :
    /\ owed \in Seq(Range(obligations)) /\ Len(owed) = Len(obligations) - done
    /\ \A k \in 1..Len(owed) : owed[k] = obligations[done + k]
    /\ burden = SumUpTo(Apart(g, obligations), done)

BurdenInv ==
  request # NoRequest =>
    /\ IsRequest(request)
    /\ request.phase \in {"closure", "burden", "search"}
    /\ request.candidate \in Candidates /\ ValidateCandidate(request.candidate)
    /\ request.obligations \in ObligationLists
    /\ Accounted(request.candidate, request.obligations, request.owed, request.burden)
    /\ request.phase = "search" =>
         /\ request.owed # <<>>
         /\ Searching(request.candidate, Head(request.owed), request.queue, request.seen)

LEMMA ObligationsType ==
  ASSUME NEW list \in ObligationLists
  PROVE /\ list \in Seq(Range(list)) /\ Len(list) \in Nat /\ DOMAIN list = 1..Len(list)
        /\ \A i \in 1..Len(list) : list[i].from # list[i].to /\ list[i].weight \in Int
<1>1. /\ list \in Seq(Range(list))
      /\ \A i \in DOMAIN list : list[i].from # list[i].to /\ list[i].weight \in Nat
  BY SnapRequestsTyped
<1>2. Len(list) \in Nat /\ DOMAIN list = 1..Len(list)
  BY <1>1
<1> QED BY <1>1, <1>2

LEMMA ApartType ==
  ASSUME NEW g, NEW list \in ObligationLists, NEW n \in 0..Len(list)
  PROVE SumUpTo(Apart(g, list), n) \in Int
<1>1. PICK f : f = Apart(g, list)
  OBVIOUS
<1>2. n \in Nat /\ \A i \in 1..n : i \in 1..Len(list)
  BY ObligationsType
<1>3. \A i \in 1..Len(list) : f[i] \in Int
  BY <1>1, ObligationsType DEF Apart
<1>4. SumUpTo(f, n) \in Int
  BY <1>2, <1>3, SumType
<1> QED BY <1>1, <1>4

\* The first of the owed obligations is settled.
LEMMA ObligationSettled ==
  ASSUME NEW g, NEW list \in ObligationLists, NEW owed, NEW burden, owed # <<>>,
         Accounted(g, list, owed, burden),
         NEW w, w = IF Joined(g, Head(owed).from, Head(owed).to) THEN 0 ELSE Head(owed).weight
  PROVE /\ Head(owed).from # Head(owed).to
        /\ burden \in Int
        /\ Accounted(g, list, Tail(owed), burden + w)
<1>1. PICK done \in 0..Len(list) :
        /\ owed \in Seq(Range(list)) /\ Len(owed) = Len(list) - done
        /\ \A k \in 1..Len(owed) : owed[k] = list[done + k]
        /\ burden = SumUpTo(Apart(g, list), done)
  BY DEF Accounted
<1>2. PICK n, m, f, t : n = Len(list) /\ m = Len(owed) /\ f = Apart(g, list) /\ t = Tail(owed)
  OBVIOUS
<1>3. /\ n \in Nat /\ DOMAIN list = 1..n
      /\ \A i \in 1..n : list[i].from # list[i].to /\ list[i].weight \in Int
  BY <1>2, ObligationsType
<1>4. m \in Nat /\ m # 0 /\ done \in Nat /\ m = n - done
  BY <1>1, <1>2, <1>3
<1>5. /\ Head(owed) = owed[1] /\ t \in Seq(Range(list)) /\ Len(t) = m - 1
      /\ \A k \in 1..m-1 : t[k] = owed[k + 1]
  BY <1>1, <1>2, <1>4
<1>6. PICK d : d = done + 1
  OBVIOUS
<1>7. d \in 1..n /\ d \in 0..n /\ Head(owed) = list[d]
  <2>1. 1 \in 1..m /\ d \in 1..n /\ d \in 0..n
    BY <1>3, <1>4, <1>6
  <2> QED BY <1>1, <1>2, <1>5, <1>6, <2>1
<1>8. f[d] = w
  BY <1>2, <1>3, <1>7 DEF Apart
<1>9. SumUpTo(f, done) \in Int
  BY <1>1, <1>2, ApartType
<1>10. SumUpTo(f, d) = SumUpTo(f, done) + f[d]
  BY <1>4, <1>6, SumEquations
<1>11. ASSUME NEW k \in 1..m-1 PROVE t[k] = list[d + k]
  <2>1. k + 1 \in 1..m /\ done + (k + 1) = d + k
    BY <1>4, <1>6
  <2>2. owed[k + 1] = list[done + (k + 1)]
    BY <1>1, <1>2, <2>1
  <2> QED BY <1>5, <2>1, <2>2
<1>12. Len(t) = n - d /\ m - 1 = n - d
  BY <1>3, <1>4, <1>5, <1>6
<1>13. burden + w = SumUpTo(f, d)
  BY <1>1, <1>2, <1>8, <1>10
<1>14. Accounted(g, list, t, burden + w)
  <2>1. /\ d \in 0..Len(list) /\ t \in Seq(Range(list)) /\ Len(t) = Len(list) - d
        /\ \A k \in 1..Len(t) : t[k] = list[d + k]
        /\ burden + w = SumUpTo(Apart(g, list), d)
    BY <1>2, <1>5, <1>7, <1>11, <1>12, <1>13
  <2> QED BY <2>1 DEF Accounted
<1> QED BY <1>1, <1>2, <1>3, <1>7, <1>9, <1>14

LEMMA BurdenInvInit == SnapInit => BurdenInv
BY DEF SnapInit, BurdenInv

LEMMA Proposed ==
  ASSUME NEW h \in Candidates, NEW obligations \in ObligationLists, Propose(h, obligations)
  PROVE BurdenInv'
<1>1. PICK r : r = request'
  OBVIOUS
<1>2. /\ IsRequest(r) /\ r.phase = "closure" /\ r.candidate = h /\ r.obligations = obligations
      /\ r.owed = obligations /\ r.burden = 0
  BY <1>1 DEF Propose, IsRequest
<1>3. ValidateCandidate(h)
  BY DEF Propose
<1>4. Accounted(h, obligations, obligations, 0)
  <2>1. Len(obligations) \in Nat /\ obligations \in Seq(Range(obligations))
    BY ObligationsType
  <2>2. SumUpTo(Apart(h, obligations), 0) = 0
    BY SumEquations
  <2>3. PICK z : z = 0
    OBVIOUS
  <2>4. z \in 0..Len(obligations) /\ Len(obligations) = Len(obligations) - z
    BY <2>1, <2>3
  <2>5. \A k \in 1..Len(obligations) : z + k = k
    BY <2>3
  <2>6. \A k \in 1..Len(obligations) : obligations[k] = obligations[z + k]
    BY <2>5
  <2>7. 0 = SumUpTo(Apart(h, obligations), z)
    BY <2>2, <2>3
  <2> QED BY <2>1, <2>4, <2>6, <2>7, Zenon DEF Accounted
<1> QED BY <1>1, <1>2, <1>3, <1>4 DEF BurdenInv

LEMMA Expanded ==
  ASSUME BurdenInv, Expand
  PROVE BurdenInv'
<1>1. request.phase = "closure" /\ request # NoRequest
  BY DEF Expand, NoRequest
<1>2. PICK r, a, f, d : /\ r = request'
                        /\ r = [request EXCEPT !.affected = a, !.frontier = f, !.depth = d]
  <2>1. PICK next : next = Neighbours(Adjacency(request.base) \cup Adjacency(request.candidate),
                                      request.frontier) \ request.affected
    OBVIOUS
  <2>2. PICK r, a, d : r = request' /\ a = request.affected \cup next /\ d = request.depth + 1
    OBVIOUS
  <2>3. r = [request EXCEPT !.affected = a, !.frontier = next, !.depth = d]
    BY <2>1, <2>2 DEF Expand
  <2> QED BY <2>2, <2>3, Zenon
<1>3. /\ IsRequest(r) /\ r.phase = request.phase /\ r.candidate = request.candidate
      /\ r.obligations = request.obligations /\ r.owed = request.owed /\ r.burden = request.burden
  <2>1. IsRequest(request)
    BY <1>1 DEF BurdenInv
  <2> QED BY <1>2, <2>1 DEF IsRequest
<1>4. request.phase # "search"
  BY <1>1
<1> QED BY <1>1, <1>2, <1>3, <1>4 DEF BurdenInv

\* Request r with burden b and its first owed obligation settled.
SettledWith(r, b) == NextObligation([r EXCEPT !.phase = "burden", !.burden = b])

LEMMA Settled ==
  ASSUME BurdenInv, request # NoRequest, request.owed # <<>>,
         NEW o, o = Head(request.owed),
         NEW w, w = IF Joined(request.candidate, o.from, o.to) THEN 0 ELSE o.weight,
         NEW b, b = request.burden + w,
         request' = SettledWith(request, b)
  PROVE BurdenInv'
<1>1. /\ IsRequest(request) /\ request.candidate \in Candidates
      /\ ValidateCandidate(request.candidate) /\ request.obligations \in ObligationLists
      /\ Accounted(request.candidate, request.obligations, request.owed, request.burden)
  BY DEF BurdenInv
<1>2. PICK r : r = request'
  OBVIOUS
<1>3. /\ IsRequest(r) /\ r.phase = "burden" /\ r.candidate = request.candidate
      /\ r.obligations = request.obligations /\ r.owed = Tail(request.owed) /\ r.burden = b
  BY <1>1, <1>2 DEF IsRequest, SettledWith, NextObligation
<1>4. PICK g, list, owed, burden :
        /\ g = request.candidate /\ list = request.obligations /\ owed = request.owed
        /\ burden = request.burden
  OBVIOUS
<1>5. /\ list \in ObligationLists /\ owed # <<>> /\ Accounted(g, list, owed, burden)
      /\ w = IF Joined(g, Head(owed).from, Head(owed).to) THEN 0 ELSE Head(owed).weight
  BY <1>1, <1>4
<1>6. Accounted(g, list, Tail(owed), burden + w)
  BY <1>5, ObligationSettled
<1> QED BY <1>1, <1>2, <1>3, <1>4, <1>6 DEF BurdenInv

LEMMA SearchStarted ==
  ASSUME BurdenInv, StartSearch
  PROVE BurdenInv'
<1>1. request.phase \in {"closure", "burden"} /\ request # NoRequest /\ request.owed # <<>>
  BY DEF StartSearch, NoRequest
<1>2. /\ IsRequest(request) /\ request.candidate \in Candidates
      /\ ValidateCandidate(request.candidate) /\ request.obligations \in ObligationLists
      /\ Accounted(request.candidate, request.obligations, request.owed, request.burden)
  BY <1>1 DEF BurdenInv
<1>3. PICK o, g, b : o = Head(request.owed) /\ g = request.candidate /\ b = request.burden + o.weight
  OBVIOUS
<1>4. CASE o.from \in DOMAIN g.nodes
  <2>1. PICK r, q, s : r = request' /\ q = <<o.from>> /\ s = {o.from}
    OBVIOUS
  <2>2. r = [request EXCEPT !.phase = "search", !.queue = q, !.seen = s]
    BY <1>3, <1>4, <2>1 DEF StartSearch
  <2>3. /\ IsRequest(r) /\ r.phase = "search" /\ r.candidate = g
        /\ r.obligations = request.obligations /\ r.owed = request.owed /\ r.burden = request.burden
        /\ r.queue = q /\ r.seen = s
    BY <1>2, <1>3, <2>2 DEF IsRequest
  <2>4. o.from # o.to
    <3>1. PICK list, owed, burden, w :
            /\ list = request.obligations /\ owed = request.owed /\ burden = request.burden
            /\ w = IF Joined(g, Head(owed).from, Head(owed).to) THEN 0 ELSE Head(owed).weight
      OBVIOUS
    <3>2. list \in ObligationLists /\ owed # <<>> /\ Accounted(g, list, owed, burden)
      BY <1>1, <1>2, <1>3, <3>1
    <3>3. Head(owed).from # Head(owed).to
      BY <3>1, <3>2, ObligationSettled
    <3> QED BY <1>3, <3>1, <3>3
  <2>5. Searching(g, o, q, s)
    BY <1>4, <2>1, <2>4, SearchStarts
  <2> QED BY <1>1, <1>2, <1>3, <2>1, <2>3, <2>5 DEF BurdenInv
<1>5. CASE o.from \notin DOMAIN g.nodes
  <2>1. request' = SettledWith(request, b)
    BY <1>3, <1>5 DEF StartSearch, SettledWith
  <2>2. ~Joined(g, o.from, o.to)
    BY <1>5 DEF Joined
  <2>3. PICK w : w = o.weight
    OBVIOUS
  <2>4. w = IF Joined(request.candidate, o.from, o.to) THEN 0 ELSE o.weight
    BY <1>3, <2>2, <2>3
  <2> QED BY <1>1, <1>3, <2>1, <2>3, <2>4, Settled
<1> QED BY <1>4, <1>5

LEMMA Searched ==
  ASSUME BurdenInv, Search
  PROVE BurdenInv'
<1>1. request.phase = "search" /\ request # NoRequest
  BY DEF Search, NoRequest
<1>2. /\ IsRequest(request) /\ request.candidate \in Candidates
      /\ ValidateCandidate(request.candidate) /\ request.obligations \in ObligationLists
      /\ Accounted(request.candidate, request.obligations, request.owed, request.burden)
      /\ request.owed # <<>>
      /\ Searching(request.candidate, Head(request.owed), request.queue, request.seen)
  BY <1>1 DEF BurdenInv
<1>3. PICK o, g, queue, seen, burden :
        /\ o = Head(request.owed) /\ g = request.candidate /\ queue = request.queue
        /\ seen = request.seen /\ burden = request.burden
  OBVIOUS
<1>4. PICK next : next = Neighbours(Adjacency(g), {Head(queue)})
  OBVIOUS
<1>5. PICK rest : rest = Tail(queue) \o SetToSeq(next \ seen)
  OBVIOUS
<1>6. g \in Candidates /\ ValidateCandidate(g) /\ Searching(g, o, queue, seen)
  BY <1>2, <1>3
<1>7. /\ o.to \in next => Joined(g, o.from, o.to)
      /\ o.to \notin next /\ rest = <<>> => ~Joined(g, o.from, o.to)
      /\ o.to \notin next /\ rest # <<>> => Searching(g, o, rest, seen \cup next)
  BY <1>4, <1>5, <1>6, SearchGoesOn
<1>8. request' = CASE o.to \in next ->
                        NextObligation([request EXCEPT !.phase = "burden"])
                   [] o.to \notin next /\ rest = <<>> ->
                        NextObligation([request EXCEPT !.phase = "burden", !.burden = @ + o.weight])
                   [] OTHER -> [request EXCEPT !.queue = rest, !.seen = @ \cup next]
  BY <1>3, <1>4, <1>5, Zenon DEF Search
<1>9. burden \in Int
  <2>1. PICK list, owed, w :
          /\ list = request.obligations /\ owed = request.owed
          /\ w = IF Joined(g, Head(owed).from, Head(owed).to) THEN 0 ELSE Head(owed).weight
    OBVIOUS
  <2>2. list \in ObligationLists /\ owed # <<>> /\ Accounted(g, list, owed, burden)
    BY <1>2, <1>3, <2>1
  <2> QED BY <2>1, <2>2, ObligationSettled
<1>10. CASE o.to \in next
  <2>1. PICK w, b : w = 0 /\ b = burden
    OBVIOUS
  <2>2. request' = NextObligation([request EXCEPT !.phase = "burden"])
    BY <1>8, <1>10
  <2>3. [request EXCEPT !.phase = "burden"] = [request EXCEPT !.phase = "burden", !.burden = b]
    BY <1>2, <1>3, <2>1 DEF IsRequest
  <2>4. w = IF Joined(request.candidate, o.from, o.to) THEN 0 ELSE o.weight
    BY <1>3, <1>7, <1>10, <2>1
  <2>5. b = request.burden + w
    BY <1>3, <1>9, <2>1
  <2>6. request' = SettledWith(request, b)
    BY <2>2, <2>3 DEF SettledWith
  <2> QED BY <1>1, <1>2, <1>3, <2>4, <2>5, <2>6, Settled
<1>11. CASE o.to \notin next /\ rest = <<>>
  <2>1. PICK w, b : w = o.weight /\ b = request.burden + o.weight
    OBVIOUS
  <2>2. request' = SettledWith(request, b)
    BY <1>8, <1>11, <2>1 DEF SettledWith
  <2>3. w = IF Joined(request.candidate, o.from, o.to) THEN 0 ELSE o.weight
    BY <1>3, <1>7, <1>11, <2>1
  <2>4. b = request.burden + w
    BY <2>1
  <2> QED BY <1>1, <1>2, <1>3, <2>2, <2>3, <2>4, Settled
<1>12. CASE o.to \notin next /\ rest # <<>>
  <2>1. PICK r, all : r = request' /\ all = seen \cup next
    OBVIOUS
  <2>2. r = [request EXCEPT !.queue = rest, !.seen = all]
    BY <1>3, <1>8, <1>12, <2>1
  <2>3. /\ IsRequest(r) /\ r.phase = "search" /\ r.candidate = g
        /\ r.obligations = request.obligations /\ r.owed = request.owed /\ r.burden = burden
        /\ r.queue = rest /\ r.seen = all
    BY <1>1, <1>2, <1>3, <2>2 DEF IsRequest
  <2>4. Searching(g, o, rest, all)
    BY <1>7, <1>12, <2>1
  <2> QED BY <1>2, <1>3, <2>1, <2>3, <2>4 DEF BurdenInv
<1> QED BY <1>10, <1>11, <1>12

LEMMA BurdenInvNext ==
  ASSUME BurdenInv, [SnapNext]_snapVars
  PROVE BurdenInv'
<1>1. ASSUME request' = request PROVE BurdenInv'
  BY <1>1 DEF BurdenInv
<1>2. ASSUME request' = NoRequest PROVE BurdenInv'
  BY <1>2 DEF BurdenInv, NoRequest
<1>3. CASE \E h \in Candidates, obligations \in ObligationLists : Propose(h, obligations)
  BY <1>3, Proposed
<1>4. CASE Expand
  BY <1>4, Expanded
<1>5. CASE StartSearch
  BY <1>5, SearchStarted
<1>6. CASE Search
  BY <1>6, Searched
<1>7. CASE \E nodes \in SUBSET DOMAIN request.candidate.nodes,
              edges \in SUBSET DOMAIN request.candidate.edges : PublishSnap(nodes, edges)
  BY <1>2, <1>7 DEF PublishSnap
<1>8. CASE RefuseSnap
  BY <1>2, <1>8 DEF RefuseSnap
<1>9. CASE RollbackSnap
  BY <1>1, <1>9 DEF RollbackSnap
<1>10. CASE (\E k \in Keys : LearnPosterior(k)) \/ (\E r \in Residuals : LearnResidual(r))
  BY <1>1, <1>10 DEF LearnPosterior, LearnResidual
<1>11. CASE UNCHANGED snapVars
  BY <1>1, <1>11 DEF snapVars
<1> QED BY <1>3, <1>4, <1>5, <1>6, <1>7, <1>8, <1>9, <1>10, <1>11 DEF SnapNext

\* For any candidate graph and any obligations, the breadth-first search of
\* UnresolvedBurden adds up the weight of exactly those obligations whose ends
\* no path joins.
THEOREM BurdenIsExact == SnapSpec => []BurdenExact
<1>1. SnapInit => BurdenInv
  BY BurdenInvInit
<1>2. BurdenInv /\ [SnapNext]_snapVars => BurdenInv'
  BY BurdenInvNext
<1>3. BurdenInv => BurdenExact
  <2>1. SUFFICES ASSUME BurdenInv, request # NoRequest, Measured
                 PROVE request.burden = SumUpTo(Apart(request.candidate, request.obligations),
                                                Len(request.obligations))
    BY DEF BurdenExact
  <2>2. /\ request.owed = <<>> /\ request.obligations \in ObligationLists
        /\ Accounted(request.candidate, request.obligations, request.owed, request.burden)
    BY <2>1 DEF BurdenInv, Measured
  <2>3. PICK g, list, burden : /\ g = request.candidate /\ list = request.obligations
                               /\ burden = request.burden
    OBVIOUS
  <2>4. Accounted(g, list, <<>>, burden)
    BY <2>2, <2>3
  <2>5. PICK done \in 0..Len(list) : /\ Len(<<>>) = Len(list) - done
                                     /\ burden = SumUpTo(Apart(g, list), done)
    BY <2>4, Zenon DEF Accounted
  <2>6. Len(list) \in Nat
    BY <2>2, <2>3, ObligationsType
  <2>7. done = Len(list)
    <3>1. Len(<<>>) = 0
      OBVIOUS
    <3> QED BY <2>5, <2>6, <3>1
  <2> QED BY <2>3, <2>5, <2>7
<1> QED BY <1>1, <1>2, <1>3, PTL DEF SnapSpec

(***************************************************************************)
(* What a change of the graph influences.                                  *)
(***************************************************************************)

WellFormed(g) ==
  \A i \in DOMAIN g.edges : g.edges[i].from \in DOMAIN g.nodes /\ g.edges[i].to \in DOMAIN g.nodes

\* Graphs g and h give event e the same compatibility with any nominated events.
ScoresAlike(g, h, e) ==
  \A scores : CandidateCompatibility(g, e, scores) = CandidateCompatibility(h, e, scores)

\* Node n is in both graphs and is lent the same in both.
LendsAlike(g, h, n) ==
  /\ n \in DOMAIN g.nodes \cap DOMAIN h.nodes
  /\ g.nodes[n] = h.nodes[n]
  /\ \A scores : Influence(g, n, scores) = Influence(h, n, scores)

\* So are all nodes that declare key k.
KeyAlike(g, h, k) ==
  \A n : n \in Declarers(g, k) \cup Declarers(h, k) => LendsAlike(g, h, n)

\* The nodes hold the differences of g and h and every neighbour of one.
HoldsInfluence(g, h, nodes) ==
  /\ Seed(g, h) \subseteq nodes
  /\ Neighbours(Adjacency(g) \cup Adjacency(h), Seed(g, h)) \subseteq nodes

LEMMA AdjacentEnds ==
  ASSUME NEW g, NEW h, NEW i \in DOMAIN g.edges, NEW S
  PROVE /\ g.edges[i].from \in S =>
             g.edges[i].to \in Neighbours(Adjacency(g) \cup Adjacency(h), S)
        /\ g.edges[i].to \in S =>
             g.edges[i].from \in Neighbours(Adjacency(g) \cup Adjacency(h), S)
<1>1. PICK A, a, b : A = Adjacency(g) \cup Adjacency(h) /\ a = g.edges[i].from /\ b = g.edges[i].to
  OBVIOUS
<1>2. <<a, b>> \in A /\ <<b, a>> \in A
  BY <1>1 DEF Adjacency
<1>3. ASSUME NEW x \in S, NEW y, <<x, y>> \in A PROVE y \in Neighbours(A, S)
  <2>1. <<x, y>> \in {q \in A : q[1] \in S} /\ <<x, y>>[2] = y
    BY <1>3
  <2> QED BY <2>1 DEF Neighbours
<1> QED BY <1>1, <1>2, <1>3

\* An edge with an end among the differences lends nothing outside the closure.
LEMMA NothingLent ==
  ASSUME NEW g, NEW h, WellFormed(g), NEW nodes, NEW e, NEW scores, NEW i,
         \A n \in nodes \cap DOMAIN g.nodes : e \notin g.nodes[n].members,
         i \in DOMAIN g.edges => g.edges[i].from \in nodes /\ g.edges[i].to \in nodes
  PROVE LentIfScored(g, i, e, scores) = {}
<1>1. CASE i \notin DOMAIN g.edges
  BY <1>1 DEF LentIfScored, BothScored
<1>2. CASE i \in DOMAIN g.edges
  <2>1. /\ e \notin g.nodes[g.edges[i].from].members
        /\ e \notin g.nodes[g.edges[i].to].members
    BY <1>2 DEF WellFormed
  <2>2. Lent(g, i, e, scores) = {}
    BY <2>1, Zenon DEF Lent
  <2> QED BY <2>2 DEF LentIfScored
<1> QED BY <1>1, <1>2

\* An edge of both graphs whose ends are the same in both lends the same.
LEMMA SameEdgeLends ==
  ASSUME NEW g, NEW h, NEW i, i \in DOMAIN g.edges, i \in DOMAIN h.edges, g.edges[i] = h.edges[i],
         g.nodes[g.edges[i].from] = h.nodes[g.edges[i].from],
         g.nodes[g.edges[i].to] = h.nodes[g.edges[i].to], NEW scores
  PROVE /\ BothScored(g, i, scores) = BothScored(h, i, scores)
        /\ \A n : LentTo(g, i, n, scores) = LentTo(h, i, n, scores)
<1>1. PICK a, b : a = g.edges[i].from /\ b = g.edges[i].to
  OBVIOUS
<1>2. a = h.edges[i].from /\ b = h.edges[i].to /\ g.nodes[a] = h.nodes[a] /\ g.nodes[b] = h.nodes[b]
  BY <1>1
<1>3. Nominated(g, a, scores) = Nominated(h, a, scores)
      /\ Nominated(g, b, scores) = Nominated(h, b, scores)
  BY <1>2 DEF Nominated
<1>4. NodeScore(g, a, scores) = NodeScore(h, a, scores)
      /\ NodeScore(g, b, scores) = NodeScore(h, b, scores)
  BY <1>3, Zenon DEF NodeScore
<1>5. BothScored(g, i, scores) = BothScored(h, i, scores)
  BY <1>1, <1>2, <1>3, Zenon DEF BothScored
<1>6. ASSUME NEW n PROVE LentTo(g, i, n, scores) = LentTo(h, i, n, scores)
  BY <1>1, <1>2, <1>4, Zenon DEF LentTo
<1> QED BY <1>5, <1>6

\* A node outside the closure is the same in both graphs and is lent the same.
LEMMA NodeOutsideClosure ==
  ASSUME NEW g, NEW h, WellFormed(g), WellFormed(h), NEW nodes, HoldsInfluence(g, h, nodes),
         NEW n, n \notin nodes, n \in DOMAIN g.nodes \/ n \in DOMAIN h.nodes
  PROVE LendsAlike(g, h, n)
<1>1. PICK seed : seed = Seed(g, h)
  OBVIOUS
<1>2. seed \subseteq nodes /\ Neighbours(Adjacency(g) \cup Adjacency(h), seed) \subseteq nodes
  BY <1>1 DEF HoldsInfluence
<1>3. ASSUME NEW m, m \notin seed, m \in DOMAIN g.nodes \/ m \in DOMAIN h.nodes
      PROVE m \in DOMAIN g.nodes \cap DOMAIN h.nodes /\ g.nodes[m] = h.nodes[m]
  <2>1. m \notin Changed(g.nodes, h.nodes)
    BY <1>1, <1>3 DEF Seed
  <2> QED BY <1>3, <2>1 DEF Changed
<1>4. n \in DOMAIN g.nodes \cap DOMAIN h.nodes /\ g.nodes[n] = h.nodes[n]
  BY <1>2, <1>3
<1>5. ASSUME NEW f, NEW scores, NEW i, i \in DOMAIN f.edges => n # f.edges[i].from /\ n # f.edges[i].to
      PROVE (IF BothScored(f, i, scores)
             THEN {<<f.edges[i].weight, l>> : l \in LentTo(f, i, n, scores)} ELSE {}) = {}
  <2>1. CASE i \in DOMAIN f.edges
    <3>1. LentTo(f, i, n, scores) = {}
      BY <1>5, <2>1 DEF LentTo
    <3> QED BY <3>1
  <2>2. CASE i \notin DOMAIN f.edges
    BY <2>2 DEF BothScored
  <2> QED BY <2>1, <2>2
<1>6. ASSUME NEW scores, NEW i \in EdgeIds
      PROVE (IF BothScored(g, i, scores)
             THEN {<<g.edges[i].weight, l>> : l \in LentTo(g, i, n, scores)} ELSE {})
            = (IF BothScored(h, i, scores)
               THEN {<<h.edges[i].weight, l>> : l \in LentTo(h, i, n, scores)} ELSE {})
  <2>1. CASE /\ i \in DOMAIN g.edges => n # g.edges[i].from /\ n # g.edges[i].to
             /\ i \in DOMAIN h.edges => n # h.edges[i].from /\ n # h.edges[i].to
    BY <1>5, <2>1
  <2>2. CASE i \in Changed(g.edges, h.edges)
    <3>1. i \in DOMAIN g.edges => g.edges[i].from \in seed /\ g.edges[i].to \in seed
      BY <1>1, <2>2 DEF Seed, Ends
    <3>2. i \in DOMAIN h.edges => h.edges[i].from \in seed /\ h.edges[i].to \in seed
      BY <1>1, <2>2 DEF Seed, Ends
    <3> QED BY <1>2, <2>1, <3>1, <3>2
  <2>3. CASE /\ i \in DOMAIN g.edges /\ i \in DOMAIN h.edges /\ g.edges[i] = h.edges[i]
             /\ n = g.edges[i].from \/ n = g.edges[i].to
    <3>1. PICK a, b : a = g.edges[i].from /\ b = g.edges[i].to
      OBVIOUS
    <3>2. a \notin seed /\ b \notin seed
      BY <1>2, <2>3, <3>1, AdjacentEnds
    <3>3. a \in DOMAIN g.nodes /\ b \in DOMAIN g.nodes
      BY <2>3, <3>1 DEF WellFormed
    <3>4. g.nodes[a] = h.nodes[a] /\ g.nodes[b] = h.nodes[b]
      BY <1>3, <3>2, <3>3
    <3>5. /\ BothScored(g, i, scores) = BothScored(h, i, scores)
          /\ LentTo(g, i, n, scores) = LentTo(h, i, n, scores)
      BY <2>3, <3>1, <3>4, SameEdgeLends
    <3> QED BY <2>3, <3>5, Zenon
  <2>4. i \in Changed(g.edges, h.edges) \/ (i \in DOMAIN g.edges <=> i \in DOMAIN h.edges)
    BY DEF Changed
  <2>5. i \in DOMAIN g.edges /\ i \in DOMAIN h.edges =>
          i \in Changed(g.edges, h.edges) \/ g.edges[i] = h.edges[i]
    BY DEF Changed
  <2> QED BY <2>1, <2>2, <2>3, <2>4, <2>5
<1>7. ASSUME NEW scores PROVE Influence(g, n, scores) = Influence(h, n, scores)
  BY <1>6, Zenon DEF Influence
<1> QED BY <1>4, <1>7 DEF LendsAlike

\* A key no node of the closure declares keeps the influence on its nodes.
LEMMA KeyOutsideClosure ==
  ASSUME NEW g, NEW h, WellFormed(g), WellFormed(h), NEW nodes, HoldsInfluence(g, h, nodes),
         NEW k, k \notin ClosureKeys(g, h, nodes)
  PROVE KeyAlike(g, h, k)
<1>1. SUFFICES ASSUME NEW n, n \in Declarers(g, k) \cup Declarers(h, k)
               PROVE LendsAlike(g, h, n)
  BY DEF KeyAlike
<1>2. k \notin Declares(g, nodes) /\ k \notin Declares(h, nodes)
  BY DEF ClosureKeys
<1>3. n \notin nodes
  BY <1>1, <1>2 DEF Declares, Declarers
<1>4. n \in DOMAIN g.nodes \/ n \in DOMAIN h.nodes
  BY <1>1 DEF Declarers
<1> QED BY <1>3, <1>4, NodeOutsideClosure

\* An event outside the closure keeps its compatibility.
LEMMA OutsideClosure ==
  ASSUME NEW g, NEW h, WellFormed(g), WellFormed(h), NEW nodes, HoldsInfluence(g, h, nodes),
         NEW e, e \notin ClosureEvents(g, h, nodes)
  PROVE ScoresAlike(g, h, e)
<1>1. /\ \A n \in nodes \cap DOMAIN g.nodes : e \notin g.nodes[n].members
      /\ \A n \in nodes \cap DOMAIN h.nodes : e \notin h.nodes[n].members
  <2>1. e \notin Holds(g, nodes) /\ e \notin Holds(h, nodes)
    BY DEF ClosureEvents
  <2> QED BY <2>1 DEF Holds
<1>2. PICK seed : seed = Seed(g, h)
  OBVIOUS
<1>3. seed \subseteq nodes /\ Neighbours(Adjacency(g) \cup Adjacency(h), seed) \subseteq nodes
  BY <1>2 DEF HoldsInfluence
<1>4. ASSUME NEW scores, NEW i \in EdgeIds
      PROVE /\ LentIfScored(g, i, e, scores) = LentIfScored(h, i, e, scores)
            /\ LentIfScored(g, i, e, scores) # {} => g.edges[i] = h.edges[i]
  <2>1. ASSUME i \in DOMAIN g.edges => g.edges[i].from \in nodes /\ g.edges[i].to \in nodes,
               i \in DOMAIN h.edges => h.edges[i].from \in nodes /\ h.edges[i].to \in nodes
        PROVE LentIfScored(g, i, e, scores) = {} /\ LentIfScored(h, i, e, scores) = {}
    <3>1. LentIfScored(g, i, e, scores) = {}
      BY <1>1, <2>1, NothingLent
    <3>2. LentIfScored(h, i, e, scores) = {}
      BY <1>1, <2>1, NothingLent
    <3> QED BY <3>1, <3>2
  <2>2. CASE i \in Changed(g.edges, h.edges)
    <3>1. i \in DOMAIN g.edges => g.edges[i].from \in seed /\ g.edges[i].to \in seed
      BY <1>2, <2>2 DEF Seed, Ends
    <3>2. i \in DOMAIN h.edges => h.edges[i].from \in seed /\ h.edges[i].to \in seed
      BY <1>2, <2>2 DEF Seed, Ends
    <3> QED BY <1>3, <2>1, <3>1, <3>2
  <2>3. CASE i \notin DOMAIN g.edges /\ i \notin DOMAIN h.edges
    BY <2>1, <2>3
  <2>4. CASE i \in DOMAIN g.edges /\ i \in DOMAIN h.edges /\ g.edges[i] = h.edges[i]
    <3>1. PICK a, b : a = g.edges[i].from /\ b = g.edges[i].to
      OBVIOUS
    <3>2. a = h.edges[i].from /\ b = h.edges[i].to
      BY <2>4, <3>1
    <3>3. CASE a \in seed \/ b \in seed
      <4>1. a \in nodes /\ b \in nodes
        BY <1>3, <2>4, <3>1, <3>3, AdjacentEnds
      <4> QED BY <2>1, <3>1, <3>2, <4>1
    <3>4. CASE a \notin seed /\ b \notin seed
      <4>1. a \notin Changed(g.nodes, h.nodes) /\ b \notin Changed(g.nodes, h.nodes)
        BY <1>2, <3>4 DEF Seed
      <4>2. a \in DOMAIN g.nodes /\ b \in DOMAIN g.nodes
        BY <2>4, <3>1 DEF WellFormed
      <4>3. g.nodes[a] = h.nodes[a] /\ g.nodes[b] = h.nodes[b]
        BY <4>1, <4>2 DEF Changed
      <4>4. /\ BothScored(g, i, scores) = BothScored(h, i, scores)
            /\ \A n : LentTo(g, i, n, scores) = LentTo(h, i, n, scores)
        BY <2>4, <3>1, <4>3, SameEdgeLends
      <4>5. {n \in {a, b} : e \in g.nodes[n].members} = {n \in {a, b} : e \in h.nodes[n].members}
        BY <4>3
      <4>6. Lent(g, i, e, scores) = Lent(h, i, e, scores)
        BY <3>1, <3>2, <4>4, <4>5, Zenon DEF Lent
      <4> QED BY <2>4, <4>4, <4>6, Zenon DEF LentIfScored
    <3> QED BY <3>3, <3>4
  <2> QED BY <2>2, <2>3, <2>4 DEF Changed
<1>5. ASSUME NEW scores
      PROVE CandidateCompatibility(g, e, scores) = CandidateCompatibility(h, e, scores)
  <2> DEFINE lent == [i \in EdgeIds |-> LentIfScored(g, i, e, scores)]
  <2>1. lent = [i \in EdgeIds |-> LentIfScored(h, i, e, scores)]
    BY <1>4
  <2>2. \A i \in EdgeIds : lent[i] # {} => g.edges[i] = h.edges[i]
    BY <1>4
  <2>3. PICK l : l = lent
    OBVIOUS
  <2>4. PICK tg, th, wg, wh :
          /\ tg = [i \in EdgeIds |-> IF l[i] = {} THEN 0 ELSE LentScore(l[i]) * g.edges[i].weight]
          /\ th = [i \in EdgeIds |-> IF l[i] = {} THEN 0 ELSE LentScore(l[i]) * h.edges[i].weight]
          /\ wg = [i \in EdgeIds |-> IF l[i] = {} THEN 0 ELSE Cardinality(l[i]) * g.edges[i].weight]
          /\ wh = [i \in EdgeIds |-> IF l[i] = {} THEN 0 ELSE Cardinality(l[i]) * h.edges[i].weight]
    OBVIOUS
  <2>5. tg = th /\ wg = wh
    BY <2>2, <2>3, <2>4
  <2>6. CandidateCompatibility(g, e, scores)
          = [total |-> SumFunctionOnSet(tg, EdgeIds), weight |-> SumFunctionOnSet(wg, EdgeIds)]
    BY <2>3, <2>4, Zenon DEF CandidateCompatibility
  <2>7. CandidateCompatibility(h, e, scores)
          = [total |-> SumFunctionOnSet(th, EdgeIds), weight |-> SumFunctionOnSet(wh, EdgeIds)]
    BY <2>1, <2>3, <2>4, Zenon DEF CandidateCompatibility
  <2> QED BY <2>5, <2>6, <2>7, Zenon
<1> QED BY <1>5 DEF ScoresAlike

\* How far the search for the closure has come.
Closing(r) ==
  /\ r.depth \in Nat /\ r.depth <= ClosureRadius
  /\ r.phase # "closure" => r.depth = ClosureRadius
  /\ Seed(r.base, r.candidate) \subseteq r.affected
  /\ r.depth = 0 => r.frontier = r.affected
  /\ r.depth # 0 => HoldsInfluence(r.base, r.candidate, r.affected)

\* The graphs are well formed, and what the last publication did not forget
\* scores alike before and after it.
InfluenceInv ==
  /\ WellFormed(graph)
  /\ version \in Int
  /\ snap.published =>
       /\ snap.version \in Int /\ snap.version <= version
       /\ WellFormed(snap.previous)
       /\ snap.version = version =>
            /\ \A e : e \notin snap.events => ScoresAlike(snap.previous, graph, e)
            /\ \A k : k \notin snap.keys => KeyAlike(snap.previous, graph, k)
  /\ request # NoRequest =>
       /\ IsRequest(request)
       /\ WellFormed(request.base) /\ WellFormed(request.candidate)
       /\ Closing(request)

LEMMA ValidIsWellFormed ==
  ASSUME NEW g, ValidateCandidate(g)
  PROVE WellFormed(g)
BY DEF ValidateCandidate, WellFormed

LEMMA InfluenceInvInit == SnapInit => InfluenceInv
<1>1. SUFFICES ASSUME SnapInit PROVE InfluenceInv
  OBVIOUS
<1>2. graph \in Published /\ version = 1 /\ snap.published = FALSE /\ request = NoRequest
  BY <1>1 DEF SnapInit, NoSnap
<1>3. WellFormed(graph)
  BY <1>2, PublishedValid, ValidIsWellFormed
<1> QED BY <1>2, <1>3 DEF InfluenceInv

\* A step of the request that leaves the graph alone.
LEMMA RequestSteps ==
  ASSUME InfluenceInv, UNCHANGED <<graph, version, snap>>,
         NEW r, r = request', IsRequest(r), WellFormed(r.base), WellFormed(r.candidate), Closing(r)
  PROVE InfluenceInv'
BY DEF InfluenceInv

LEMMA ProposeKeepsInfluence ==
  ASSUME InfluenceInv, NEW h \in Candidates, NEW obligations \in ObligationLists,
         Propose(h, obligations)
  PROVE InfluenceInv'
<1>1. UNCHANGED <<graph, version, snap>> /\ ValidateCandidate(h) /\ WellFormed(graph)
  BY DEF Propose, InfluenceInv
<1>2. WellFormed(h)
  BY <1>1, ValidIsWellFormed
<1>3. PICK r : r = request'
  OBVIOUS
<1>4. /\ IsRequest(r) /\ r.phase = "closure" /\ r.base = graph /\ r.candidate = h /\ r.depth = 0
      /\ r.affected = Seed(graph, h) /\ r.frontier = Seed(graph, h)
  BY <1>3 DEF Propose, IsRequest
<1>5. Closing(r)
  BY <1>4, ClosureRadiusAssumption DEF Closing
<1> QED BY <1>1, <1>2, <1>3, <1>4, <1>5, RequestSteps

LEMMA ExpandKeepsInfluence ==
  ASSUME InfluenceInv, Expand
  PROVE InfluenceInv'
<1>1. request.phase = "closure" /\ request # NoRequest /\ UNCHANGED <<graph, version, snap>>
      /\ request.depth < ClosureRadius
  BY DEF Expand, NoRequest
<1>2. /\ IsRequest(request) /\ WellFormed(request.base) /\ WellFormed(request.candidate)
      /\ Closing(request)
  BY <1>1 DEF InfluenceInv
<1>3. PICK g, h, adj, f, old, depth :
        /\ g = request.base /\ h = request.candidate /\ adj = Adjacency(g) \cup Adjacency(h)
        /\ f = request.frontier /\ old = request.affected /\ depth = request.depth
  OBVIOUS
<1>4. PICK next, all, d : /\ next = Neighbours(adj, f) \ old /\ all = old \cup next
                          /\ d = depth + 1
  OBVIOUS
<1>5. PICK r : r = request'
  OBVIOUS
<1>6. r = [request EXCEPT !.affected = all, !.frontier = next, !.depth = d]
  BY <1>3, <1>4, <1>5 DEF Expand
<1>7. /\ IsRequest(r) /\ r.phase = "closure" /\ r.base = g /\ r.candidate = h
      /\ r.affected = all /\ r.depth = d
  BY <1>1, <1>2, <1>3, <1>6 DEF IsRequest
<1>8. d \in Nat /\ d <= ClosureRadius /\ d # 0 /\ depth \in Nat
  BY <1>1, <1>2, <1>3, <1>4, ClosureRadiusAssumption DEF Closing
<1>9. Seed(g, h) \subseteq old
  BY <1>2, <1>3 DEF Closing
<1>10. HoldsInfluence(g, h, all)
  <2>1. CASE depth = 0
    <3>1. f = old
      BY <1>2, <1>3, <2>1 DEF Closing
    <3>2. Neighbours(adj, Seed(g, h)) \subseteq Neighbours(adj, f)
      BY <1>9, <3>1 DEF Neighbours
    <3>3. Neighbours(adj, f) \subseteq all
      BY <1>4
    <3> QED BY <1>3, <1>4, <1>9, <3>2, <3>3 DEF HoldsInfluence
  <2>2. CASE depth # 0
    <3>1. HoldsInfluence(g, h, old)
      BY <1>2, <1>3, <2>2 DEF Closing
    <3> QED BY <1>4, <3>1 DEF HoldsInfluence
  <2> QED BY <2>1, <2>2
<1>11. Closing(r)
  BY <1>4, <1>7, <1>8, <1>9, <1>10 DEF Closing
<1> QED BY <1>1, <1>2, <1>3, <1>5, <1>7, <1>11, RequestSteps

SearchesWith(r, p, q, s) == [r EXCEPT !.phase = p, !.queue = q, !.seen = s]

SameClosure(r, t) ==
  /\ IsRequest(t) /\ t.base = r.base /\ t.candidate = r.candidate /\ t.depth = r.depth
  /\ t.affected = r.affected /\ t.frontier = r.frontier

\* The obligations are settled with the closure computed.
LEMMA BurdenKeepsInfluence ==
  ASSUME InfluenceInv, request # NoRequest, UNCHANGED <<graph, version, snap>>,
         request.phase # "closure" \/ request.depth = ClosureRadius,
         NEW r, r = request', SameClosure(request, r)
  PROVE InfluenceInv'
<1>1. WellFormed(request.base) /\ WellFormed(request.candidate) /\ Closing(request)
  BY DEF InfluenceInv
<1>2. Closing(r)
  BY <1>1 DEF Closing, SameClosure
<1>3. IsRequest(r) /\ WellFormed(r.base) /\ WellFormed(r.candidate)
  BY <1>1 DEF SameClosure
<1> QED BY <1>2, <1>3, RequestSteps

LEMMA SearchFields ==
  ASSUME request # NoRequest, IsRequest(request), StartSearch \/ Search
  PROVE SameClosure(request, request')
<1>1. ASSUME NEW b PROVE SameClosure(request, SettledWith(request, b))
  <2>1. PICK r : r = SettledWith(request, b)
    OBVIOUS
  <2>2. SameClosure(request, r)
    BY <2>1 DEF SameClosure, SettledWith, NextObligation, IsRequest
  <2> QED BY <2>1, <2>2
<1>2. ASSUME NEW p, NEW q, NEW s PROVE SameClosure(request, SearchesWith(request, p, q, s))
  <2>1. PICK r : r = SearchesWith(request, p, q, s)
    OBVIOUS
  <2>2. SameClosure(request, r)
    BY <2>1 DEF SameClosure, SearchesWith, IsRequest
  <2> QED BY <2>1, <2>2
<1>3. PICK r, o, b : r = request' /\ o = Head(request.owed) /\ b = request.burden + o.weight
  OBVIOUS
<1>4. CASE StartSearch
  <2>1. PICK q, s : q = <<o.from>> /\ s = {o.from}
    OBVIOUS
  <2>2. r = SearchesWith(request, "search", q, s) \/ r = SettledWith(request, b)
    BY <1>3, <1>4, <2>1 DEF StartSearch, SettledWith, SearchesWith
  <2> QED BY <1>1, <1>2, <1>3, <2>2
<1>5. CASE Search
  <2>1. PICK next : next = Neighbours(Adjacency(request.candidate), {Head(request.queue)})
    OBVIOUS
  <2>2. PICK q, s, c, p : /\ q = Tail(request.queue) \o SetToSeq(next \ request.seen)
                          /\ s = request.seen \cup next /\ c = request.burden
                          /\ p = request.phase
    OBVIOUS
  <2>3. \/ r = NextObligation([request EXCEPT !.phase = "burden"])
        \/ r = SettledWith(request, b)
        \/ r = [request EXCEPT !.queue = q, !.seen = s]
    BY <1>3, <1>5, <2>1, <2>2 DEF Search, SettledWith
  <2>4. [request EXCEPT !.queue = q, !.seen = s] = SearchesWith(request, p, q, s)
    BY <2>2 DEF IsRequest, SearchesWith
  <2>5. [request EXCEPT !.phase = "burden"] = [request EXCEPT !.phase = "burden", !.burden = c]
    BY <2>2 DEF IsRequest
  <2>6. NextObligation([request EXCEPT !.phase = "burden"]) = SettledWith(request, c)
    BY <2>5 DEF SettledWith
  <2>7. \/ r = SettledWith(request, c) \/ r = SettledWith(request, b)
        \/ r = SearchesWith(request, p, q, s)
    BY <2>3, <2>4, <2>6
  <2> QED BY <1>1, <1>2, <1>3, <2>7
<1> QED BY <1>4, <1>5

\* What outlives a step of the graph is scored and lent alike before and after it.
SurvivorsAlike ==
  /\ \A r \in residuals' : ScoresAlike(graph, graph', r.event)
  /\ \A k \in posteriors' : KeyAlike(graph, graph', k)
  /\ \A r \in residuals' : KeyAlike(graph, graph', r.key)

LEMMA PublishKeepsInfluence ==
  ASSUME InfluenceInv, ClosureRadius >= 1, request # NoRequest, NEW nodes, NEW edges,
         PublishSnap(nodes, edges)
  PROVE InfluenceInv' /\ SurvivorsAlike
<1>1. /\ graph = request.base /\ graph' = request.candidate /\ version' = version + 1
      /\ request' = NoRequest /\ Measured
  BY DEF PublishSnap
<1>2. /\ WellFormed(graph) /\ version \in Int /\ WellFormed(request.candidate) /\ Closing(request)
  BY DEF InfluenceInv
<1>3. PICK events, keys : /\ events = ClosureEvents(graph, graph', request.affected)
                          /\ keys = ClosureKeys(graph, graph', request.affected)
  OBVIOUS
<1>4. /\ posteriors' = posteriors \ keys
      /\ residuals' = Untouched(events, keys)
      /\ snap' = [published |-> TRUE, previous |-> graph, version |-> version + 1,
                  events |-> events, keys |-> keys]
  BY <1>1, <1>3 DEF PublishSnap
<1>5. request.depth # 0
  BY <1>1, <1>2, ClosureRadiusAssumption DEF Measured, Closing
<1>6. HoldsInfluence(graph, graph', request.affected)
  BY <1>1, <1>2, <1>5 DEF Closing
<1>7. PICK g, h, a : g = graph /\ h = graph' /\ a = request.affected
  OBVIOUS
<1>8. WellFormed(g) /\ WellFormed(h) /\ HoldsInfluence(g, h, a)
  BY <1>1, <1>2, <1>6, <1>7
<1>9. ASSUME NEW e, e \notin events PROVE ScoresAlike(graph, graph', e)
  <2>1. e \notin ClosureEvents(g, h, a)
    BY <1>3, <1>7, <1>9
  <2> QED BY <1>7, <1>8, <2>1, OutsideClosure
<1>10. ASSUME NEW k, k \notin keys PROVE KeyAlike(graph, graph', k)
  <2>1. k \notin ClosureKeys(g, h, a)
    BY <1>3, <1>7, <1>10
  <2> QED BY <1>7, <1>8, <2>1, KeyOutsideClosure
<1>11. /\ snap'.version = version' /\ snap'.previous = graph /\ snap'.events = events
       /\ snap'.keys = keys /\ version' \in Int
  BY <1>1, <1>2, <1>4
<1>12. snap'.version <= version'
  BY <1>11
<1>13. InfluenceInv'
  BY <1>1, <1>2, <1>9, <1>10, <1>11, <1>12 DEF InfluenceInv
<1>14. SurvivorsAlike
  BY <1>4, <1>9, <1>10 DEF SurvivorsAlike, Untouched
<1> QED BY <1>13, <1>14

LEMMA RollbackKeepsInfluence ==
  ASSUME InfluenceInv, RollbackSnap
  PROVE InfluenceInv' /\ SurvivorsAlike
<1>1. /\ snap.published /\ snap.version = version /\ graph' = snap.previous
      /\ version' = version + 1 /\ posteriors' = posteriors \ snap.keys
      /\ residuals' = Untouched(snap.events, snap.keys)
      /\ snap' = snap /\ request' = request
  BY DEF RollbackSnap
<1>2. /\ version \in Int /\ WellFormed(snap.previous)
      /\ \A e : e \notin snap.events => ScoresAlike(snap.previous, graph, e)
      /\ \A k : k \notin snap.keys => KeyAlike(snap.previous, graph, k)
  BY <1>1 DEF InfluenceInv
<1>3. version' \in Int /\ snap.version <= version' /\ snap.version # version' /\ snap.version \in Int
  BY <1>1, <1>2
<1>4. InfluenceInv'
  BY <1>1, <1>2, <1>3 DEF InfluenceInv
<1>5. ASSUME NEW e, e \notin snap.events PROVE ScoresAlike(graph, graph', e)
  BY <1>1, <1>2, <1>5 DEF ScoresAlike
<1>6. ASSUME NEW k, k \notin snap.keys PROVE KeyAlike(graph, graph', k)
  BY <1>1, <1>2, <1>6 DEF KeyAlike, LendsAlike
<1>7. SurvivorsAlike
  BY <1>1, <1>5, <1>6 DEF SurvivorsAlike, Untouched
<1> QED BY <1>4, <1>7

LEMMA InfluenceInvNext ==
  ASSUME InfluenceInv, ClosureRadius >= 1, [SnapNext]_snapVars
  PROVE InfluenceInv' /\ (graph' # graph => SurvivorsAlike)
<1>1. ASSUME UNCHANGED <<graph, version, snap>>, request' \in {request, NoRequest}
      PROVE InfluenceInv'
  BY <1>1 DEF InfluenceInv
<1>2. CASE \E h \in Candidates, obligations \in ObligationLists : Propose(h, obligations)
  <2>1. PICK h \in Candidates, obligations \in ObligationLists : Propose(h, obligations)
    BY <1>2
  <2>2. graph' = graph
    BY <2>1 DEF Propose
  <2> QED BY <2>1, <2>2, ProposeKeepsInfluence
<1>3. CASE Expand
  <2>1. graph' = graph
    BY <1>3 DEF Expand
  <2> QED BY <1>3, <2>1, ExpandKeepsInfluence
<1>4. CASE StartSearch \/ Search
  <2>1. /\ request # NoRequest /\ UNCHANGED <<graph, version, snap>>
        /\ request.phase # "closure" \/ request.depth = ClosureRadius
    BY <1>4 DEF StartSearch, Search, NoRequest
  <2>2. IsRequest(request)
    BY <2>1 DEF InfluenceInv
  <2>3. PICK r : r = request'
    OBVIOUS
  <2>4. SameClosure(request, r)
    BY <1>4, <2>1, <2>2, <2>3, SearchFields
  <2>5. InfluenceInv'
    BY <2>1, <2>3, <2>4, BurdenKeepsInfluence
  <2> QED BY <2>1, <2>5
<1>5. CASE /\ request.phase # "none"
           /\ \E nodes \in SUBSET DOMAIN request.candidate.nodes,
                 edges \in SUBSET DOMAIN request.candidate.edges : PublishSnap(nodes, edges)
  <2>1. request # NoRequest
    BY <1>5 DEF NoRequest
  <2> QED BY <1>5, <2>1, PublishKeepsInfluence
<1>6. CASE RefuseSnap
  BY <1>1, <1>6 DEF RefuseSnap
<1>7. CASE RollbackSnap
  BY <1>7, RollbackKeepsInfluence
<1>8. CASE (\E k \in Keys : LearnPosterior(k)) \/ (\E r \in Residuals : LearnResidual(r))
  BY <1>1, <1>8 DEF LearnPosterior, LearnResidual
<1>9. CASE UNCHANGED snapVars
  BY <1>1, <1>9 DEF snapVars
<1> QED BY <1>2, <1>3, <1>4, <1>5, <1>6, <1>7, <1>8, <1>9 DEF SnapNext

\* With a closure of radius 1 or more, for any graphs: a residual that outlives a
\* publication or a rollback has a source event whose compatibility score is the
\* same in both graphs, and the key of a posterior or residual that outlives it is
\* declared only by nodes that are in both graphs and are lent the same in both,
\* whatever the recall nominates.
THEOREM InfluencedIsForgotten == ASSUME ClosureRadius >= 1 PROVE SnapSpec => InfluencedForgotten
<1>1. SnapInit => InfluenceInv
  BY InfluenceInvInit
<1>2. InfluenceInv /\ [SnapNext]_snapVars => InfluenceInv'
  BY InfluenceInvNext
<1>3. InfluenceInv /\ [SnapNext]_snapVars
        => [graph' # graph =>
              /\ \A r \in residuals' : SameCompatibility(graph, graph', r.event)
              /\ \A k \in posteriors' \cup {r.key : r \in residuals'} :
                   \A n \in Declarers(graph, k) \cup Declarers(graph', k) :
                     SameInfluence(graph, graph', n)]_snapVars
  <2>1. ASSUME NEW e, ScoresAlike(graph, graph', e) PROVE SameCompatibility(graph, graph', e)
    BY <2>1 DEF ScoresAlike, SameCompatibility
  <2>2. ASSUME NEW k, KeyAlike(graph, graph', k), NEW n \in Declarers(graph, k) \cup Declarers(graph', k)
        PROVE SameInfluence(graph, graph', n)
    BY <2>2 DEF KeyAlike, LendsAlike, SameInfluence
  <2>3. ASSUME SurvivorsAlike
        PROVE /\ \A r \in residuals' : SameCompatibility(graph, graph', r.event)
              /\ \A k \in posteriors' \cup {r.key : r \in residuals'} :
                   \A n \in Declarers(graph, k) \cup Declarers(graph', k) :
                     SameInfluence(graph, graph', n)
    BY <2>1, <2>2, <2>3 DEF SurvivorsAlike
  <2> QED BY <2>3, InfluenceInvNext
<1> QED BY <1>1, <1>2, <1>3, PTL DEF SnapSpec, InfluencedForgotten
=============================================================================
