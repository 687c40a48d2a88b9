----------------------------- MODULE MCPlanning -----------------------------
(***************************************************************************)
(* Instances of the computations behind a decision, for TLC: the tau       *)
(* planner, the publication of a graph, and the order and packet of a      *)
(* recall.  A behaviour exercises one of them.                             *)
(***************************************************************************)
EXTENDS TauPlanner, SnapClosure, RecallOrder

Frame(session, occurred, kind) ==
  [session |-> session, occurred |-> occurred, available |-> occurred, kind |-> kind]

\* The origin, and closed episodes of two sessions, of which a3 to b3 overlaps
\* its neighbours.
MCFrames ==
  ("o" :> Frame(1, -1, "start"))
  @@ ("a1" :> Frame(1, -20, "start")) @@ ("b1" :> Frame(1, -17, "goal"))
  @@ ("a2" :> Frame(1, -15, "start")) @@ ("b2" :> Frame(1, -7, "tau_no_event"))
  @@ ("a3" :> Frame(1, -18, "start")) @@ ("b3" :> Frame(1, -14, "goal"))
  @@ ("a4" :> Frame(2, -30, "start")) @@ ("b4" :> Frame(2, -25, "goal"))

Law(w1, w2, tv) ==
  [origin |-> -1, issued |-> 0, validUntil |-> 6, horizon |-> 7, tv |-> tv,
   points |-> <<[mark |-> "goal", delay |-> 4, weight |-> w1],
                [mark |-> "other", delay |-> 5, weight |-> 1],
                [mark |-> "goal", delay |-> 7, weight |-> w2]>>,
   none |-> 5 - w1 - w2, total |-> 6]

Policy(lead, window, quiet, delays) ==
  [target |-> "goal", benefit |-> 4, falseCost |-> 1, turnCost |-> 0,
   minProbability |-> 1, margin |-> 1, lead |-> lead, window |-> window,
   slack |-> 2, minDelay |-> 1, cooldown |-> 2, quiet |-> quiet,
   supplied |-> delays # <<>>, delays |-> delays]

Request(law, policy) ==
  [plan |-> "plan", session |-> 1, origin |-> "o", evidence |-> {}, law |-> law,
   policy |-> policy, episodes |-> <<>>, bins |-> <<>>]

Supplied ==
  {Request(Law(w[1], w[2], tv), Policy(lead, window, quiet, delays)) :
     w \in {<<0, 1>>, <<0, 4>>, <<1, 4>>, <<4, 0>>, <<4, 1>>}, tv \in {0, 1}, lead \in {0, 1}, window \in {2, 4},
     quiet \in {NoQuiet, <<3, 0>>, <<1, 2>>, <<2, 1>>}, delays \in {<<>>, <<1, 2, 4>>}}

Episode(a, o, none) == [anchor |-> a, outcome |-> o, noEvent |-> none]

Fits ==
  {[Request(Law(0, 0, 0), Policy(0, 4, NoQuiet, <<>>)) EXCEPT !.episodes = eps, !.bins = <<4, 7>>] :
     eps \in {<<Episode("a1", "b1", FALSE)>>,
              <<Episode("a1", "b1", FALSE), Episode("a2", "b2", TRUE)>>,
              <<Episode("a1", "b1", FALSE), Episode("a3", "b3", FALSE)>>,
              <<Episode("a4", "b4", FALSE), Episode("a1", "b1", FALSE)>>,
              <<Episode("a1", "b1", FALSE), Episode("a4", "b4", FALSE)>>}}

\* A request, and a second one of the same plan with another policy.
MCOffers == {{r, [r EXCEPT !.policy.margin = 2]} : r \in Supplied \cup Fits}

PlannerSymmetry == Permutations(Planners)

NodeIds == {"n1", "n2", "n3"}

Partial(S, T) == UNION {[D -> T] : D \in SUBSET S}

Node(members, keys) == [members |-> members, keys |-> keys]

Edge(from, to, effect, weight) == [from |-> from, to |-> to, effect |-> effect, weight |-> weight]

\* Up to two edges between three nodes.
Edges ==
  LET As == {<<>>, "a" :> Edge("n1", "n2", "supersedes", 1)}
            \cup {"a" :> Edge("n1", "n2", "compatible", w) : w \in {1, 2}}
      Bs == {<<>>} \cup {"b" :> Edge(from, "n3", "supports", 1) : from \in {"n1", "n2"}}
  IN {x @@ y : x \in As, y \in Bs}

\* A node may hold events without declaring a key, and declare one without events.
Nodes == {Node({}, {"ap"}), Node({"e1"}, {}), Node({"e2"}, {"e2"}), Node({"e1", "e2"}, {"ap"})}

MCCandidates ==
  {[nodes |-> nodes, edges |-> edges] : nodes \in Partial(NodeIds, Nodes), edges \in Edges}

MCPublished ==
  LET path == ("a" :> Edge("n1", "n2", "compatible", 1)) @@ ("b" :> Edge("n2", "n3", "supports", 1))
  IN {[nodes |-> <<>>, edges |-> <<>>],
      [nodes |-> ("n1" :> Node({"e1"}, {})) @@ ("n2" :> Node({"e2"}, {"e2"}))
                @@ ("n3" :> Node({"e1", "e2"}, {"ap"})),
       edges |-> path],
      [nodes |-> ("n1" :> Node({"e2"}, {"e2"})) @@ ("n2" :> Node({"e1"}, {}))
                @@ ("n3" :> Node({}, {"ap"})),
       edges |-> path]}

\* Residuals of an event's own posterior, which no node declares, and of a shared one.
MCResiduals == {[event |-> "e1", key |-> "e1"], [event |-> "e2", key |-> "ap"]}

Obligation(from, to) == [from |-> from, to |-> to, weight |-> 1]

MCObligations == {<<>>, <<Obligation("n3", "n1"), Obligation("n2", "n4")>>}

\* A recalled candidate: its base score and correction, its claim, the bucket it
\* is certified for, its tokens and its place in the frontier.
Candidate(base, correction, claim, key, tokens, available) ==
  [base |-> base, correction |-> correction, claim |-> claim, lineage |-> 1,
   distinct |-> FALSE, occurrence |-> 0, key |-> key, tokens |-> tokens,
   activation |-> base, available |-> available, critical |-> FALSE,
   members |-> {}, representative |-> 0]

\* Three assertions of one event, with or without another word.
Assertion == {"bus", "stops", "here"}

\* Candidates of different claims, one of which stands for the other two.
Scored ==
  {[i \in 1..3 |-> [Candidate(f[i][1], f[i][2], {}, Plain, 1, i)
                      EXCEPT !.members = IF i = 1 THEN {2, 3} ELSE {},
                             !.representative = IF i = 1 THEN 2 ELSE 0]] :
     f \in [1..3 -> {0, 3} \X {-1, 1}]}

\* Candidates of one claim in different buckets, the last one critical.
Repeated ==
  {[i \in 1..3 |-> [Candidate(5 - i, 0, f[i][1], f[i][2], f[i][3], i) EXCEPT !.critical = (i = 3)]] :
     f \in [1..3 -> {Assertion, Assertion \cup {"daily"}} \X {Plain, "x", "y"} \X {1, 2}]}

MCFrontiers == Scored \cup Repeated

\* What the cross-encoder may answer for a frontier.
MCAnswers(f) ==
  LET all == UNION {{[ranked |-> r, scores |-> s] : r \in SetToSeqs(S), s \in [S -> {0, 3}]} :
                      S \in SUBSET DOMAIN f}
  IN IF f \in Scored THEN all ELSE {[ranked |-> <<2>>, scores |-> 2 :> 4]}

VARIABLE part   \* which part this behaviour exercises

planningVars == <<part, plannerVars, snapVars, orderVars>>

\* Each part varies its own inputs.
PlanningInit ==
  /\ part \in {"turns", "snaps", "order"}
  /\ offer \in IF part = "turns" THEN Offers ELSE {CHOOSE o \in Offers : TRUE}
  /\ graph \in IF part = "snaps" THEN Published ELSE {CHOOSE g \in Published : TRUE}
  /\ frontier \in IF part = "order" THEN Frontiers ELSE {CHOOSE f \in Frontiers : TRUE}
  /\ resolution \in IF part = "order" THEN {"auto", "coarse", "fine"} ELSE {"auto"}
  /\ PlannerInit /\ SnapInit /\ OrderInit

PlannerPart ==
  part = "turns" /\ PlannerNext /\ UNCHANGED <<part, snapVars, orderVars>>

SnapPart ==
  part = "snaps" /\ SnapNext /\ UNCHANGED <<part, plannerVars, orderVars>>

OrderPart ==
  part = "order" /\ OrderNext /\ UNCHANGED <<part, plannerVars, snapVars>>

PlanningSpec ==
  PlanningInit /\ [][PlannerPart \/ SnapPart \/ OrderPart]_planningVars
=============================================================================
