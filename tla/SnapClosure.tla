---------------------------- MODULE SnapClosure ----------------------------
(***************************************************************************)
(* Publishing a predictive graph.  The service computes what a candidate   *)
(* graph can influence, the dependency closure of its differences from the *)
(* published one, and what it leaves unresolved; the store then replaces   *)
(* the graph, deactivates the residuals of the closure's events and keys   *)
(* and withdraws the certification of the posteriors of its keys.  What is *)
(* outside goes on being used with the new graph, so the closure must hold *)
(* every event and every declared key whose score the change can alter.    *)
(*                                                                         *)
(* A graph maps node identifiers to their member events and the posterior  *)
(* keys they declare, two lists that nothing ties together, and edge       *)
(* identifiers to their endpoints, effect and weight.  The loops of the    *)
(* closure and of the reachability search are steps.                       *)
(***************************************************************************)
EXTENDS Integers, FiniteSets, Sequences, SequencesExt, Sums

CONSTANTS
  Events,          \* events a node may hold
  Keys,            \* posterior keys a node may declare
  Residuals,       \* residuals that may be learned: a source event and a posterior key
  EdgeIds,         \* identifiers of edges
  Published,       \* graphs a behaviour may start with
  Candidates,      \* graphs a request may propose
  ObligationLists, \* sequences of comparison obligations a request may carry
  MaxNodes, MaxEdges,  \* SnapPolicy.MaxNodes, MaxEdges
  ClosureRadius,   \* SnapPolicy.ClosureRadius
  MaxBurden,       \* SnapPolicy.MaxUnresolvedBurden
  MaxSnaps         \* bound: no request is made from a later graph version

ASSUME ClosureRadiusAssumption == ClosureRadius \in Nat

\* Obligations join distinct ends (UnresolvedBurden refuses the others).
ASSUME SnapRequestsTyped ==
  /\ IsFiniteSet(EdgeIds)
  /\ \A g \in Published \cup Candidates : DOMAIN g.edges \subseteq EdgeIds
  /\ \A list \in ObligationLists :
       /\ list \in Seq(Range(list))
       /\ \A i \in DOMAIN list : list[i].from # list[i].to /\ list[i].weight \in Nat

VARIABLES
  graph,       \* the published graph
  version,     \* its version
  snap,        \* the last publication: its previous graph and its closure
  posteriors,  \* keys of the certified posteriors
  residuals,   \* the active residuals
  request      \* the request under way and the state of its loops

snapVars == <<graph, version, snap, posteriors, residuals, request>>

NoSnap == [published |-> FALSE]
NoRequest == [phase |-> "none"]

ValidateCandidate(g) ==
  /\ Cardinality(DOMAIN g.nodes) <= MaxNodes
  /\ Cardinality(DOMAIN g.edges) <= MaxEdges
  /\ \A i \in DOMAIN g.edges : /\ g.edges[i].from # g.edges[i].to
                               /\ {g.edges[i].from, g.edges[i].to} \subseteq DOMAIN g.nodes
                               /\ g.edges[i].weight > 0

ASSUME PublishedValid == \A g \in Published : ValidateCandidate(g)

(***************************************************************************)
(* CandidateCompatibility: over the nominated events, a node scores the    *)
(* mean of its members, and an edge lends each side's score to the members *)
(* of the other.  Scores are 0 or 1, node scores multiples of 1/Scale.     *)
(***************************************************************************)

Nominations == UNION {[N -> {0, 1}] : N \in SUBSET Events}

\* Divisible by the size of every set of members.
Scale == FoldSet(LAMBDA k, product : k * product, 1, 1..Cardinality(Events))

Nominated(g, n, scores) == g.nodes[n].members \cap DOMAIN scores

NodeScore(g, n, scores) ==
  LET members == Nominated(g, n, scores)
  IN SumFunctionOnSet(scores, members) * (Scale \div Cardinality(members))

\* What edge i lends the members of node n, one of its ends: <<side, score>>.
LentTo(g, i, n, scores) ==
  LET edge == g.edges[i]
      from == NodeScore(g, edge.from, scores)
      to == NodeScore(g, edge.to, scores)
  IN (IF n = edge.from /\ edge.effect = "compatible" THEN {<<"from", to>>} ELSE {})
     \cup (IF n = edge.to
           THEN {<<"to", IF edge.effect = "supersedes" THEN Scale - from ELSE from>>} ELSE {})

\* What edge i lends event e through the nodes that hold it.
Lent(g, i, e, scores) ==
  LET ends == {n \in {g.edges[i].from, g.edges[i].to} : e \in g.nodes[n].members}
  IN UNION {LentTo(g, i, n, scores) : n \in ends}

\* An edge lends only when both of its nodes have a score.
BothScored(g, i, scores) ==
  /\ i \in DOMAIN g.edges
  /\ Nominated(g, g.edges[i].from, scores) # {} /\ Nominated(g, g.edges[i].to, scores) # {}

LentIfScored(g, i, e, scores) == IF BothScored(g, i, scores) THEN Lent(g, i, e, scores) ELSE {}

LentScore(lent) == MapThenSumSet(LAMBDA l : l[2], lent)

CandidateCompatibility(g, e, scores) ==
  LET lent == [i \in EdgeIds |-> LentIfScored(g, i, e, scores)]
      total == [i \in EdgeIds |-> IF lent[i] = {} THEN 0 ELSE LentScore(lent[i]) * g.edges[i].weight]
      weight == [i \in EdgeIds |-> IF lent[i] = {} THEN 0
                                    ELSE Cardinality(lent[i]) * g.edges[i].weight]
  IN [total |-> SumFunctionOnSet(total, EdgeIds), weight |-> SumFunctionOnSet(weight, EdgeIds)]

(***************************************************************************)
(* DependencyClosure.                                                      *)
(***************************************************************************)

Changed(f, g) == {i \in DOMAIN f \cup DOMAIN g :
                    i \notin DOMAIN f \cap DOMAIN g \/ f[i] # g[i]}

Ends(edges, S) == UNION {{edges[i].from, edges[i].to} : i \in S \cap DOMAIN edges}

\* Fault: an edge that is only taken away seeds nothing.
SeedOfCandidate(g, h) == Changed(g.nodes, h.nodes) \cup Ends(h.edges, Changed(g.edges, h.edges))

Seed(g, h) == LET edges == Changed(g.edges, h.edges)
              IN Changed(g.nodes, h.nodes) \cup Ends(g.edges, edges) \cup Ends(h.edges, edges)

Adjacency(g) == {<<g.edges[i].from, g.edges[i].to>> : i \in DOMAIN g.edges}
                \cup {<<g.edges[i].to, g.edges[i].from>> : i \in DOMAIN g.edges}

Neighbours(adjacency, S) == {pair[2] : pair \in {q \in adjacency : q[1] \in S}}

Holds(g, nodes) == UNION {g.nodes[n].members : n \in nodes \cap DOMAIN g.nodes}

Declares(g, nodes) == UNION {g.nodes[n].keys : n \in nodes \cap DOMAIN g.nodes}

ClosureEvents(g, h, nodes) == Holds(g, nodes) \cup Holds(h, nodes)

ClosureKeys(g, h, nodes) == Declares(g, nodes) \cup Declares(h, nodes)

\* PublishPredictiveSnap reads the graph and starts on the closure; a candidate
\* that changes nothing is answered as identical.
Propose(h, obligations) ==
  /\ request = NoRequest
  /\ version < MaxSnaps
  /\ ValidateCandidate(h)
  /\ Seed(graph, h) # {}
  /\ request' = [phase |-> "closure", base |-> graph, version |-> version, candidate |-> h,
                 affected |-> Seed(graph, h), frontier |-> Seed(graph, h), depth |-> 0,
                 obligations |-> obligations, owed |-> obligations, queue |-> <<>>, seen |-> {},
                 burden |-> 0]
  /\ UNCHANGED <<graph, version, snap, posteriors, residuals>>

\* One level of the breadth-first search over both graphs' edges.
Expand ==
  /\ request.phase = "closure"
  /\ request.depth < ClosureRadius
  /\ LET adjacency == Adjacency(request.base) \cup Adjacency(request.candidate)
         next == Neighbours(adjacency, request.frontier) \ request.affected
     IN request' = [request EXCEPT !.affected = @ \cup next, !.frontier = next, !.depth = @ + 1]
  /\ UNCHANGED <<graph, version, snap, posteriors, residuals>>

(***************************************************************************)
(* UnresolvedBurden: the weight of the obligations whose ends no path of   *)
(* the candidate joins, by a queue from each obligation's first end.       *)
(***************************************************************************)

NextObligation(searched) ==
  [searched EXCEPT !.owed = Tail(@), !.queue = <<>>, !.seen = {}]

StartSearch ==
  /\ \/ request.phase = "closure" /\ request.depth = ClosureRadius
     \/ request.phase = "burden"
  /\ request.owed # <<>> /\ request.queue = <<>>
  /\ LET o == Head(request.owed)
     IN request' = IF o.from \in DOMAIN request.candidate.nodes
                   THEN [request EXCEPT !.phase = "search", !.queue = <<o.from>>, !.seen = {o.from}]
                   ELSE NextObligation([request EXCEPT !.phase = "burden", !.burden = @ + o.weight])
  /\ UNCHANGED <<graph, version, snap, posteriors, residuals>>

\* Fault: edges are followed from their first end only.
SearchForward ==
  /\ request.phase = "search"
  /\ LET o == Head(request.owed)
         next == Neighbours({<<request.candidate.edges[i].from, request.candidate.edges[i].to>> :
                               i \in DOMAIN request.candidate.edges}, {Head(request.queue)})
         queue == Tail(request.queue) \o SetToSeq(next \ request.seen)
     IN request' = CASE o.to \in next ->
                          NextObligation([request EXCEPT !.phase = "burden"])
                     [] o.to \notin next /\ queue = <<>> ->
                          NextObligation([request EXCEPT !.phase = "burden", !.burden = @ + o.weight])
                     [] OTHER -> [request EXCEPT !.queue = queue, !.seen = @ \cup next]
  /\ UNCHANGED <<graph, version, snap, posteriors, residuals>>

Search ==
  /\ request.phase = "search"
  /\ LET o == Head(request.owed)
         next == Neighbours(Adjacency(request.candidate), {Head(request.queue)})
         queue == Tail(request.queue) \o SetToSeq(next \ request.seen)
     IN request' = CASE o.to \in next ->
                          NextObligation([request EXCEPT !.phase = "burden"])
                     [] o.to \notin next /\ queue = <<>> ->
                          NextObligation([request EXCEPT !.phase = "burden", !.burden = @ + o.weight])
                     [] OTHER -> [request EXCEPT !.queue = queue, !.seen = @ \cup next]
  /\ UNCHANGED <<graph, version, snap, posteriors, residuals>>

(***************************************************************************)
(* The certificates and gates, then the store: the graph is still the one  *)
(* the closure was computed from, or the publication conflicts.            *)
(***************************************************************************)

Measured == /\ \/ request.phase = "closure" /\ request.depth = ClosureRadius
               \/ request.phase = "burden"
            /\ request.owed = <<>>

Buckets(g, nodes) == {n \in nodes \cap DOMAIN g.nodes : g.nodes[n].members # {}}

TouchedEdges(g, h, nodes) ==
  {i \in DOMAIN h.edges : {h.edges[i].from, h.edges[i].to} \cap nodes # {}}
  \cup {i \in DOMAIN h.edges \cap DOMAIN g.edges : {g.edges[i].from, g.edges[i].to} \cap nodes # {}}

\* validateSnapCertificates: every affected bucket and edge the candidate keeps
\* has a passing certificate.
Certified(nodes, edges) ==
  /\ Buckets(request.candidate, request.affected) \subseteq nodes
  /\ TouchedEdges(request.base, request.candidate, request.affected) \subseteq edges

\* snapInvalidations: the residuals that lose neither their event nor their key.
Untouched(events, keys) == {r \in residuals : r.event \notin events /\ r.key \notin keys}

PublishSnap(nodes, edges) ==
  /\ Measured
  /\ Certified(nodes, edges)
  /\ request.burden <= MaxBurden
  /\ graph = request.base /\ version = request.version
  /\ LET events == ClosureEvents(request.base, request.candidate, request.affected)
         keys == ClosureKeys(request.base, request.candidate, request.affected)
     IN /\ posteriors' = posteriors \ keys
        /\ residuals' = Untouched(events, keys)
        /\ snap' = [published |-> TRUE, previous |-> graph, version |-> version + 1,
                    events |-> events, keys |-> keys]
  /\ graph' = request.candidate
  /\ version' = version + 1
  /\ request' = NoRequest

\* A certificate is missing, the gates fail, or another publication came first.
RefuseSnap ==
  /\ Measured
  /\ request' = NoRequest
  /\ UNCHANGED <<graph, version, snap, posteriors, residuals>>

\* The last publication is withdrawn, its own closure forgotten again.
RollbackSnap ==
  /\ snap.published /\ snap.version = version
  /\ graph' = snap.previous
  /\ version' = version + 1
  /\ posteriors' = posteriors \ snap.keys
  /\ residuals' = Untouched(snap.events, snap.keys)
  /\ UNCHANGED <<snap, request>>

\* An outcome finds no posterior of the key, or one of an earlier epoch or of
\* another registry, and starts it anew.
LearnPosterior(k) ==
  /\ posteriors' = posteriors \cup {k}
  /\ UNCHANGED <<graph, version, snap, residuals, request>>

\* Likewise the residual of the outcome's event and posterior key.
LearnResidual(r) ==
  /\ residuals' = residuals \cup {r}
  /\ UNCHANGED <<graph, version, snap, posteriors, request>>

SnapInit ==
  /\ graph \in Published
  /\ version = 1
  /\ snap = NoSnap
  /\ posteriors = Keys
  /\ residuals = Residuals
  /\ request = NoRequest

SnapNext ==
  \/ \E h \in Candidates, obligations \in ObligationLists : Propose(h, obligations)
  \/ Expand
  \/ StartSearch
  \/ Search
  \/ /\ request.phase # "none"
     /\ \E nodes \in SUBSET DOMAIN request.candidate.nodes,
           edges \in SUBSET DOMAIN request.candidate.edges : PublishSnap(nodes, edges)
  \/ RefuseSnap
  \/ RollbackSnap
  \/ \E k \in Keys : LearnPosterior(k)
  \/ \E r \in Residuals : LearnResidual(r)

SnapSpec == SnapInit /\ [][SnapNext]_snapVars

(***************************************************************************)
(* Properties                                                              *)
(***************************************************************************)

\* Whatever the nominated events and their scores, graphs g and h give event e
\* the same compatibility.
SameCompatibility(g, h, e) ==
  \A scores \in Nominations : e \in DOMAIN scores =>
    LET before == CandidateCompatibility(g, e, scores)
        after == CandidateCompatibility(h, e, scores)
    IN /\ (before.weight = 0) = (after.weight = 0)
       /\ before.total * after.weight = after.total * before.weight

\* The edges of graph g lend node n's members, edge by edge, with their weight.
Influence(g, n, scores) ==
  [i \in EdgeIds |-> IF BothScored(g, i, scores)
                     THEN {<<g.edges[i].weight, l>> : l \in LentTo(g, i, n, scores)} ELSE {}]

\* Node n is in both graphs, the same, and is lent the same in both.
SameInfluence(g, h, n) ==
  /\ n \in DOMAIN g.nodes \cap DOMAIN h.nodes
  /\ g.nodes[n] = h.nodes[n]
  /\ \A scores \in Nominations : Influence(g, n, scores) = Influence(h, n, scores)

Declarers(g, k) == {n \in DOMAIN g.nodes : k \in g.nodes[n].keys}

\* A residual outlives a publication or a rollback only if the new graph scores
\* its source event as the old one did, and a posterior or a residual of key k
\* only if every node that declares k, in either graph, is in both and is lent
\* the same in both.  So the closure at radius 1 already holds all the change
\* influences (DependencyClosure, snapInvalidations).
InfluencedForgotten ==
  [][graph' # graph =>
       /\ \A r \in residuals' : SameCompatibility(graph, graph', r.event)
       /\ \A k \in posteriors' \cup {r.key : r \in residuals'} :
            \A n \in Declarers(graph, k) \cup Declarers(graph', k) :
              SameInfluence(graph, graph', n)]_snapVars

\* Every set of nodes that holds a and is closed under the edges holds b.
Joined(g, a, b) ==
  /\ a \in DOMAIN g.nodes
  /\ \A S \in SUBSET DOMAIN g.nodes :
       a \in S /\ Neighbours(Adjacency(g), S) \subseteq S => b \in S

\* What each obligation adds to the burden of graph g.
Apart(g, obligations) ==
  [i \in DOMAIN obligations |->
     IF Joined(g, obligations[i].from, obligations[i].to) THEN 0 ELSE obligations[i].weight]

\* The burden the gates test is the weight of exactly those obligations whose
\* ends lie in different components of the candidate (reachable).
BurdenExact ==
  request # NoRequest /\ Measured =>
    request.burden = SumUpTo(Apart(request.candidate, request.obligations),
                             Len(request.obligations))
=============================================================================
