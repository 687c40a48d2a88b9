----------------------------- MODULE TauPlanner -----------------------------
(***************************************************************************)
(* The planner of tau turns: from a law of when something will happen, or  *)
(* from closed episodes it fits one to, it decides whether and when a turn *)
(* is worth scheduling, and issues the decision as one durable proposal.   *)
(* Two callers may plan the same turn at once or again later; the clock    *)
(* each of them reads decides which delivery times are still open.  The    *)
(* requests of a behaviour bind one base snapshot.                         *)
(*                                                                         *)
(* Times are ticks of a second, time 0 a midnight.  A law carries weights  *)
(* out of its own total, where the code keeps the quotients; utilities and *)
(* probabilities of a policy are hundredths, or whatever Unit says, and an *)
(* inequality is multiplied out instead of dividing.                       *)
(***************************************************************************)
EXTENDS Integers, FiniteSets, Sequences, SequencesExt, Sums

CONSTANTS
  Planners,       \* concurrent calls of PlanTauTurn
  Offers,         \* the families of requests a behaviour may send
  Frames,         \* Frames[e]: session, occurred, available and kind of event e
  Kinds,          \* kinds an event may have
  Unit,           \* the 1.0 of a policy's probabilities and utilities
  HourTicks,      \* ticks of an hour
  DayHours,       \* hours of a day
  MinSlack,       \* least dispatch slack the contract admits (2000 ms)
  MinLead,        \* least MinDelayMS (1000 ms)
  MaxEvidence,    \* AgencyPolicy.MaxEvidence
  MaxTime         \* bound of the clock

ASSUME PlannerConstants == /\ Unit \in Nat \ {0}
                           /\ HourTicks \in Nat \ {0}
                           /\ DayHours \in Nat \ {0}

\* What a request is before it is validated: times and masses are whatever
\* numbers it carries, the quiet hours are absent or have both ends.
NoQuiet == <<>>

TauPoint == [mark : Kinds, delay : Int, weight : Int]

TauForecast == [origin : Int, issued : Int, validUntil : Int, horizon : Int, tv : Int,
                points : Seq(TauPoint), none : Int, total : Int]

TauTurnPolicy == [target : Kinds, benefit : Int, falseCost : Int, turnCost : Int,
                  minProbability : Int, margin : Int, lead : Int, window : Int, slack : Int,
                  minDelay : Int, cooldown : Int, quiet : {NoQuiet} \cup (Int \X Int),
                  supplied : BOOLEAN, delays : Seq(Int)]

TauEpisode == [anchor : DOMAIN Frames, outcome : DOMAIN Frames, noEvent : BOOLEAN]

ASSUME RequestsTyped ==
  \A o \in Offers : \A r \in o : /\ r.law \in TauForecast
                                /\ r.policy \in TauTurnPolicy
                                /\ r.bins \in Seq(Int)
                                /\ r.episodes \in Seq(TauEpisode)

VARIABLES
  offer,     \* the requests of this behaviour
  clock,     \* time.Now
  moved,     \* a frozen counter has moved since the requests' base snapshot
  stored,    \* evidence still in the store
  plans,     \* plan -> the proposal issued for it
  planner,   \* planner -> its call
  answered   \* the scheduled answers given, as the callers saw them

plannerVars == <<offer, clock, moved, stored, plans, planner, answered>>

NoPlan == [plan |-> "none"]
NoTurn == [schedule |-> FALSE]
Idle == [pc |-> "idle"]

(***************************************************************************)
(* A law: the weight of each point and of no event at all.                 *)
(***************************************************************************)

Weight(law, S) == SumOver([i \in DOMAIN law.points |-> law.points[i].weight], S, Len(law.points))

\* The points at which the awaited kind of event falls inside [lo, hi].
Useful(law, p, lo, hi) == {i \in DOMAIN law.points : /\ law.points[i].mark = p.target
                                                    /\ law.points[i].delay \in lo..hi}

Atoms(law) == [i \in DOMAIN law.points |-> <<law.points[i].mark, law.points[i].delay>>]

ValidLaw(law, now) ==
  /\ law.issued \in law.origin..now
  /\ law.validUntil > now
  /\ law.horizon >= 1 /\ law.validUntil <= law.origin + law.horizon
  /\ law.tv \in 0..Unit /\ law.none >= 0
  /\ \A i \in DOMAIN law.points : /\ law.points[i].weight >= 0
                                  /\ law.points[i].delay \in 1..law.horizon
                                  /\ i > 1 => law.points[i - 1].delay <= law.points[i].delay
  /\ IsInjective(Atoms(law))
  /\ law.none + Weight(law, DOMAIN law.points) = law.total

ValidPolicy(p, law) ==
  /\ {p.benefit, p.falseCost, p.turnCost, p.minProbability, p.margin} \subseteq 0..Unit
  /\ p.margin > 0
  /\ p.lead >= 0
  /\ p.slack >= MinSlack /\ p.window >= p.slack
  /\ p.minDelay >= MinLead /\ p.cooldown >= p.slack
  /\ p.quiet # NoQuiet => /\ p.quiet[1] \in 0..DayHours - 1
                          /\ p.quiet[2] \in 0..DayHours - 1
                          /\ p.quiet[1] # p.quiet[2]
  /\ \A i \in DOMAIN p.delays : /\ p.delays[i] \in 0..law.horizon
                                /\ i > 1 => p.delays[i - 1] < p.delays[i]

ValidateTau(law, p, now) == ValidLaw(law, now) /\ ValidPolicy(p, law)

(***************************************************************************)
(* Quiet hours: an interval of UTC hours, perhaps across midnight, every   *)
(* day.  No dispatch may fall into it.                                     *)
(***************************************************************************)

Day == HourTicks * DayHours

\* Fault: the interval that began the day before is not looked at.
TauQuietBlockedToday(start, end, p) ==
  /\ p.quiet # NoQuiet
  /\ \E day \in start \div Day .. end \div Day :
       LET lo == day * Day + p.quiet[1] * HourTicks
           hi == day * Day + p.quiet[2] * HourTicks
       IN start < (IF hi > lo THEN hi ELSE hi + Day) /\ end >= lo

TauQuietBlocked(start, end, p) ==
  /\ p.quiet # NoQuiet
  /\ \E day \in (start \div Day) - 1 .. end \div Day :
       LET lo == day * Day + p.quiet[1] * HourTicks
           hi == day * Day + p.quiet[2] * HourTicks
       IN start < (IF hi > lo THEN hi ELSE hi + Day) /\ end >= lo

(***************************************************************************)
(* PlanTau: of the candidate delivery times the one with the greatest      *)
(* utility that the law guarantees for every dispatch inside the slack.    *)
(***************************************************************************)

CandidateDelays(law, p) ==
  IF p.supplied THEN {p.delays[i] : i \in DOMAIN p.delays}
  ELSE {law.points[i].delay - p.lead - p.slack :
          i \in {k \in DOMAIN law.points : law.points[k].mark = p.target}}

\* Out of law.total * Unit.
LowerProbability(law, mass) == Excess(mass * Unit, law.tv * law.total)

\* Out of law.total * Unit * Unit.
Utility(law, p, lower) == (p.benefit + p.falseCost) * lower
                          - (p.falseCost + p.turnCost) * Unit * law.total

\* Fault: the window of a dispatch exactly on time, the slack left out.
TurnOnTime(law, p, offset) ==
  LET mass == Weight(law, Useful(law, p, offset + p.lead, offset + p.lead + p.window))
      lower == LowerProbability(law, mass)
  IN [schedule |-> TRUE, deliverAt |-> law.origin + offset,
      latest |-> law.origin + offset + p.slack, lower |-> lower,
      utility |-> Utility(law, p, lower)]

Turn(law, p, offset) ==
  LET mass == Weight(law, Useful(law, p, offset + p.lead + p.slack, offset + p.lead + p.window))
      lower == LowerProbability(law, mass)
  IN [schedule |-> TRUE, deliverAt |-> law.origin + offset,
      latest |-> law.origin + offset + p.slack, lower |-> lower,
      utility |-> Utility(law, p, lower)]

Admissible(law, p, now, turn) ==
  /\ turn.deliverAt >= now + p.minDelay
  /\ turn.latest <= law.validUntil
  /\ ~TauQuietBlocked(turn.deliverAt, turn.latest, p)
  /\ turn.lower >= p.minProbability * law.total
  /\ turn.utility > p.margin * Unit * law.total

Better(turn, best) ==
  \/ turn.utility > best.utility
  \/ turn.utility = best.utility /\ turn.deliverAt < best.deliverAt

\* The loop keeps the best turn so far; no two turns are equally good.
PlanTau(law, p, now) ==
  LET open == {turn \in {Turn(law, p, offset) : offset \in CandidateDelays(law, p)} :
                 Admissible(law, p, now, turn)}
      best == {turn \in open : \A other \in open : ~Better(other, turn)}
  IN IF best = {} THEN NoTurn ELSE CHOOSE turn \in best : TRUE

(***************************************************************************)
(* FitTau: the law of a histogram that starts every bin, and the absence   *)
(* of the event, at one.                                                   *)
(***************************************************************************)

EpisodeDelay(ep) == Frames[ep.outcome].occurred - Frames[ep.anchor].occurred

EpisodeIds(eps) == [i \in DOMAIN eps |-> eps[i].anchor] \o [i \in DOMAIN eps |-> eps[i].outcome]

InOrder(ep, prior) ==
  \/ Frames[prior.anchor].session < Frames[ep.anchor].session
  \/ /\ Frames[prior.anchor].session = Frames[ep.anchor].session
     /\ Frames[prior.outcome].occurred < Frames[ep.anchor].occurred

ValidEpisode(ep, f, target) ==
  /\ Frames[ep.anchor].session = Frames[ep.outcome].session
  /\ EpisodeDelay(ep) > 0
  /\ \A e \in {ep.anchor, ep.outcome} : Frames[e].available <= f.issued
  /\ IF ep.noEvent
     THEN Frames[ep.outcome].kind = "tau_no_event" /\ EpisodeDelay(ep) >= f.horizon
     ELSE Frames[ep.outcome].kind = target /\ EpisodeDelay(ep) <= f.horizon

ValidFit(r) ==
  /\ \A i \in DOMAIN r.bins : (IF i = 1 THEN 0 ELSE r.bins[i - 1]) < r.bins[i]
  /\ Last(r.bins) = r.law.horizon
  /\ IsInjective(EpisodeIds(r.episodes))
  /\ \A i \in DOMAIN r.episodes : /\ ValidEpisode(r.episodes[i], r.law, r.policy.target)
                                   /\ i > 1 => InOrder(r.episodes[i], r.episodes[i - 1])

FirstBin(bins, delay) == Min({i \in DOMAIN bins : delay <= bins[i]})

FitTau(r) ==
  LET eps == r.episodes
      hits(i) == {k \in DOMAIN eps : ~eps[k].noEvent /\ FirstBin(r.bins, EpisodeDelay(eps[k])) = i}
  IN [r.law EXCEPT
        !.validUntil = r.law.origin + r.law.horizon,
        !.points = [i \in DOMAIN r.bins |-> [mark |-> r.policy.target, delay |-> r.bins[i],
                                            weight |-> 1 + Cardinality(hits(i))]],
        !.none = 1 + Cardinality({k \in DOMAIN eps : eps[k].noEvent}),
        !.total = Len(eps) + Len(r.bins) + 1]

(***************************************************************************)
(* PlanTauTurn.  It reads the clock and looks its plan up; checks the base *)
(* against the snapshot; reads the evidence and decides; and stores the    *)
(* proposal: four steps that others may come between.                      *)
(***************************************************************************)

Fitted(r) == r.episodes # <<>>

EvidenceOf(r) == {r.origin} \cup (IF Fitted(r) THEN Range(EpisodeIds(r.episodes)) ELSE r.evidence)

BoundedEvidence(r) ==
  /\ Cardinality(EvidenceOf(r)) <= MaxEvidence
  /\ Fitted(r) => r.evidence = {} /\ r.origin \notin Range(EpisodeIds(r.episodes))

LawOf(r) == IF Fitted(r) THEN FitTau(r) ELSE r.law

\* The law speaks of the origin frame, and of nothing learnt after its issue.
BindsOrigin(r) ==
  /\ Frames[r.origin].session = r.session
  /\ r.law.origin = Frames[r.origin].occurred
  /\ \A e \in EvidenceOf(r) : Frames[e].available <= r.law.issued

Plannable(r, now) == /\ BindsOrigin(r)
                     /\ Fitted(r) => ValidFit(r) /\ r.law.issued <= now
                     /\ ValidateTau(LawOf(r), r.policy, now)

Answer(r, decision) == [plan |-> r.plan, request |-> r, decision |-> decision]

Return(c) == planner' = [planner EXCEPT ![c] = Idle]

\* Fault: any stored proposal of the plan answers the request.
LookupByPlan(c, r) ==
  /\ planner[c] = Idle
  /\ IF plans[r.plan] = NoPlan
     THEN /\ planner' = [planner EXCEPT ![c] = [pc |-> "base", request |-> r, now |-> clock]]
          /\ UNCHANGED answered
     ELSE /\ answered' = answered \cup {Answer(r, plans[r.plan].decision)}
          /\ UNCHANGED planner
  /\ UNCHANGED <<offer, clock, moved, stored, plans>>

Lookup(c, r) ==
  /\ planner[c] = Idle
  /\ IF plans[r.plan] = NoPlan
     THEN /\ planner' = [planner EXCEPT ![c] = [pc |-> "base", request |-> r, now |-> clock]]
          /\ UNCHANGED answered
     ELSE /\ plans[r.plan].request = r
          /\ answered' = answered \cup {Answer(r, plans[r.plan].decision)}
          /\ UNCHANGED planner
  /\ UNCHANGED <<offer, clock, moved, stored, plans>>

CheckBase(c) ==
  /\ planner[c].pc = "base"
  /\ IF moved \/ ~BoundedEvidence(planner[c].request)
     THEN Return(c)
     ELSE planner' = [planner EXCEPT ![c].pc = "gather"]
  /\ UNCHANGED <<offer, clock, moved, stored, plans, answered>>

\* Without an error and with a turn worth its cost the call goes on to store it.
Decide(c) ==
  /\ planner[c].pc = "gather"
  /\ LET r == planner[c].request
         now == planner[c].now
         ready == /\ \A e \in EvidenceOf(r) : e \in stored /\ Frames[e].available <= now
                  /\ Plannable(r, now)
         decision == IF ready THEN PlanTau(LawOf(r), r.policy, now) ELSE NoTurn
     IN IF decision.schedule
        THEN planner' = [planner EXCEPT ![c] = [pc |-> "put", request |-> r, now |-> now,
                                                decision |-> decision]]
        ELSE Return(c)
  /\ UNCHANGED <<offer, clock, moved, stored, plans, answered>>

\* What BuildProposal asks of a turn's window.
BuildProposal(turn, now) == now < turn.latest /\ turn.deliverAt < turn.latest /\ turn.utility > 0

Proposal(call) == [plan |-> call.request.plan, request |-> call.request,
                   law |-> LawOf(call.request), decision |-> call.decision]

Put(c) ==
  /\ planner[c].pc = "put"
  /\ LET call == planner[c]
         plan == call.request.plan
     IN \/ /\ plans[plan] = NoPlan
           /\ ~moved /\ EvidenceOf(call.request) \subseteq stored
           /\ BuildProposal(call.decision, call.now)
           /\ plans' = [plans EXCEPT ![plan] = Proposal(call)]
           /\ answered' = answered \cup {Answer(call.request, call.decision)}
        \/ /\ plans[plan] = Proposal(call)
           /\ answered' = answered \cup {Answer(call.request, call.decision)}
           /\ UNCHANGED plans
  /\ Return(c)
  /\ UNCHANGED <<offer, clock, moved, stored>>

\* The store refuses: another decision of the plan, a moved snapshot, evidence
\* gone, or, whatever the plan, a blocked opportunity or a full queue.
Refuse(c) ==
  /\ planner[c].pc = "put"
  /\ Return(c)
  /\ UNCHANGED <<offer, clock, moved, stored, plans, answered>>

\* An ingest, a deletion or a publication.
Mutate(removed) ==
  /\ moved' = TRUE
  /\ stored' = stored \ removed
  /\ UNCHANGED <<offer, clock, plans, planner, answered>>

PlannerTick ==
  /\ clock < MaxTime
  /\ clock' = clock + 1
  /\ UNCHANGED <<offer, moved, stored, plans, planner, answered>>

PlannerInit ==
  /\ offer \in Offers
  /\ clock = 0
  /\ moved = FALSE
  /\ stored = DOMAIN Frames
  /\ plans = [p \in {r.plan : r \in offer} |-> NoPlan]
  /\ planner = [c \in Planners |-> Idle]
  /\ answered = {}

PlannerNext ==
  \/ \E c \in Planners : \/ \E r \in offer : Lookup(c, r)
                         \/ CheckBase(c)
                         \/ Decide(c)
                         \/ Put(c)
                         \/ Refuse(c)
  \/ \E removed \in {{}, DOMAIN Frames} : Mutate(removed)
  \/ PlannerTick

PlannerSpec == PlannerInit /\ [][PlannerNext]_plannerVars

(***************************************************************************)
(* Properties                                                              *)
(***************************************************************************)

\* The laws a forecast admits: those within its total-variation radius.  Index 0
\* is the absence of the event.
Laws(law) ==
  LET n == Len(law.points)
      excess(q) == Excess(q[0], law.none)
                   + SumUpTo([i \in 1..n |-> Excess(q[i], law.points[i].weight)], n)
  IN {q \in [0..n -> 0..law.total] : /\ q[0] + SumUpTo(q, n) = law.total
                                     /\ excess(q) * Unit <= law.tv * law.total}

PaysOff(proposal) ==
  LET law == proposal.law
      p == proposal.request.policy
      turn == proposal.decision
  IN \A q \in Laws(law) : \A d \in turn.deliverAt..turn.latest :
       LET from == d - law.origin + p.lead
           hit == SumOver(q, Useful(law, p, from, from + p.window), Len(law.points))
       IN (p.benefit + p.falseCost) * hit - (p.falseCost + p.turnCost) * law.total
            > p.margin * law.total

\* Whatever law within the declared radius is the true one, and whenever
\* inside the slack the turn is really dispatched, a turn that is issued is
\* worth more than the policy's margin (the intersected window of PlanTau).
TurnsPayOff ==
  [][\A plan \in DOMAIN plans : plans'[plan] # plans[plan] => PaysOff(plans'[plan])]_plannerVars

QuietHour(p, h) ==
  IF p.quiet[1] < p.quiet[2] THEN p.quiet[1] <= h /\ h < p.quiet[2]
                             ELSE p.quiet[1] <= h \/ h < p.quiet[2]

\* No admitted dispatch of an issued turn falls into a quiet hour of any day,
\* or outlives the forecast (tauQuietBlocked, across midnight too).
QuietHoursKept ==
  \A plan \in DOMAIN plans : plans[plan] # NoPlan =>
    LET p == plans[plan].request.policy
        turn == plans[plan].decision
    IN \A d \in turn.deliverAt..turn.latest :
         /\ d <= plans[plan].law.validUntil
         /\ p.quiet # NoQuiet => ~QuietHour(p, (d % Day) \div HourTicks)

\* However calls of one plan race, repeat or change their request, every turn
\* a caller was told of is the one turn the queue holds for that plan
\* (request digest on lookup, content digest in the store).
OneTurnPerPlan ==
  \A a \in answered : /\ plans[a.plan] # NoPlan
                      /\ plans[a.plan].request = a.request
                      /\ plans[a.plan].decision = a.decision

=============================================================================
