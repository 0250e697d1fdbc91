------------------------------ MODULE Forecast ------------------------------
(***************************************************************************)
(* The live forecast: GamForecastSource's snapshot, refreshed by cycles    *)
(* that ask GAM for one family and period after the other                  *)
(* (forecast/gam-source.ts, server.ts startGamRefresh), and what           *)
(* check_availability answers from it (forecast/engine.ts,                 *)
(* forecast/disclosure-policy.ts).  The boot awaits the first cycle; a     *)
(* timer starts the others and waits for none, so a slow cycle may overlap *)
(* the next one.                                                           *)
(*                                                                         *)
(* One clock stands for the milliseconds and for the network's calendar.   *)
(* An answer is a function of the snapshot: the handler awaits nothing     *)
(* outside the process, so no refresh step falls inside it, and the        *)
(* properties quantify over every request instead of storing answers.      *)
(***************************************************************************)
EXTENDS Integers, FiniteSets

CONSTANTS
    Families,         \* sequence: the families of gam.json, in order
    Periods,          \* sequence: the periods, in order
    OpensAt,          \* period -> the first day a cycle asks for it (0: listed in gam.json)
    StartsAt, EndsAt, \* period -> its first and its last day
    Reading,          \* what GAM may answer: records of units and viewable (-1: not forecast)
    Policy,           \* disclosure policies a publisher may choose
    Request,          \* impressions a buyer may ask for
    Entitlement,      \* sets of families a buyer may be entitled to (catalog.discover)
    Interval,         \* GAM_REFRESH_INTERVAL_MS
    MaxStaleness,     \* GAM_MAX_STALENESS_MS
    MaxAlternatives,  \* MAX_ALTERNATIVES
    Cycle,            \* refresh cycles that may overlap
    MaxDigits,        \* bound: decimal digits of a figure
    MaxCycle,         \* bound: how long GAM's answers may stretch a cycle
    MaxTime,          \* bound: the clock
    MaxRefreshes      \* bound: how often the timer fires

Pair == {Families[i] : i \in DOMAIN Families} \X {Periods[i] : i \in DOMAIN Periods}
Decade(k) == 10^k
NoEntry == [asked |-> -1]

ASSUME ForecastConstants ==
    /\ Interval \in Nat \ {0} /\ MaxStaleness \in Nat /\ MaxAlternatives \in Nat
    /\ MaxCycle \in Nat /\ MaxTime \in Nat /\ MaxRefreshes \in Nat
    /\ Reading \subseteq [units : Nat, viewable : Int]
    /\ \A r \in Reading : r.viewable \in -1..r.units /\ r.units < Decade(MaxDigits)
    /\ DOMAIN Families \subseteq Nat /\ IsFiniteSet(DOMAIN Families)
    /\ DOMAIN Periods \subseteq Nat /\ IsFiniteSet(DOMAIN Periods)
    /\ \A i \in DOMAIN Periods :
          OpensAt[Periods[i]] \in Int /\ StartsAt[Periods[i]] \in Int /\ EndsAt[Periods[i]] \in Int
    /\ Request \subseteq Nat \ {0}

\* parseDisclosurePolicy, which refuses the others.  A haircut is a percentage here, the
\* ladder's mantissas are in tenths.
ASSUME DisclosurePolicies ==
    /\ Policy \subseteq [figures : Nat \ {0}, ladder : SUBSET (10..99), haircut : 1..100, least : Nat]
    /\ \A p \in Policy : p.ladder = {} \/ 10 \in p.ladder

\* What the model takes of arithmetic: powers of ten, as far as the figures go.
ASSUME PowersOfTen ==
    /\ MaxDigits \in Nat \ {0} /\ Decade(0) = 1
    /\ \A k \in 0..(MaxDigits - 1) : Decade(k + 1) = 10 * Decade(k)

VARIABLES
    now,       \* the clock
    network,   \* has the network ever been read?
    snapshot,  \* pair -> its last reading, when it came (fetchedAt), when it was asked for
    serving,   \* has the boot got past the first cycle?
    due,       \* when the refresh timer fires next
    cycle,     \* the running cycles
    refreshes  \* how often the timer has fired

vars == <<now, network, snapshot, serving, due, cycle, refreshes>>

-----------------------------------------------------------------------------
Idle == [at |-> "idle", began |-> 0, sent |-> 0, todo |-> {}]
Begin(t) == [at |-> "network", began |-> t, sent |-> t, todo |-> {}]

\* startGamRefresh: the boot's own cycle is under way.
Init ==
    /\ now = 0 /\ network = FALSE /\ serving = FALSE /\ due = 0 /\ refreshes = 0
    /\ snapshot = [q \in Pair |-> NoEntry]
    /\ \E c \in Cycle : cycle = [x \in Cycle |-> IF x = c THEN Begin(0) ELSE Idle]

Tick ==
    /\ now < MaxTime
    /\ \A c \in Cycle : cycle[c].at # "idle" => now < cycle[c].began + MaxCycle
    /\ now' = now + 1
    /\ UNCHANGED <<network, snapshot, serving, due, cycle, refreshes>>

StartCycle(c) ==
    /\ serving /\ now >= due /\ cycle[c].at = "idle"
    /\ refreshes < MaxRefreshes /\ refreshes' = refreshes + 1
    /\ cycle' = [cycle EXCEPT ![c] = Begin(now)]
    /\ due' = now + Interval
    /\ UNCHANGED <<now, network, snapshot, serving>>

\* The rest of a cycle: the next request leaves, or the cycle returns its report.  The
\* boot's cycle returning lets the node serve and sets the timer.
Proceed(c, todo) ==
    /\ cycle' = [cycle EXCEPT ![c] = IF todo = {} THEN Idle
                                     ELSE [@ EXCEPT !.at = "ask", !.sent = now, !.todo = todo]]
    /\ serving' = (serving \/ todo = {})
    /\ due' = IF serving' /\ ~serving THEN now + Interval ELSE due

\* compareDates of the parsed period's last day and the day of the cycle.
IsOver(p, today) == EndsAt[p] < today

\* Mutant: a period that is over is asked for like any other.
InWindowForever(p, today) == OpensAt[p] <= today

\* A period a cycle of that day asks for: listed or in the rolling window, and not over.
InWindow(p, today) == OpensAt[p] <= today /\ ~IsOver(p, today)

\* The pairs a cycle of that day asks for, named by their places in the two lists.
Pairs(today) == {i \in (DOMAIN Families) \X (DOMAIN Periods) : InWindow(Periods[i[2]], today)}

\* They are asked for family by family, and period by period.
First(todo) == CHOOSE i \in todo : \A j \in todo : i[1] < j[1] \/ (i[1] = j[1] /\ i[2] <= j[2])

Asked(c) == LET i == First(cycle[c].todo) IN <<Families[i[1]], Periods[i[2]]>>
Rest(c) == cycle[c].todo \ {First(cycle[c].todo)}

NetworkRead(c) ==
    /\ cycle[c].at = "network"
    /\ network' = TRUE
    /\ Proceed(c, Pairs(now))
    /\ UNCHANGED <<now, snapshot, refreshes>>

\* A cycle that cannot read the network asks for nothing.
NetworkFails(c) ==
    /\ cycle[c].at = "network"
    /\ Proceed(c, {})
    /\ UNCHANGED <<now, network, snapshot, refreshes>>

Entry(r, asked) == [units |-> r.units, viewable |-> r.viewable, fetchedAt |-> now, asked |-> asked]

\* Mutant: the entry's age is counted from the next firing of the timer.
PairAnsweredEarly(c, r) ==
    /\ cycle[c].at = "ask"
    /\ snapshot' = [snapshot EXCEPT ![Asked(c)] =
                        [Entry(r, cycle[c].sent) EXCEPT !.fetchedAt = due]]
    /\ Proceed(c, Rest(c))
    /\ UNCHANGED <<now, network, refreshes>>

PairAnswered(c, r) ==
    /\ cycle[c].at = "ask"
    /\ snapshot' = [snapshot EXCEPT ![Asked(c)] = Entry(r, cycle[c].sent)]
    /\ Proceed(c, Rest(c))
    /\ UNCHANGED <<now, network, refreshes>>

\* Mutant: a failed pair's old entry is stamped as if it had just been read.
PairFailsRestamped(c) ==
    /\ cycle[c].at = "ask"
    /\ LET q == Asked(c)
       IN  snapshot' = IF snapshot[q] = NoEntry THEN snapshot
                       ELSE [snapshot EXCEPT ![q].fetchedAt = now]
    /\ Proceed(c, Rest(c))
    /\ UNCHANGED <<now, network, refreshes>>

\* A fault, or an answer without a number: the pair keeps its previous entry.
PairFails(c) ==
    /\ cycle[c].at = "ask"
    /\ Proceed(c, Rest(c))
    /\ UNCHANGED <<now, network, snapshot, refreshes>>

Next ==
    \/ Tick
    \/ \E c \in Cycle : \/ StartCycle(c) \/ NetworkRead(c) \/ NetworkFails(c) \/ PairFails(c)
                        \/ \E r \in Reading : PairAnswered(c, r)

Spec == Init /\ [][Next]_vars

-----------------------------------------------------------------------------
(* What a buyer is told. *)

\* The staleness test of freshEntry and of listAvailability.
Fresh(q) == snapshot[q] # NoEntry /\ now - snapshot[q].fetchedAt <= MaxStaleness

\* freshEntry's refusals, for a configured family.
Refusal(q) ==
    IF snapshot[q] # NoEntry THEN "stale" ELSE IF network THEN "unknown_period" ELSE "not_ready"

Digits(n) == CHOOSE d \in 1..MaxDigits : Decade(d - 1) <= n /\ n < Decade(d)

\* Significant figures, or the highest step of the ladder (its mantissas in tenths).
RoundDown(n, policy) ==
    LET d == Digits(n)
        unit == Decade(IF d > policy.figures THEN d - policy.figures ELSE 0)
        steps == {(m * Decade(d - 1) + 5) \div 10 : m \in policy.ladder}
    IN  IF policy.ladder = {} THEN (n \div unit) * unit
        ELSE CHOOSE s \in steps : s <= n /\ \A t \in steps : t <= n => t <= s

\* quantizeAvailability: haircut (a percentage), the least quantity, then round down.
Quantize(units, policy) ==
    LET offered == (units * policy.haircut) \div 100
    IN  IF units <= 0 \/ offered < 1 \/ offered < policy.least THEN 0
        ELSE RoundDown(offered, policy)

Commercial(q, policy) == Quantize(snapshot[q].units, policy)

\* ForecastEngine.viewable; -1 is null.
Viewable(q, policy) ==
    IF snapshot[q].viewable = -1 THEN -1 ELSE Quantize(snapshot[q].viewable, policy)

Decide(commercial, requested) ==
    IF commercial <= 0 THEN "unavailable" ELSE IF requested <= commercial THEN "available" ELSE "partial"

Index(s, x) == CHOOSE i \in DOMAIN s : s[i] = x

\* findAlternatives' order: the asked family first, then the earlier start, then the family's
\* name; ties keep the snapshot's order, here the configured one.
SortKey(q, asked) == <<IF q[1] = asked[1] THEN 0 ELSE 1, StartsAt[q[2]],
                       Index(Families, q[1]), Index(Periods, q[2])>>
Precedes(a, b, asked) ==
    LET ka == SortKey(a, asked)
        kb == SortKey(b, asked)
    IN  \E i \in 1..4 : ka[i] < kb[i] /\ \A j \in 1..(i - 1) : ka[j] = kb[j]

\* Mutant: the fit is tested on the estimate, not on the disclosed figure.
CandidatesUnrounded(asked, requested, policy, allowed) ==
    {q \in Pair \ {asked} : Fresh(q) /\ q[1] \in allowed /\ snapshot[q].units >= requested}

Candidates(asked, requested, policy, allowed) ==
    {q \in Pair \ {asked} : Fresh(q) /\ q[1] \in allowed /\ Commercial(q, policy) >= requested}

\* The first MaxAlternatives candidates in that order.
Alternatives(asked, requested, policy, allowed) ==
    LET fits == Candidates(asked, requested, policy, allowed)
    IN  {q \in fits : Cardinality({x \in fits : Precedes(x, q, asked)}) < MaxAlternatives}

\* checkAvailability, for a pair whose entry is fresh (the others are refused).
Answer(q, requested, policy, allowed) ==
    LET status == Decide(Commercial(q, policy), requested)
    IN  [status |-> status, upTo |-> Commercial(q, policy), viewable |-> Viewable(q, policy),
         alternatives |-> IF status = "available" THEN {} ELSE Alternatives(q, requested, policy, allowed)]

-----------------------------------------------------------------------------
\* Type correctness of the snapshot, the timer and the cycles.
TypeOK ==
    /\ now \in 0..MaxTime /\ due \in Nat /\ refreshes \in 0..MaxRefreshes
    /\ network \in BOOLEAN /\ serving \in BOOLEAN
    /\ \A q \in Pair : snapshot[q] # NoEntry =>
           /\ [units |-> snapshot[q].units, viewable |-> snapshot[q].viewable] \in Reading
           /\ 0 <= snapshot[q].asked /\ snapshot[q].asked <= snapshot[q].fetchedAt
           /\ snapshot[q].fetchedAt <= now
    /\ \A c \in Cycle :
           /\ cycle[c].at \in {"idle", "network", "ask"}
           /\ cycle[c].todo \subseteq (DOMAIN Families) \X (DOMAIN Periods)
           /\ (cycle[c].at = "ask") = (cycle[c].todo # {})
           /\ cycle[c].began \in Nat /\ cycle[c].sent \in Nat
           /\ cycle[c].at = "ask" => cycle[c].began <= cycle[c].sent /\ cycle[c].sent <= now

\* The pairs whose figures a buyer can be given now, asked for or as an alternative.
Told == IF serving THEN {q \in Pair : Fresh(q)} ELSE {}

\* No buyer is given a figure that GAM was asked for longer ago than the staleness limit and
\* one slow cycle together, whatever overlaps, fails or answers late.
NoStaleFigure == \A q \in Told : now - snapshot[q].asked <= MaxStaleness + MaxCycle

\* Nothing is offered in a period that has been over for longer than that.
NoOverPeriod == \A q \in Told : now - EndsAt[q[2]] <= MaxStaleness + MaxCycle

\* "The status is decided on the same figure the buyer sees, so the two never contradict each
\* other", and neither do the alternatives: they are fresh, of families the buyer may see, hold the
\* volume asked for in the figure disclosed for them, are offered exactly when they can
\* be and are needed, and another family's only after the asked family's own.  The "viewable
\* impressions within deliverable_up_to" are within it under any haircut, least quantity or
\* rounding.  Nor does a node that answers for one pair call itself not ready for another.
AnswersAgree ==
    /\ Told # {} => \A q \in Pair \ Told : Refusal(q) # "not_ready"
    /\ \A q \in Told, n \in Request, policy \in Policy, allowed \in Entitlement :
           LET a == Answer(q, n, policy, allowed)
               own == {x \in a.alternatives : x[1] = q[1]}
               fitting == {x \in Told \ {q} : x[1] \in allowed /\ Decide(Commercial(x, policy), n) = "available"}
           IN  /\ a.upTo <= snapshot[q].units /\ a.viewable <= a.upTo
               /\ a.status = "available" <=> n <= a.upTo
               /\ a.status = "unavailable" <=> a.upTo = 0
               /\ a.alternatives \subseteq (IF n <= a.upTo THEN {} ELSE fitting)
               /\ Cardinality(a.alternatives) =
                      IF n <= a.upTo THEN 0
                      ELSE IF Cardinality(fitting) < MaxAlternatives THEN Cardinality(fitting) ELSE MaxAlternatives
               /\ a.alternatives # own => {x \in fitting : x[1] = q[1]} \subseteq own

=============================================================================
