--------------------------- MODULE ForecastProofs ---------------------------
(***************************************************************************)
(* Theorems about the live forecast, for every configuration of families   *)
(* and periods, every interval and staleness limit, every disclosure       *)
(* policy, and any number of overlapping cycles: type correctness, that    *)
(* neither a stale figure nor a period that is over is offered, and that   *)
(* the parts of an answer agree.                                           *)
(***************************************************************************)
EXTENDS Forecast, FiniteSetTheorems, FunctionTheorems, WellFoundedInduction, TLAPS

Place == (DOMAIN Families) \X (DOMAIN Periods)
CycleRecord == [at : {"idle", "network", "ask"}, began : Nat, sent : Nat, todo : SUBSET Place]
Figure == [units : Nat, viewable : Int, fetchedAt : Nat, asked : Nat]

\* What the cycles and the snapshot are made of.
ShapeInv ==
    /\ cycle \in [Cycle -> CycleRecord]
    /\ snapshot \in [Pair -> Figure \cup {NoEntry}]

\* A running cycle is at most MaxCycle old, sent its last request after it began, and asks
\* for no period that was over when it began.
CycleInv ==
    \A c \in Cycle : cycle[c].at # "idle" =>
        /\ cycle[c].began <= cycle[c].sent /\ cycle[c].sent <= now
        /\ now <= cycle[c].began + MaxCycle
        /\ \A i \in cycle[c].todo : cycle[c].began <= EndsAt[Periods[i[2]]]

\* NoStaleFigure and NoOverPeriod measure an entry's age when a buyer asks.  The staleness
\* limit bounds what happened since the entry came; this bounds what happened before.
ReadInv ==
    \A q \in Pair : snapshot[q] # NoEntry =>
        /\ snapshot[q].fetchedAt <= snapshot[q].asked + MaxCycle
        /\ snapshot[q].fetchedAt <= EndsAt[q[2]] + MaxCycle

ForecastInv == TypeOK /\ ShapeInv /\ CycleInv /\ ReadInv

-----------------------------------------------------------------------------
(* The order in which a cycle asks. *)

\* A set of places or of numbers that is not empty has a least one.
LEMMA LeastExists ==
  ASSUME NEW S, S \subseteq Nat, S # {}
  PROVE  \E x \in S : \A y \in S : x <= y
  <1>1. PICK x \in S : \A y \in S : ~(<<y, x>> \in OpToRel(<, Nat))
    BY NatLessThanWellFounded, WFMin
  <1>2. \A y \in S : ~(y < x)
    BY <1>1 DEF OpToRel
  <1> QED BY <1>2

\* Among the places left there is a first one: the loop over families and periods goes on.
LEMMA FirstExists ==
  ASSUME NEW todo, todo \subseteq Place, todo # {}
  PROVE  First(todo) \in todo
  <1>1. \A i \in todo : i[1] \in Nat /\ i[2] \in Nat
    BY ForecastConstants DEF Place
  <1> DEFINE rows == {i[1] : i \in todo}
  <1>2. PICK r \in rows : \A m \in rows : r <= m
    <2>1. rows \subseteq Nat /\ rows # {}
      BY <1>1
    <2> HIDE DEF rows
    <2> QED BY <2>1, LeastExists
  <1> DEFINE columns == {i[2] : i \in {j \in todo : j[1] = r}}
  <1>3. PICK k \in columns : \A m \in columns : k <= m
    <2>1. columns \subseteq Nat /\ columns # {}
      BY <1>1, <1>2
    <2> HIDE DEF columns
    <2> QED BY <2>1, LeastExists
  <1>4. PICK i \in todo : i[1] = r /\ i[2] = k
    BY <1>3
  <1>5. ASSUME NEW j \in todo
        PROVE  i[1] < j[1] \/ (i[1] = j[1] /\ i[2] <= j[2])
    <2>1. r <= j[1] /\ j[1] \in Nat /\ r \in Nat
      BY <1>1, <1>2
    <2>2. j[1] = r => k <= j[2]
      BY <1>3
    <2> QED BY <1>4, <2>1, <2>2
  <1>6. \E x \in todo : \A j \in todo : x[1] < j[1] \/ (x[1] = j[1] /\ x[2] <= j[2])
    BY <1>5
  <1> QED BY <1>6 DEF First

\* What a cycle asks for next is a pair of the configuration, in its place.
LEMMA AskedFacts ==
  ASSUME NEW c \in Cycle, cycle[c].todo \subseteq Place, cycle[c].todo # {}
  PROVE  /\ Asked(c) \in Pair
         /\ \E i \in cycle[c].todo : Asked(c)[2] = Periods[i[2]]
         /\ Rest(c) \subseteq cycle[c].todo
  <1> DEFINE i == First(cycle[c].todo)
  <1>1. i \in cycle[c].todo /\ i \in Place
    BY FirstExists
  <1>2. Asked(c) = <<Families[i[1]], Periods[i[2]]>>
    BY DEF Asked
  <1>3. i[1] \in DOMAIN Families /\ i[2] \in DOMAIN Periods
    BY <1>1 DEF Place
  <1> HIDE DEF i
  <1>4. Asked(c) \in Pair
    BY <1>2, <1>3 DEF Pair
  <1> QED BY <1>1, <1>2, <1>4 DEF Rest

-----------------------------------------------------------------------------
(* The invariant. *)

\* The boot's first cycle has just begun, and nothing was read.
LEMMA ForecastInit == Init => ForecastInv
  <1> SUFFICES ASSUME Init PROVE ForecastInv
    OBVIOUS
  <1> USE ForecastConstants
  <1>1. PICK b \in Cycle : cycle = [x \in Cycle |-> IF x = b THEN Begin(0) ELSE Idle]
    BY DEF Init
  <1>2. Begin(0) \in CycleRecord /\ Idle \in CycleRecord
    BY DEF Begin, Idle, CycleRecord
  <1>3. cycle \in [Cycle -> CycleRecord]
    BY <1>1, <1>2
  <1>4. \A c \in Cycle : /\ cycle[c].at \in {"idle", "network"} /\ cycle[c].todo = {}
                         /\ cycle[c].began = 0 /\ cycle[c].sent = 0
    BY <1>1 DEF Begin, Idle
  <1>5. snapshot = [q \in Pair |-> NoEntry] /\ now = 0 /\ due = 0 /\ refreshes = 0
        /\ network = FALSE /\ serving = FALSE
    BY DEF Init
  <1>6. TypeOK
    <2>1. now \in 0..MaxTime /\ due \in Nat /\ refreshes \in 0..MaxRefreshes
      BY <1>5
    <2>2. network \in BOOLEAN /\ serving \in BOOLEAN
      BY <1>5, Zenon
    <2>3. \A q \in Pair : snapshot[q] = NoEntry
      BY <1>5
    <2>4. \A c \in Cycle : ((cycle[c].at = "ask") = (cycle[c].todo # {})) /\ cycle[c].at # "ask"
      BY <1>4
    <2> QED BY <1>4, <2>1, <2>2, <2>3, <2>4 DEF TypeOK
  <1>7. ShapeInv
    BY <1>3, <1>5 DEF ShapeInv
  <1>8. CycleInv
    BY <1>4, <1>5 DEF CycleInv
  <1>9. ReadInv
    BY <1>5 DEF ReadInv
  <1> QED BY <1>6, <1>7, <1>8, <1>9 DEF ForecastInv

\* What TypeOK says of one cycle at the time t.
CycleTyped(c, t) ==
    /\ c.at \in {"idle", "network", "ask"}
    /\ c.todo \subseteq Place
    /\ (c.at = "ask") = (c.todo # {})
    /\ c.began \in Nat /\ c.sent \in Nat
    /\ c.at = "ask" => c.began <= c.sent /\ c.sent <= t

\* What CycleInv says of one cycle at the time t.
CycleTimely(c, t) ==
    c.at # "idle" =>
        /\ c.began <= c.sent /\ c.sent <= t
        /\ t <= c.began + MaxCycle
        /\ \A i \in c.todo : c.began <= EndsAt[Periods[i[2]]]

\* The next request of a cycle leaves now, or the cycle is over; the other cycles stay as
\* they were, and so does the node but for its first cycle's return.
LEMMA ProceedFacts ==
  ASSUME ForecastInv, NEW c \in Cycle, cycle[c].at # "idle", NEW todo, todo \subseteq Place,
         \A i \in todo : cycle[c].began <= EndsAt[Periods[i[2]]], Proceed(c, todo)
  PROVE  /\ cycle' \in [Cycle -> CycleRecord]
         /\ \A x \in Cycle : CycleTyped(cycle'[x], now) /\ CycleTimely(cycle'[x], now)
         /\ due' \in Nat /\ serving' \in BOOLEAN
  <1> USE ForecastConstants
  <1>1. /\ cycle \in [Cycle -> CycleRecord] /\ now \in Nat /\ due \in Nat
        /\ \A x \in Cycle : CycleTyped(cycle[x], now) /\ CycleTimely(cycle[x], now)
    BY DEF ForecastInv, ShapeInv, TypeOK, CycleInv, CycleTyped, CycleTimely, Place
  <1> DEFINE new == IF todo = {} THEN Idle
                    ELSE [cycle[c] EXCEPT !.at = "ask", !.sent = now, !.todo = todo]
  <1>2. cycle' = [cycle EXCEPT ![c] = new]
    BY DEF Proceed
  <1>3. new \in CycleRecord /\ CycleTyped(new, now) /\ CycleTimely(new, now)
    <2>1. CASE todo = {}
      BY <1>1, <2>1 DEF Idle, CycleRecord, CycleTyped, CycleTimely
    <2>2. CASE todo # {}
      <3>1. cycle[c] \in CycleRecord
        BY <1>1
      <3>2. /\ new.at = "ask" /\ new.sent = now /\ new.todo = todo
            /\ new.began = cycle[c].began /\ new \in CycleRecord
        BY <1>1, <2>2, <3>1 DEF CycleRecord
      <3>3. cycle[c].began \in Nat /\ cycle[c].began <= now /\ now <= cycle[c].began + MaxCycle
        BY <1>1, <3>1 DEF CycleTimely, CycleRecord
      <3> HIDE DEF new
      <3>4. CycleTyped(new, now)
        BY <1>1, <2>2, <3>2, <3>3 DEF CycleTyped
      <3>5. CycleTimely(new, now)
        BY <1>1, <3>2, <3>3 DEF CycleTimely
      <3> QED BY <3>2, <3>4, <3>5
    <2> QED BY <2>1, <2>2
  <1> HIDE DEF new
  <1>4. cycle' \in [Cycle -> CycleRecord]
    BY <1>1, <1>2, <1>3
  <1>5. \A x \in Cycle : cycle'[x] = IF x = c THEN new ELSE cycle[x]
    BY <1>1, <1>2
  <1>6. \A x \in Cycle : CycleTyped(cycle'[x], now) /\ CycleTimely(cycle'[x], now)
    BY <1>1, <1>3, <1>5
  <1>7. due' \in Nat
    BY <1>1 DEF Proceed
  <1>8. serving' \in BOOLEAN
    BY Zenon DEF Proceed
  <1> QED BY <1>4, <1>6, <1>7, <1>8

\* The four parts of the invariant put together from what each step establishes.
LEMMA Assemble ==
  ASSUME now' \in 0..MaxTime, due' \in Nat, refreshes' \in 0..MaxRefreshes,
         network' \in BOOLEAN, serving' \in BOOLEAN,
         cycle' \in [Cycle -> CycleRecord],
         \A x \in Cycle : CycleTyped(cycle'[x], now') /\ CycleTimely(cycle'[x], now'),
         snapshot' \in [Pair -> Figure \cup {NoEntry}],
         \A q \in Pair : snapshot'[q] # NoEntry =>
             /\ [units |-> snapshot'[q].units, viewable |-> snapshot'[q].viewable] \in Reading
             /\ 0 <= snapshot'[q].asked /\ snapshot'[q].asked <= snapshot'[q].fetchedAt
             /\ snapshot'[q].fetchedAt <= now'
             /\ snapshot'[q].fetchedAt <= snapshot'[q].asked + MaxCycle
             /\ snapshot'[q].fetchedAt <= EndsAt[q[2]] + MaxCycle
  PROVE  ForecastInv'
  <1>1. TypeOK'
    BY DEF TypeOK, CycleTyped, Place
  <1>2. ShapeInv' /\ ReadInv'
    BY DEF ShapeInv, ReadInv
  <1>3. CycleInv'
    BY DEF CycleInv, CycleTimely
  <1> QED BY <1>1, <1>2, <1>3 DEF ForecastInv

\* Every step of the timer, the cycles and the clock keeps the invariant.
LEMMA ForecastStep == ForecastInv /\ [Next]_vars => ForecastInv'
  <1> SUFFICES ASSUME ForecastInv, [Next]_vars
               PROVE  ForecastInv'
    OBVIOUS
  <1> USE ForecastConstants
  <1>a. /\ now \in 0..MaxTime /\ due \in Nat /\ refreshes \in 0..MaxRefreshes
        /\ network \in BOOLEAN /\ serving \in BOOLEAN
        /\ cycle \in [Cycle -> CycleRecord]
    BY DEF ForecastInv, TypeOK, ShapeInv
  <1>b. \A x \in Cycle : CycleTyped(cycle[x], now) /\ CycleTimely(cycle[x], now)
    BY DEF ForecastInv, TypeOK, CycleInv, CycleTyped, CycleTimely, Place
  <1>c. /\ snapshot \in [Pair -> Figure \cup {NoEntry}]
        /\ \A q \in Pair : snapshot[q] # NoEntry =>
             /\ [units |-> snapshot[q].units, viewable |-> snapshot[q].viewable] \in Reading
             /\ 0 <= snapshot[q].asked /\ snapshot[q].asked <= snapshot[q].fetchedAt
             /\ snapshot[q].fetchedAt <= now
             /\ snapshot[q].fetchedAt <= snapshot[q].asked + MaxCycle
             /\ snapshot[q].fetchedAt <= EndsAt[q[2]] + MaxCycle
    BY DEF ForecastInv, TypeOK, ShapeInv, ReadInv
  <1>d. ASSUME NEW c \in Cycle, cycle[c].at # "idle", NEW todo, todo \subseteq Place,
               \A i \in todo : cycle[c].began <= EndsAt[Periods[i[2]]], Proceed(c, todo),
               UNCHANGED <<now, snapshot, refreshes>>, network' \in BOOLEAN
        PROVE  ForecastInv'
    <2>1. /\ cycle' \in [Cycle -> CycleRecord]
          /\ \A x \in Cycle : CycleTyped(cycle'[x], now) /\ CycleTimely(cycle'[x], now)
          /\ due' \in Nat /\ serving' \in BOOLEAN
      BY <1>d, ProceedFacts
    <2> QED BY <1>a, <1>c, <1>d, <2>1, Assemble
  <1>e. ASSUME NEW c \in Cycle, cycle[c].at = "ask"
        PROVE  /\ cycle[c].todo \subseteq Place /\ cycle[c].todo # {}
               /\ Asked(c) \in Pair
               /\ cycle[c].began \in Nat /\ cycle[c].sent \in Nat
               /\ cycle[c].began <= cycle[c].sent /\ cycle[c].sent <= now
               /\ now <= cycle[c].began + MaxCycle
               /\ now <= EndsAt[Asked(c)[2]] + MaxCycle
               /\ Rest(c) \subseteq Place
               /\ \A i \in Rest(c) : cycle[c].began <= EndsAt[Periods[i[2]]]
    <2>1. /\ cycle[c].todo \subseteq Place /\ cycle[c].todo # {}
          /\ cycle[c].began \in Nat /\ cycle[c].sent \in Nat
          /\ cycle[c].began <= cycle[c].sent /\ cycle[c].sent <= now
          /\ now <= cycle[c].began + MaxCycle
          /\ \A i \in cycle[c].todo : cycle[c].began <= EndsAt[Periods[i[2]]]
      BY <1>b, <1>e DEF CycleTyped, CycleTimely
    <2>2. /\ Asked(c) \in Pair /\ Rest(c) \subseteq cycle[c].todo
          /\ \E i \in cycle[c].todo : Asked(c)[2] = Periods[i[2]]
      BY <2>1, AskedFacts
    <2>3. PICK i \in cycle[c].todo : Asked(c)[2] = Periods[i[2]]
      BY <2>2
    <2>4. EndsAt[Periods[i[2]]] \in Int /\ cycle[c].began <= EndsAt[Periods[i[2]]]
      BY <2>1 DEF Place
    <2>5. now <= EndsAt[Asked(c)[2]] + MaxCycle
      BY <1>a, <2>1, <2>3, <2>4
    <2> QED BY <2>1, <2>2, <2>5
  <1>1. CASE Tick
    <2>1. /\ now' = now + 1 /\ now' \in 0..MaxTime
          /\ \A c \in Cycle : cycle[c].at # "idle" => now < cycle[c].began + MaxCycle
          /\ UNCHANGED <<network, snapshot, serving, due, cycle, refreshes>>
      BY <1>a, <1>1 DEF Tick
    <2>2. \A x \in Cycle : CycleTyped(cycle[x], now') /\ CycleTimely(cycle[x], now')
      <3> SUFFICES ASSUME NEW x \in Cycle
                   PROVE  CycleTyped(cycle[x], now') /\ CycleTimely(cycle[x], now')
        OBVIOUS
      <3>1. cycle[x].began \in Nat /\ cycle[x].sent \in Nat
        BY <1>b DEF CycleTyped
      <3>2. CycleTyped(cycle[x], now')
        BY <1>a, <1>b, <2>1, <3>1 DEF CycleTyped
      <3>3. CycleTimely(cycle[x], now')
        BY <1>a, <1>b, <2>1, <3>1 DEF CycleTimely
      <3> QED BY <3>2, <3>3
    <2>3. \A q \in Pair : snapshot[q] # NoEntry => snapshot[q].fetchedAt <= now'
      <3> SUFFICES ASSUME NEW q \in Pair, snapshot[q] # NoEntry
                   PROVE  snapshot[q].fetchedAt <= now'
        OBVIOUS
      <3>1. snapshot[q] \in Figure /\ snapshot[q].fetchedAt <= now
        BY <1>c
      <3>2. snapshot[q].fetchedAt \in Nat
        BY <3>1 DEF Figure
      <3> QED BY <1>a, <2>1, <3>1, <3>2
    <2> QED BY <1>a, <1>c, <2>1, <2>2, <2>3, Assemble
  <1>2. ASSUME NEW c \in Cycle, StartCycle(c) PROVE ForecastInv'
    <2>1. /\ cycle' = [cycle EXCEPT ![c] = Begin(now)] /\ due' = now + Interval
          /\ refreshes' = refreshes + 1 /\ refreshes < MaxRefreshes
          /\ UNCHANGED <<now, network, snapshot, serving>>
      BY <1>2 DEF StartCycle
    <2>2. /\ Begin(now) \in CycleRecord /\ Begin(now).at = "network" /\ Begin(now).todo = {}
          /\ Begin(now).began = now /\ Begin(now).sent = now
      BY <1>a DEF Begin, CycleRecord
    <2>3. CycleTyped(Begin(now), now) /\ CycleTimely(Begin(now), now)
      BY <1>a, <2>2 DEF CycleTyped, CycleTimely
    <2>4. cycle' \in [Cycle -> CycleRecord]
      BY <1>a, <2>1, <2>2
    <2>5. \A x \in Cycle : cycle'[x] = IF x = c THEN Begin(now) ELSE cycle[x]
      BY <1>a, <2>1
    <2>6. \A x \in Cycle : CycleTyped(cycle'[x], now) /\ CycleTimely(cycle'[x], now)
      BY <1>b, <2>3, <2>5
    <2>7. due' \in Nat /\ refreshes' \in 0..MaxRefreshes
      BY <1>a, <2>1
    <2> QED BY <1>a, <1>c, <2>1, <2>4, <2>6, <2>7, Assemble
  <1>3. ASSUME NEW c \in Cycle, NetworkRead(c) PROVE ForecastInv'
    <2>1. /\ cycle[c].at = "network" /\ network' = TRUE /\ Proceed(c, Pairs(now))
          /\ UNCHANGED <<now, snapshot, refreshes>>
      BY <1>3 DEF NetworkRead
    <2>2. Pairs(now) \subseteq Place
      BY DEF Pairs, Place
    <2>3. ASSUME NEW i \in Pairs(now) PROVE cycle[c].began <= EndsAt[Periods[i[2]]]
      <3>1. EndsAt[Periods[i[2]]] \in Int /\ now <= EndsAt[Periods[i[2]]]
        BY <1>a, <2>2 DEF Pairs, InWindow, IsOver, Place
      <3>2. /\ cycle[c].began \in Nat /\ cycle[c].sent \in Nat
            /\ cycle[c].began <= cycle[c].sent /\ cycle[c].sent <= now
        BY <1>b, <2>1 DEF CycleTyped, CycleTimely
      <3> QED BY <1>a, <3>1, <3>2
    <2>4. network' \in BOOLEAN
      BY <2>1, Zenon
    <2> QED BY <1>d, <2>1, <2>2, <2>3, <2>4
  <1>4. ASSUME NEW c \in Cycle, NetworkFails(c) PROVE ForecastInv'
    BY <1>a, <1>d, <1>4 DEF NetworkFails
  <1>5. ASSUME NEW c \in Cycle, PairFails(c) PROVE ForecastInv'
    <2>1. /\ cycle[c].at = "ask" /\ Proceed(c, Rest(c))
          /\ UNCHANGED <<now, network, snapshot, refreshes>>
      BY <1>5 DEF PairFails
    <2> QED BY <1>a, <1>d, <1>e, <2>1
  <1>6. ASSUME NEW c \in Cycle, NEW r \in Reading, PairAnswered(c, r) PROVE ForecastInv'
    <2>1. /\ cycle[c].at = "ask" /\ Proceed(c, Rest(c))
          /\ snapshot' = [snapshot EXCEPT ![Asked(c)] = Entry(r, cycle[c].sent)]
          /\ UNCHANGED <<now, network, refreshes>>
      BY <1>6 DEF PairAnswered
    <2>2. /\ Asked(c) \in Pair
          /\ cycle[c].began \in Nat /\ cycle[c].sent \in Nat
          /\ cycle[c].began <= cycle[c].sent /\ cycle[c].sent <= now
          /\ now <= cycle[c].began + MaxCycle
          /\ now <= EndsAt[Asked(c)[2]] + MaxCycle
          /\ Rest(c) \subseteq Place
          /\ \A i \in Rest(c) : cycle[c].began <= EndsAt[Periods[i[2]]]
      BY <1>e, <2>1
    <2>3. /\ cycle' \in [Cycle -> CycleRecord]
          /\ \A x \in Cycle : CycleTyped(cycle'[x], now) /\ CycleTimely(cycle'[x], now)
          /\ due' \in Nat /\ serving' \in BOOLEAN
      BY <2>1, <2>2, ProceedFacts
    <2> DEFINE e == Entry(r, cycle[c].sent)
    <2>4. /\ e \in Figure /\ e.units = r.units /\ e.viewable = r.viewable
          /\ e.fetchedAt = now /\ e.asked = cycle[c].sent
      <3>1. r.units \in Nat /\ r.viewable \in Int
        BY <1>a
      <3> QED BY <1>a, <2>2, <3>1 DEF Entry, Figure
    <2>5. [units |-> r.units, viewable |-> r.viewable] \in Reading
      <3>1. r \in [units : Nat, viewable : Int]
        OBVIOUS
      <3>2. r = [units |-> r.units, viewable |-> r.viewable]
        BY <3>1
      <3> QED BY <3>2
    <2> HIDE DEF e
    <2>6. /\ snapshot' \in [Pair -> Figure \cup {NoEntry}]
          /\ \A q \in Pair : snapshot'[q] = IF q = Asked(c) THEN e ELSE snapshot[q]
      BY <1>c, <2>1, <2>2, <2>4 DEF e
    <2>7. ASSUME NEW q \in Pair, snapshot'[q] # NoEntry
          PROVE  /\ [units |-> snapshot'[q].units, viewable |-> snapshot'[q].viewable] \in Reading
                 /\ 0 <= snapshot'[q].asked /\ snapshot'[q].asked <= snapshot'[q].fetchedAt
                 /\ snapshot'[q].fetchedAt <= now
                 /\ snapshot'[q].fetchedAt <= snapshot'[q].asked + MaxCycle
                 /\ snapshot'[q].fetchedAt <= EndsAt[q[2]] + MaxCycle
      <3>1. CASE q = Asked(c)
        BY <1>a, <2>2, <2>4, <2>5, <2>6, <3>1
      <3>2. CASE q # Asked(c)
        BY <1>c, <2>6, <2>7, <3>2
      <3> QED BY <3>1, <3>2
    <2> QED BY <1>a, <2>1, <2>3, <2>6, <2>7, Assemble
  <1>7. CASE UNCHANGED vars
    <2>1. UNCHANGED <<now, network, snapshot, serving, due, cycle, refreshes>>
      BY <1>7 DEF vars
    <2> QED BY <1>a, <1>b, <1>c, <2>1, Assemble
  <1> QED BY <1>1, <1>2, <1>3, <1>4, <1>5, <1>6, <1>7 DEF Next

-----------------------------------------------------------------------------
\* The invariant in every state of the forecast.
LEMMA ForecastAlways == Spec => []ForecastInv
  BY ForecastInit, ForecastStep, PTL DEF Spec

\* The snapshot, the timer and every cycle are well typed, whatever overlaps.
THEOREM ForecastTypeCorrect == Spec => []TypeOK
  <1>1. ForecastInv => TypeOK
    BY DEF ForecastInv
  <1> QED BY <1>1, ForecastAlways, PTL

\* No figure a buyer is given was asked for longer ago than the staleness limit and one
\* slow cycle together: no number of overlapping cycles, no late or failed answer and no
\* timer makes an older one look fresh.
THEOREM FiguresNeverStale == Spec => []NoStaleFigure
  <1>1. ForecastInv => NoStaleFigure
    <2> SUFFICES ASSUME ForecastInv, NEW q \in Told
                 PROVE  now - snapshot[q].asked <= MaxStaleness + MaxCycle
      BY DEF NoStaleFigure
    <2> USE ForecastConstants
    <2>1. q \in Pair /\ snapshot[q] # NoEntry /\ now - snapshot[q].fetchedAt <= MaxStaleness
      BY DEF Told, Fresh
    <2>2. snapshot[q] \in Figure /\ now \in Nat
      BY <2>1 DEF ForecastInv, ShapeInv, TypeOK
    <2>3. snapshot[q].fetchedAt <= snapshot[q].asked + MaxCycle
      BY <2>1 DEF ForecastInv, ReadInv
    <2> QED BY <2>1, <2>2, <2>3 DEF Figure
  <1> QED BY <1>1, ForecastAlways, PTL

\* Nothing is offered in a period that has been over for longer than that: a cycle that
\* began before the period ended is the last to ask for it, and its answers expire.
THEOREM NoPeriodOutlived == Spec => []NoOverPeriod
  <1>1. ForecastInv => NoOverPeriod
    <2> SUFFICES ASSUME ForecastInv, NEW q \in Told
                 PROVE  now - EndsAt[q[2]] <= MaxStaleness + MaxCycle
      BY DEF NoOverPeriod
    <2> USE ForecastConstants
    <2>1. q \in Pair /\ snapshot[q] # NoEntry /\ now - snapshot[q].fetchedAt <= MaxStaleness
      BY DEF Told, Fresh
    <2>2. snapshot[q] \in Figure /\ now \in Nat /\ EndsAt[q[2]] \in Int
      BY <2>1 DEF ForecastInv, ShapeInv, TypeOK, Pair
    <2>3. snapshot[q].fetchedAt <= EndsAt[q[2]] + MaxCycle
      BY <2>1 DEF ForecastInv, ReadInv
    <2> QED BY <2>1, <2>2, <2>3 DEF Figure
  <1> QED BY <1>1, ForecastAlways, PTL

-----------------------------------------------------------------------------
(* The disclosed figures. *)

\* The powers of ten are positive.
LEMMA DecadeTypes == \A k \in 0..MaxDigits : Decade(k) \in Nat \ {0}
  <1> DEFINE wrong == {k \in 0..MaxDigits : Decade(k) \notin Nat \ {0}}
  <1>1. SUFFICES ASSUME wrong # {} PROVE FALSE
    OBVIOUS
  <1>2. wrong \subseteq Nat
    BY PowersOfTen
  <1>3. PICK k \in wrong : \A l \in wrong : k <= l
    <2> HIDE DEF wrong
    <2> QED BY <1>1, <1>2, LeastExists
  <1>4. k # 0 /\ k - 1 \in 0..(MaxDigits - 1) /\ k - 1 \notin wrong
    BY <1>3, PowersOfTen
  <1>5. Decade(k - 1) \in Nat \ {0} /\ Decade((k - 1) + 1) = 10 * Decade(k - 1) /\ (k - 1) + 1 = k
    BY <1>4, PowersOfTen
  <1> QED BY <1>5, <1>3

\* A power of ten is a multiple of every smaller one.
LEMMA DecadeMultiples ==
  ASSUME NEW i \in 0..MaxDigits, NEW j \in 0..MaxDigits, i <= j
  PROVE  \E m \in Nat \ {0} : Decade(j) = m * Decade(i)
  <1> DEFINE wrong == {k \in i..MaxDigits : ~ \E m \in Nat \ {0} : Decade(k) = m * Decade(i)}
  <1>1. SUFFICES ASSUME wrong # {} PROVE FALSE
    BY PowersOfTen
  <1>2. wrong \subseteq Nat
    BY PowersOfTen
  <1>3. PICK k \in wrong : \A l \in wrong : k <= l
    <2> HIDE DEF wrong
    <2> QED BY <1>1, <1>2, LeastExists
  <1>4. Decade(i) \in Nat
    BY DecadeTypes
  <1>5. k # i
    BY <1>3, <1>4
  <1>6. k - 1 \in i..MaxDigits /\ k - 1 \in 0..(MaxDigits - 1) /\ k - 1 \notin wrong
    BY <1>3, <1>5, PowersOfTen
  <1>7. PICK m \in Nat \ {0} : Decade(k - 1) = m * Decade(i)
    BY <1>6
  <1>8. Decade((k - 1) + 1) = 10 * Decade(k - 1) /\ (k - 1) + 1 = k
    BY <1>6, PowersOfTen
  <1>9. \A a, b \in Nat : 10 * (a * b) = (10 * a) * b
    OBVIOUS
  <1>10. Decade(k) = (10 * m) * Decade(i) /\ 10 * m \in Nat \ {0}
    BY <1>4, <1>7, <1>8, <1>9
  <1> QED BY <1>10, <1>3

\* The powers of ten grow.
LEMMA DecadeGrows ==
  ASSUME NEW i \in 0..MaxDigits, NEW j \in 0..MaxDigits, i <= j
  PROVE  Decade(i) <= Decade(j)
  <1>1. PICK m \in Nat \ {0} : Decade(j) = m * Decade(i)
    BY DecadeMultiples
  <1>2. Decade(i) \in Nat
    BY DecadeTypes
  <1>3. \A a \in Nat \ {0}, b \in Nat : b <= a * b
    OBVIOUS
  <1> QED BY <1>1, <1>2, <1>3

\* A figure within MaxDigits digits has a number of digits.
LEMMA DigitsFacts ==
  ASSUME NEW n \in Nat, 1 <= n, n < Decade(MaxDigits)
  PROVE  /\ Digits(n) \in 1..MaxDigits
         /\ Decade(Digits(n) - 1) <= n /\ n < Decade(Digits(n))
  <1> DEFINE above == {d \in 1..MaxDigits : n < Decade(d)}
  <1>1. above \subseteq Nat /\ above # {}
    BY PowersOfTen
  <1>2. PICK d \in above : \A e \in above : d <= e
    <2> HIDE DEF above
    <2> QED BY <1>1, LeastExists
  <1>3. Decade(d - 1) <= n
    <2>1. CASE d = 1
      BY <2>1, PowersOfTen
    <2>2. CASE d # 1
      <3>1. d - 1 \in 1..MaxDigits /\ d - 1 \in 0..MaxDigits /\ d - 1 \notin above
        BY <1>2, <2>2, PowersOfTen
      <3>2. Decade(d - 1) \in Nat
        BY <3>1, DecadeTypes
      <3> QED BY <3>1, <3>2
    <2> QED BY <2>1, <2>2
  <1>4. \E e \in 1..MaxDigits : Decade(e - 1) <= n /\ n < Decade(e)
    BY <1>2, <1>3
  <1> QED BY <1>4 DEF Digits

\* More digits, greater figure.
LEMMA FewerDigits ==
  ASSUME NEW n \in Nat, 1 <= n, NEW m \in Nat, n <= m, m < Decade(MaxDigits)
  PROVE  Digits(n) = Digits(m) \/ n < Decade(Digits(m) - 1)
  <1>1. Decade(MaxDigits) \in Nat /\ n < Decade(MaxDigits) /\ 1 <= m
    BY DecadeTypes, PowersOfTen
  <1> DEFINE d == Digits(n)
             e == Digits(m)
  <1>2. /\ d \in 1..MaxDigits /\ Decade(d - 1) <= n /\ n < Decade(d)
        /\ e \in 1..MaxDigits /\ Decade(e - 1) <= m /\ m < Decade(e)
    BY <1>1, DigitsFacts
  <1> HIDE DEF d, e
  <1>3. /\ d - 1 \in 0..MaxDigits /\ e - 1 \in 0..MaxDigits /\ d \in 0..MaxDigits /\ e \in 0..MaxDigits
        /\ Decade(d) \in Nat /\ Decade(e - 1) \in Nat /\ Decade(d - 1) \in Nat /\ Decade(e) \in Nat
    BY <1>2, DecadeTypes, PowersOfTen
  <1>4. CASE d < e
    <2>1. d <= e - 1
      BY <1>2, <1>4
    <2>2. Decade(d) <= Decade(e - 1)
      BY <1>3, <2>1, DecadeGrows
    <2>3. n < Decade(e - 1)
      BY <1>2, <1>3, <2>2
    <2> QED BY <2>3 DEF e
  <1>5. CASE e < d
    <2>1. e <= d - 1
      BY <1>2, <1>5
    <2>2. Decade(e) <= Decade(d - 1)
      BY <1>3, <2>1, DecadeGrows
    <2> QED BY <1>2, <1>3, <2>2
  <1>6. CASE d = e
    BY <1>6 DEF d, e
  <1> QED BY <1>2, <1>4, <1>5, <1>6, PowersOfTen

\* Division by u, in terms of multiples of u.
LEMMA DivisionFacts ==
  ASSUME NEW u \in Nat \ {0}, NEW a \in Nat
  PROVE  /\ a \div u \in Nat
         /\ (a \div u) * u <= a
         /\ \A m \in Nat : m * u <= a => m <= a \div u
         /\ \A b \in Nat : a <= b => a \div u <= b \div u
  <1>1. ASSUME NEW c \in Nat
        PROVE  c \div u \in Nat /\ (c \div u) * u <= c /\ c < (c \div u) * u + u
    <2> DEFINE q == c \div u
    <2>1. q \in Int /\ q * u <= c /\ c < q * u + u
      OBVIOUS
    <2> HIDE DEF q
    <2>2. q <= -1 => q * u + u <= 0
      BY <2>1
    <2>3. q \in Nat
      BY <2>1, <2>2
    <2> QED BY <2>1, <2>3 DEF q
  <1>4. \A q, m \in Nat : q + 1 <= m => q * u + u <= m * u
    <2> SUFFICES ASSUME NEW q \in Nat, NEW m \in Nat, q + 1 <= m PROVE q * u + u <= m * u
      OBVIOUS
    <2>1. PICK r \in Nat : m = q + 1 + r
      <3>1. m - (q + 1) \in Nat /\ m = q + 1 + (m - (q + 1))
        OBVIOUS
      <3> QED BY <3>1
    <2>2. (q + 1 + r) * u = q * u + u + r * u /\ r * u \in Nat /\ q * u \in Nat
      OBVIOUS
    <2> QED BY <2>1, <2>2
  <1>5. ASSUME NEW c \in Nat, NEW m \in Nat, m * u <= c
        PROVE  m <= c \div u
    <2> DEFINE q == c \div u
    <2>1. q \in Nat /\ c < q * u + u
      BY <1>1
    <2> HIDE DEF q
    <2>2. m * u \in Nat /\ q * u \in Nat
      BY <2>1
    <2>3. ~(q + 1 <= m)
      BY <1>4, <1>5, <2>1, <2>2
    <2>4. m <= q
      BY <2>1, <2>3
    <2> QED BY <2>4 DEF q
  <1>6. ASSUME NEW b \in Nat, a <= b
        PROVE  a \div u <= b \div u
    <2>1. (a \div u) * u <= a /\ a \div u \in Nat
      BY <1>1
    <2>2. (a \div u) * u <= b /\ (a \div u) * u \in Nat
      BY <1>6, <2>1
    <2> QED BY <1>5, <2>1, <2>2
  <1> QED BY <1>1, <1>5, <1>6

\* The significant figures that are kept, and the steps of the ladder in n's decade.
Unit(n, policy) == Decade(IF Digits(n) > policy.figures THEN Digits(n) - policy.figures ELSE 0)
Steps(n, policy) == {(m * Decade(Digits(n) - 1) + 5) \div 10 : m \in policy.ladder}

\* RoundDown in these terms.
LEMMA RoundCases ==
  \A n, policy :
    RoundDown(n, policy) = IF policy.ladder = {} THEN (n \div Unit(n, policy)) * Unit(n, policy)
                           ELSE CHOOSE s \in Steps(n, policy) : s <= n /\ \A t \in Steps(n, policy) : t <= n => t <= s
  BY DEF RoundDown, Unit, Steps

\* The least figure of a decade is a multiple of the unit.
LEMMA UnitFacts ==
  ASSUME NEW policy \in Policy, NEW n \in Nat, 1 <= n, n < Decade(MaxDigits)
  PROVE  /\ Unit(n, policy) \in Nat \ {0}
         /\ \E m \in Nat : Decade(Digits(n) - 1) = m * Unit(n, policy)
  <1> DEFINE d == Digits(n)
             k == IF d > policy.figures THEN d - policy.figures ELSE 0
  <1>1. d \in 1..MaxDigits
    BY DigitsFacts
  <1>2. policy.figures \in Nat \ {0}
    BY DisclosurePolicies
  <1>3. k \in 0..MaxDigits /\ d - 1 \in 0..MaxDigits /\ k <= d - 1
    BY <1>1, <1>2, PowersOfTen
  <1>4. Unit(n, policy) = Decade(k)
    BY DEF Unit
  <1> HIDE DEF k, d
  <1>5. Decade(k) \in Nat \ {0} /\ \E m \in Nat \ {0} : Decade(d - 1) = m * Decade(k)
    BY <1>3, DecadeTypes, DecadeMultiples
  <1> QED BY <1>4, <1>5 DEF d

\* The ladder's highest step within n is defined, because the ladder has the mantissa 1.
LEMMA StepFacts ==
  ASSUME NEW policy \in Policy, policy.ladder # {}, NEW n \in Nat, 1 <= n, n < Decade(MaxDigits)
  PROVE  LET s == RoundDown(n, policy)
         IN  /\ s \in Steps(n, policy) /\ s \in Nat /\ s <= n
             /\ \A t \in Steps(n, policy) : t <= n => t <= s
             /\ Decade(Digits(n) - 1) \in Steps(n, policy)
             /\ Decade(Digits(n) - 1) <= n
  <1> DEFINE D == Decade(Digits(n) - 1)
             S == Steps(n, policy)
             gaps == {g \in 0..n : n - g \in S}
  <1>1. D \in Nat \ {0} /\ D <= n
    BY DigitsFacts, DecadeTypes, PowersOfTen
  <1>2. 10 \in policy.ladder /\ policy.ladder \subseteq 10..99
    BY DisclosurePolicies
  <1>3. S = {(m * D + 5) \div 10 : m \in policy.ladder}
    BY DEF Steps
  <1> HIDE DEF D, S
  <1>4. (10 * D + 5) \div 10 = D
    BY <1>1
  <1>5. D \in S
    BY <1>2, <1>3, <1>4
  <1>6. S \subseteq Nat
    <2>1. \A m \in 10..99 : m * D + 5 \in Nat
      BY <1>1
    <2>2. \A x \in Nat : x \div 10 \in Nat
      OBVIOUS
    <2> QED BY <1>2, <1>3, <2>1, <2>2
  <1>7. n - D \in gaps
    BY <1>1, <1>5
  <1>8. gaps \subseteq Nat
    OBVIOUS
  <1>9. PICK g \in gaps : \A h \in gaps : g <= h
    <2> HIDE DEF gaps
    <2> QED BY <1>7, <1>8, LeastExists
  <1>10. /\ n - g \in S /\ n - g <= n
         /\ \A t \in S : t <= n => t <= n - g
    <2>1. g \in 0..n /\ n - g \in S
      BY <1>9
    <2>2. ASSUME NEW t \in S, t <= n PROVE t <= n - g
      <3>1. t \in Nat /\ n - t \in 0..n /\ n - (n - t) = t
        BY <1>6, <2>2
      <3>2. g <= n - t
        BY <1>9, <2>2, <3>1
      <3> QED BY <2>1, <3>1, <3>2
    <2> QED BY <2>1, <2>2
  <1>11. RoundDown(n, policy) = CHOOSE s \in S : s <= n /\ \A t \in S : t <= n => t <= s
    BY RoundCases DEF S
  <1>12. LET s == RoundDown(n, policy) IN s \in S /\ s <= n /\ \A t \in S : t <= n => t <= s
    BY <1>10, <1>11
  <1> QED BY <1>1, <1>5, <1>6, <1>12 DEF D, S

\* Rounding down gives a figure of as many digits that is not greater.
LEMMA RoundFacts ==
  ASSUME NEW policy \in Policy, NEW n \in Nat, 1 <= n, n < Decade(MaxDigits)
  PROVE  /\ RoundDown(n, policy) \in Nat /\ RoundDown(n, policy) <= n
         /\ Decade(Digits(n) - 1) <= RoundDown(n, policy)
         /\ Decade(Digits(n) - 1) \in Nat \ {0}
  <1>1. Decade(Digits(n) - 1) \in Nat \ {0} /\ Decade(Digits(n) - 1) <= n
    BY DigitsFacts, DecadeTypes, PowersOfTen
  <1>2. CASE policy.ladder # {}
    BY <1>1, <1>2, StepFacts
  <1>3. CASE policy.ladder = {}
    <2> DEFINE u == Unit(n, policy)
    <2>1. u \in Nat \ {0} /\ \E m \in Nat : Decade(Digits(n) - 1) = m * u
      BY UnitFacts
    <2>2. RoundDown(n, policy) = (n \div u) * u
      BY <1>3, RoundCases
    <2> HIDE DEF u
    <2>3. PICK m \in Nat : Decade(Digits(n) - 1) = m * u
      BY <2>1
    <2>4. n \div u \in Nat /\ (n \div u) * u <= n /\ m <= n \div u
      BY <1>1, <2>1, <2>3, DivisionFacts
    <2>5. \A a, b, c \in Nat : a <= b => a * c <= b * c /\ b * c \in Nat
      OBVIOUS
    <2> QED BY <1>1, <2>1, <2>2, <2>3, <2>4, <2>5
  <1> QED BY <1>2, <1>3

\* A greater figure is not rounded to a smaller one.
LEMMA RoundMonotone ==
  ASSUME NEW policy \in Policy, NEW n \in Nat, 1 <= n, NEW m \in Nat, n <= m, m < Decade(MaxDigits)
  PROVE  RoundDown(n, policy) <= RoundDown(m, policy)
  <1>1. Decade(MaxDigits) \in Nat /\ n < Decade(MaxDigits) /\ 1 <= m
    BY DecadeTypes, PowersOfTen
  <1>2. /\ RoundDown(n, policy) \in Nat /\ RoundDown(n, policy) <= n
        /\ RoundDown(m, policy) \in Nat /\ Decade(Digits(m) - 1) <= RoundDown(m, policy)
        /\ Decade(Digits(m) - 1) \in Nat
    BY <1>1, RoundFacts
  <1>3. CASE n < Decade(Digits(m) - 1)
    BY <1>2, <1>3
  <1>4. CASE Digits(n) = Digits(m) /\ policy.ladder # {}
    <2>1. Steps(n, policy) = Steps(m, policy)
      BY <1>4 DEF Steps
    <2>2. RoundDown(n, policy) \in Steps(m, policy) /\ RoundDown(n, policy) <= m
      BY <1>1, <1>2, <1>4, <2>1, StepFacts
    <2> QED BY <1>1, <1>4, <2>2, StepFacts
  <1>5. CASE Digits(n) = Digits(m) /\ policy.ladder = {}
    <2> DEFINE u == Unit(m, policy)
    <2>1. u \in Nat \ {0}
      BY <1>1, UnitFacts
    <2>2. u = Unit(n, policy)
      BY <1>5 DEF Unit
    <2>3. RoundDown(n, policy) = (n \div u) * u /\ RoundDown(m, policy) = (m \div u) * u
      BY <1>5, <2>2, RoundCases
    <2> HIDE DEF u
    <2>4. n \div u \in Nat /\ m \div u \in Nat /\ n \div u <= m \div u
      BY <2>1, DivisionFacts
    <2>5. \A a, b, c \in Nat : a <= b => a * c <= b * c
      OBVIOUS
    <2> QED BY <2>1, <2>3, <2>4, <2>5
  <1> QED BY <1>1, <1>3, <1>4, <1>5, FewerDigits


-----------------------------------------------------------------------------
(* The first of an ordered set. *)

\* What R puts before q.
Below(F, R, q) == {x \in F : <<x, q>> \in R}
\* R orders F strictly and totally.
Orders(R, F) ==
    /\ \A x \in F : <<x, x>> \notin R
    /\ \A x, y, z \in F : <<x, y>> \in R /\ <<y, z>> \in R => <<x, z>> \in R
    /\ \A x, y \in F : x # y => <<x, y>> \in R \/ <<y, x>> \in R

\* An element has fewer elements below it than one that comes after it, and fewer than there are.
LEMMA RankFacts ==
  ASSUME NEW F, IsFiniteSet(F), NEW R, Orders(R, F), NEW q \in F
  PROVE  /\ Cardinality(Below(F, R, q)) \in 0..(Cardinality(F) - 1)
         /\ \A p \in F : <<p, q>> \in R => Cardinality(Below(F, R, p)) < Cardinality(Below(F, R, q))
  <1>1. ASSUME NEW S, NEW T, IsFiniteSet(T), S \subseteq T, NEW x \in T, x \notin S
        PROVE  IsFiniteSet(S) /\ Cardinality(S) \in Nat /\ Cardinality(T) \in Nat /\ Cardinality(S) < Cardinality(T)
    <2>1. S \in SUBSET T /\ S # T
      BY <1>1
    <2>2. IsFiniteSet(S) /\ Cardinality(S) <= Cardinality(T) /\ Cardinality(S) # Cardinality(T)
      BY <1>1, <2>1, FS_Subset
    <2>3. Cardinality(S) \in Nat /\ Cardinality(T) \in Nat
      BY <1>1, <2>2, FS_CardinalityType
    <2> QED BY <2>2, <2>3
  <1>2. \A p \in F : Below(F, R, p) \subseteq F /\ p \notin Below(F, R, p)
    BY DEF Below, Orders
  <1>3. Cardinality(Below(F, R, q)) \in 0..(Cardinality(F) - 1)
    BY <1>1, <1>2
  <1>4. ASSUME NEW p \in F, <<p, q>> \in R
        PROVE  Cardinality(Below(F, R, p)) < Cardinality(Below(F, R, q))
    <2>1. Below(F, R, p) \subseteq Below(F, R, q) /\ p \in Below(F, R, q) /\ p \notin Below(F, R, p)
      BY <1>4 DEF Below, Orders
    <2>2. IsFiniteSet(Below(F, R, q))
      BY <1>1, <1>2
    <2> QED BY <1>1, <2>1, <2>2
  <1> QED BY <1>3, <1>4

\* The first k of n elements are k, or all n when there are fewer.
LEMMA FirstCount ==
  ASSUME NEW F, IsFiniteSet(F), NEW R, Orders(R, F), NEW k \in Nat
  PROVE  LET first == {q \in F : Cardinality(Below(F, R, q)) < k}
         IN  Cardinality(first) = IF Cardinality(F) < k THEN Cardinality(F) ELSE k
  <1> DEFINE n == Cardinality(F)
             rank == [q \in F |-> Cardinality(Below(F, R, q))]
             first == {q \in F : Cardinality(Below(F, R, q)) < k}
             m == IF n < k THEN n ELSE k
             place == [q \in first |-> Cardinality(Below(F, R, q))]
  <1>1. n \in Nat /\ m \in Nat
    BY FS_CardinalityType
  <1>2. rank \in [F -> 0..(n - 1)]
    BY RankFacts
  <1>3. \A p, q \in F : rank[p] = rank[q] => p = q
    <2> SUFFICES ASSUME NEW p \in F, NEW q \in F, p # q PROVE rank[p] # rank[q]
      OBVIOUS
    <2>1. Cardinality(Below(F, R, p)) \in Int /\ Cardinality(Below(F, R, q)) \in Int
      BY RankFacts, <1>1
    <2>2. <<p, q>> \in R \/ <<q, p>> \in R
      BY DEF Orders
    <2>3. Cardinality(Below(F, R, p)) # Cardinality(Below(F, R, q))
      BY <2>1, <2>2, RankFacts
    <2> QED BY <2>3
  <1>4. IsFiniteSet(0..(n - 1)) /\ Cardinality(0..(n - 1)) = n
    BY <1>1, FS_Interval
  <1>5. rank \in Injection(F, 0..(n - 1))
    BY <1>2, <1>3, Fun_IsInj
  <1>6. rank \in Surjection(F, 0..(n - 1))
    <2> HIDE DEF rank
    <2> QED BY <1>4, <1>5, FS_Injection
  <1>7. \A i \in 0..(n - 1) : \E q \in F : rank[q] = i
    <2> HIDE DEF rank, n
    <2> DEFINE T == 0..(n - 1)
    <2> HIDE DEF T
    <2>1. rank \in Surjection(F, T)
      BY <1>6 DEF T
    <2>2. \A i \in T : \E q \in F : rank[q] = i
      BY <2>1, Fun_SurjectionProperties
    <2> QED BY <2>2 DEF T
  <1>8. \A i \in 0..(m - 1) : \E q \in first : place[q] = i
    <2> SUFFICES ASSUME NEW i \in 0..(m - 1) PROVE \E q \in first : place[q] = i
      OBVIOUS
    <2>1. i \in 0..(n - 1) /\ i < k
      BY <1>1
    <2>2. PICK q \in F : rank[q] = i
      BY <1>7, <2>1
    <2> QED BY <2>1, <2>2
  <1>9. place \in [first -> 0..(m - 1)]
    <2> SUFFICES ASSUME NEW q \in first PROVE Cardinality(Below(F, R, q)) \in 0..(m - 1)
      OBVIOUS
    <2>1. Cardinality(Below(F, R, q)) \in 0..(n - 1)
      BY RankFacts
    <2> QED BY <2>1, <1>1
  <1>10. \A p, q \in first : place[p] = place[q] => p = q
    BY <1>3
  <1>11. place \in Injection(first, 0..(m - 1)) /\ place \in Surjection(first, 0..(m - 1))
    <2> HIDE DEF place, first, m
    <2> QED BY <1>8, <1>9, <1>10, Fun_IsInj, Fun_IsSurj
  <1>12. IsFiniteSet(0..(m - 1)) /\ Cardinality(0..(m - 1)) = m
    <2>1. m \in Nat
      BY <1>1
    <2> HIDE DEF m
    <2>2. 0 \in Int /\ m - 1 \in Int /\ (IF 0 > m - 1 THEN 0 ELSE (m - 1) - 0 + 1) = m
      BY <2>1
    <2> QED BY <2>2, FS_Interval
  <1>13. Cardinality(first) = m
    <2> HIDE DEF place, first, m
    <2> QED BY <1>11, <1>12, FS_Injection
  <1> QED BY <1>13

-----------------------------------------------------------------------------
(* Availability, as disclosed. *)

\* What is offered is at most what is there, and more is offered of more.
LEMMA QuantizeFacts ==
  ASSUME NEW policy \in Policy, NEW n \in Nat, n < Decade(MaxDigits)
  PROVE  /\ Quantize(n, policy) \in Nat /\ Quantize(n, policy) <= n
         /\ \A m \in Nat : m <= n => Quantize(m, policy) <= Quantize(n, policy)
  <1> DEFINE Offered(m) == (m * policy.haircut) \div 100
  <1>1. policy.haircut \in 1..100 /\ policy.least \in Nat
    BY DisclosurePolicies
  <1>2. ASSUME NEW m \in Nat
        PROVE  /\ Offered(m) \in Nat /\ Offered(m) <= m
               /\ \A l \in Nat : l <= m => Offered(l) <= Offered(m)
    <2>1. \A h \in 1..100, l \in Nat : l * h \in Nat /\ l * h <= l * 100
      OBVIOUS
    <2>2. m * policy.haircut \in Nat /\ m * policy.haircut <= m * 100
      BY <1>1, <2>1
    <2>3. \A x \in Nat : x <= m * 100 => x \div 100 \in Nat /\ x \div 100 <= m
      OBVIOUS
    <2>4. ASSUME NEW l \in Nat, l <= m PROVE Offered(l) <= Offered(m)
      <3>1. \A h \in 1..100 : l * h \in Nat /\ m * h \in Nat /\ l * h <= m * h
        BY <2>4
      <3>2. \A x, y \in Nat : x <= y => x \div 100 <= y \div 100
        OBVIOUS
      <3> QED BY <1>1, <3>1, <3>2
    <2> QED BY <2>2, <2>3, <2>4
  <1>3. \A m : Quantize(m, policy) = IF m <= 0 \/ Offered(m) < 1 \/ Offered(m) < policy.least THEN 0
                                     ELSE RoundDown(Offered(m), policy)
    BY DEF Quantize
  <1> HIDE DEF Offered
  <1>4. Decade(MaxDigits) \in Nat
    BY DecadeTypes, PowersOfTen
  <1>5. ASSUME NEW m \in Nat, m <= n
        PROVE  Quantize(m, policy) \in Nat /\ Quantize(m, policy) <= m
    <2>1. CASE m <= 0 \/ Offered(m) < 1 \/ Offered(m) < policy.least
      BY <1>3, <2>1
    <2>2. CASE ~(m <= 0 \/ Offered(m) < 1 \/ Offered(m) < policy.least)
      <3>1. Offered(m) \in Nat /\ 1 <= Offered(m) /\ Offered(m) < Decade(MaxDigits) /\ Offered(m) <= m
        BY <1>2, <1>4, <1>5, <2>2
      <3>2. RoundDown(Offered(m), policy) \in Nat /\ RoundDown(Offered(m), policy) <= Offered(m)
        BY <3>1, RoundFacts
      <3> QED BY <1>3, <2>2, <3>1, <3>2
    <2> QED BY <2>1, <2>2
  <1>6. ASSUME NEW m \in Nat, m <= n
        PROVE  Quantize(m, policy) <= Quantize(n, policy)
    <2>1. CASE m <= 0 \/ Offered(m) < 1 \/ Offered(m) < policy.least
      BY <1>3, <1>5, <2>1
    <2>2. CASE ~(m <= 0 \/ Offered(m) < 1 \/ Offered(m) < policy.least)
      <3>1. /\ Offered(m) \in Nat /\ 1 <= Offered(m) /\ Offered(m) <= Offered(n)
            /\ Offered(n) \in Nat /\ Offered(n) < Decade(MaxDigits)
        BY <1>2, <1>4, <1>6, <2>2
      <3>2. ~(n <= 0 \/ Offered(n) < 1 \/ Offered(n) < policy.least)
        BY <1>1, <1>6, <2>2, <3>1
      <3>3. RoundDown(Offered(m), policy) <= RoundDown(Offered(n), policy)
        BY <3>1, RoundMonotone
      <3> QED BY <1>3, <2>2, <3>2, <3>3
    <2> QED BY <2>1, <2>2
  <1> QED BY <1>5, <1>6

-----------------------------------------------------------------------------
(* The order of the alternatives. *)

\* SortKey as a record, and the comparison spelled out.
Key(q, asked) == [near |-> IF q[1] = asked[1] THEN 0 ELSE 1, start |-> StartsAt[q[2]],
                  family |-> Index(Families, q[1]), period |-> Index(Periods, q[2])]
Lexical(k, l) ==
    \/ k.near < l.near
    \/ k.near = l.near /\ k.start < l.start
    \/ k.near = l.near /\ k.start = l.start /\ k.family < l.family
    \/ k.near = l.near /\ k.start = l.start /\ k.family = l.family /\ k.period < l.period

\* A key is made of numbers, and tells the pair.
LEMMA KeyFacts ==
  ASSUME NEW q \in Pair, NEW asked
  PROVE  /\ Key(q, asked) \in [near: {0, 1}, start: Int, family: Nat, period: Nat]
         /\ Families[Key(q, asked).family] = q[1] /\ Periods[Key(q, asked).period] = q[2]
         /\ Key(q, asked).near = 0 <=> q[1] = asked[1]
  <1>1. PICK i \in DOMAIN Families, j \in DOMAIN Periods : q = <<Families[i], Periods[j]>>
    BY DEF Pair
  <1>2. Index(Families, q[1]) \in DOMAIN Families /\ Families[Index(Families, q[1])] = q[1]
    BY <1>1 DEF Index
  <1>3. Index(Periods, q[2]) \in DOMAIN Periods /\ Periods[Index(Periods, q[2])] = q[2]
    BY <1>1 DEF Index
  <1>4. DOMAIN Families \subseteq Nat /\ DOMAIN Periods \subseteq Nat /\ StartsAt[q[2]] \in Int
    BY <1>1, ForecastConstants
  <1> QED BY <1>2, <1>3, <1>4 DEF Key

\* Precedes compares the keys.
LEMMA PrecedesLexical ==
  ASSUME NEW a \in Pair, NEW b \in Pair, NEW asked
  PROVE  Precedes(a, b, asked) <=> Lexical(Key(a, asked), Key(b, asked))
  <1> DEFINE ka == SortKey(a, asked)
             kb == SortKey(b, asked)
             k == Key(a, asked)
             l == Key(b, asked)
  <1>1. /\ ka[1] = k.near /\ ka[2] = k.start /\ ka[3] = k.family /\ ka[4] = k.period
        /\ kb[1] = l.near /\ kb[2] = l.start /\ kb[3] = l.family /\ kb[4] = l.period
    BY DEF SortKey, Key
  <1>2. Precedes(a, b, asked) <=> \E i \in 1..4 : ka[i] < kb[i] /\ \A j \in 1..(i - 1) : ka[j] = kb[j]
    BY DEF Precedes
  <1> HIDE DEF ka, kb, k, l
  <1>3. \A i \in 1..4 : i = 1 \/ i = 2 \/ i = 3 \/ i = 4
    OBVIOUS
  <1>4. (\A j \in 1..(1 - 1) : ka[j] = kb[j]) <=> TRUE
    OBVIOUS
  <1>5. (\A j \in 1..(2 - 1) : ka[j] = kb[j]) <=> ka[1] = kb[1]
    OBVIOUS
  <1>6. (\A j \in 1..(3 - 1) : ka[j] = kb[j]) <=> ka[1] = kb[1] /\ ka[2] = kb[2]
    <2>1. \A j \in 1..(3 - 1) : j = 1 \/ j = 2
      OBVIOUS
    <2>2. 1 \in 1..(3 - 1) /\ 2 \in 1..(3 - 1)
      OBVIOUS
    <2> QED BY <2>1, <2>2
  <1>7. (\A j \in 1..(4 - 1) : ka[j] = kb[j]) <=> ka[1] = kb[1] /\ ka[2] = kb[2] /\ ka[3] = kb[3]
    <2>1. \A j \in 1..(4 - 1) : j = 1 \/ j = 2 \/ j = 3
      OBVIOUS
    <2>2. 1 \in 1..(4 - 1) /\ 2 \in 1..(4 - 1) /\ 3 \in 1..(4 - 1)
      OBVIOUS
    <2> QED BY <2>1, <2>2
  <1>8. Precedes(a, b, asked) =>
           \/ ka[1] < kb[1]
           \/ ka[2] < kb[2] /\ ka[1] = kb[1]
           \/ ka[3] < kb[3] /\ ka[1] = kb[1] /\ ka[2] = kb[2]
           \/ ka[4] < kb[4] /\ ka[1] = kb[1] /\ ka[2] = kb[2] /\ ka[3] = kb[3]
    <2> SUFFICES ASSUME NEW i \in 1..4, ka[i] < kb[i], \A j \in 1..(i - 1) : ka[j] = kb[j]
                 PROVE  \/ ka[1] < kb[1]
                        \/ ka[2] < kb[2] /\ ka[1] = kb[1]
                        \/ ka[3] < kb[3] /\ ka[1] = kb[1] /\ ka[2] = kb[2]
                        \/ ka[4] < kb[4] /\ ka[1] = kb[1] /\ ka[2] = kb[2] /\ ka[3] = kb[3]
      BY <1>2
    <2> QED BY <1>3, <1>5, <1>6, <1>7
  <1>9. /\ ka[1] < kb[1] => Precedes(a, b, asked)
        /\ ka[2] < kb[2] /\ ka[1] = kb[1] => Precedes(a, b, asked)
        /\ ka[3] < kb[3] /\ ka[1] = kb[1] /\ ka[2] = kb[2] => Precedes(a, b, asked)
        /\ ka[4] < kb[4] /\ ka[1] = kb[1] /\ ka[2] = kb[2] /\ ka[3] = kb[3] => Precedes(a, b, asked)
    <2>1. 1 \in 1..4 /\ 2 \in 1..4 /\ 3 \in 1..4 /\ 4 \in 1..4
      OBVIOUS
    <2> QED BY <1>2, <1>4, <1>5, <1>6, <1>7, <2>1
  <1> QED BY <1>1, <1>8, <1>9 DEF Lexical, k, l

\* The pairs are finitely many.
LEMMA PairsFinite == IsFiniteSet(Pair)
  <1> DEFINE family == [i \in DOMAIN Families |-> Families[i]]
             period == [i \in DOMAIN Periods |-> Periods[i]]
             Fs == {Families[i] : i \in DOMAIN Families}
             Ps == {Periods[i] : i \in DOMAIN Periods}
  <1>1. family \in Surjection(DOMAIN Families, Fs)
    BY DEF Surjection
  <1>2. period \in Surjection(DOMAIN Periods, Ps)
    BY DEF Surjection
  <1> HIDE DEF family, period, Fs, Ps
  <1>3. IsFiniteSet(Fs) /\ IsFiniteSet(Ps)
    BY <1>1, <1>2, FS_Surjection, ForecastConstants
  <1>4. IsFiniteSet(Fs \X Ps)
    BY <1>3, FS_Product
  <1> QED BY <1>4 DEF Pair, Fs, Ps

\* The order in which alternatives are found is strict and total: any two pairs differ in
\* the family or the period, and with them in their places in the configuration.
LEMMA PrecedesOrders ==
  ASSUME NEW F \in SUBSET Pair, NEW asked
  PROVE  Orders({p \in F \X F : Precedes(p[1], p[2], asked)}, F)
  <1> DEFINE R == {p \in F \X F : Precedes(p[1], p[2], asked)}
             K(q) == Key(q, asked)
  <1>1. \A x, y \in F : <<x, y>> \in R <=> Lexical(K(x), K(y))
    BY PrecedesLexical
  <1>2. \A x \in F : /\ K(x).near \in Int /\ K(x).start \in Int /\ K(x).family \in Int /\ K(x).period \in Int
                     /\ x = <<Families[K(x).family], Periods[K(x).period]>>
    <2> SUFFICES ASSUME NEW x \in F
                 PROVE  /\ K(x).near \in Int /\ K(x).start \in Int /\ K(x).family \in Int /\ K(x).period \in Int
                        /\ x = <<Families[K(x).family], Periods[K(x).period]>>
      OBVIOUS
    <2>1. x = <<x[1], x[2]>>
      BY DEF Pair
    <2>2. K(x) \in [near: {0, 1}, start: Int, family: Nat, period: Nat]
      BY KeyFacts
    <2>3. Families[K(x).family] = x[1] /\ Periods[K(x).period] = x[2]
      BY KeyFacts
    <2> HIDE DEF K
    <2> QED BY <2>1, <2>2, <2>3
  <1> HIDE DEF K, R
  <1>3. \A x \in F : <<x, x>> \notin R
    BY <1>1, <1>2 DEF Lexical
  <1>4. ASSUME NEW x \in F, NEW y \in F, NEW z \in F, <<x, y>> \in R, <<y, z>> \in R
        PROVE  <<x, z>> \in R
    BY <1>1, <1>2, <1>4 DEF Lexical
  <1>5. ASSUME NEW x \in F, NEW y \in F, x # y
        PROVE  <<x, y>> \in R \/ <<y, x>> \in R
    <2>1. K(x).family # K(y).family \/ K(x).period # K(y).period
      BY <1>2, <1>5
    <2> QED BY <1>1, <1>2, <2>1 DEF Lexical
  <1> QED BY <1>3, <1>4, <1>5 DEF Orders, R

-----------------------------------------------------------------------------
(* The answers. *)

\* AnswersAgree calls a node that answers for one pair ready: it needs that nothing was
\* asked for, and nothing came in, before the network was read.
NetworkInv ==
    /\ \A c \in Cycle : cycle[c].at = "ask" => network = TRUE
    /\ \A q \in Pair : snapshot[q] # NoEntry => network = TRUE

\* A request leaves, and an answer comes in, only after the network was read.
LEMMA NetworkStep == ForecastInv /\ NetworkInv /\ [Next]_vars => NetworkInv'
  <1> SUFFICES ASSUME ForecastInv, NetworkInv, [Next]_vars
               PROVE  NetworkInv'
    OBVIOUS
  <1>1. cycle \in [Cycle -> CycleRecord] /\ snapshot \in [Pair -> Figure \cup {NoEntry}]
    BY DEF ForecastInv, ShapeInv
  <1>2. ASSUME network' = network, snapshot' = snapshot,
               \A c \in Cycle : cycle'[c].at = "ask" => network = TRUE
        PROVE  NetworkInv'
    BY <1>2 DEF NetworkInv
  <1>3. ASSUME NEW c \in Cycle, NEW todo, Proceed(c, todo), cycle[c].at = "ask"
        PROVE  \A x \in Cycle : cycle'[x].at = "ask" => network = TRUE
    BY <1>1, <1>3 DEF NetworkInv, Proceed
  <1>4. CASE Tick
    BY <1>2, <1>4 DEF Tick, NetworkInv
  <1>5. ASSUME NEW c \in Cycle, StartCycle(c) PROVE NetworkInv'
    <2>1. \A x \in Cycle : cycle'[x].at = "ask" => cycle[x].at = "ask"
      BY <1>1, <1>5 DEF StartCycle, Begin
    <2> QED BY <1>2, <1>5, <2>1 DEF StartCycle, NetworkInv
  <1>6. ASSUME NEW c \in Cycle, NetworkRead(c) PROVE NetworkInv'
    BY <1>6 DEF NetworkRead, NetworkInv
  <1>7. ASSUME NEW c \in Cycle, NetworkFails(c) PROVE NetworkInv'
    <2>1. \A x \in Cycle : cycle'[x].at = "ask" => cycle[x].at = "ask"
      BY <1>1, <1>7 DEF NetworkFails, Proceed, Idle
    <2> QED BY <1>2, <1>7, <2>1 DEF NetworkFails, NetworkInv
  <1>8. ASSUME NEW c \in Cycle, PairFails(c) PROVE NetworkInv'
    <2>1. \A x \in Cycle : cycle'[x].at = "ask" => network = TRUE
      BY <1>3, <1>8 DEF PairFails
    <2> QED BY <1>2, <1>8, <2>1 DEF PairFails
  <1>9. ASSUME NEW c \in Cycle, NEW r \in Reading, PairAnswered(c, r) PROVE NetworkInv'
    BY <1>9, <1>3 DEF PairAnswered, NetworkInv
  <1>10. CASE UNCHANGED vars
    BY <1>10 DEF vars, NetworkInv
  <1> QED BY <1>4, <1>5, <1>6, <1>7, <1>8, <1>9, <1>10 DEF Next

\* The same in every state.
LEMMA NetworkAlways == Spec => []NetworkInv
  <1>1. Init => NetworkInv
    BY DEF Init, NetworkInv, Begin, Idle
  <1> QED BY <1>1, ForecastAlways, NetworkStep, PTL DEF Spec

\* What is disclosed of an entry.
LEMMA EntryFacts ==
  ASSUME ForecastInv, NEW q \in Pair, snapshot[q] # NoEntry, NEW policy \in Policy
  PROVE  /\ snapshot[q].units \in Nat /\ Commercial(q, policy) \in Nat
         /\ Commercial(q, policy) <= snapshot[q].units
         /\ Viewable(q, policy) <= Commercial(q, policy)
  <1>1. [units |-> snapshot[q].units, viewable |-> snapshot[q].viewable] \in Reading
    BY DEF ForecastInv, TypeOK
  <1> DEFINE u == snapshot[q].units
             v == snapshot[q].viewable
  <1>2. u \in Nat /\ v \in -1..u /\ u < Decade(MaxDigits)
    <2>1. PICK r \in Reading : r.units = u /\ r.viewable = v
      BY <1>1
    <2>2. r.units \in Nat /\ r.viewable \in -1..r.units /\ r.units < Decade(MaxDigits)
      BY ForecastConstants
    <2> QED BY <2>1, <2>2
  <1>3. /\ Commercial(q, policy) = Quantize(u, policy)
        /\ Viewable(q, policy) = IF v = -1 THEN -1 ELSE Quantize(v, policy)
    BY DEF Commercial, Viewable
  <1> HIDE DEF u, v
  <1>4. /\ Quantize(u, policy) \in Nat /\ Quantize(u, policy) <= u
        /\ \A m \in Nat : m <= u => Quantize(m, policy) <= Quantize(u, policy)
    BY <1>2, QuantizeFacts
  <1>5. v # -1 => v \in Nat /\ v <= u
    BY <1>2
  <1> QED BY <1>2, <1>3, <1>4, <1>5 DEF u

\* The alternatives: as many as fit, up to the limit, and the asked family's first.
LEMMA AlternativesFacts ==
  ASSUME NEW q, NEW n, NEW policy, NEW allowed
  PROVE  LET fits == Candidates(q, n, policy, allowed)
             alts == Alternatives(q, n, policy, allowed)
         IN  /\ alts \subseteq fits
             /\ Cardinality(alts) = IF Cardinality(fits) < MaxAlternatives THEN Cardinality(fits) ELSE MaxAlternatives
             /\ \A x \in alts, y \in fits : x[1] # q[1] /\ y[1] = q[1] => y \in alts
  <1> DEFINE F == Candidates(q, n, policy, allowed)
             R == {p \in F \X F : Precedes(p[1], p[2], q)}
             alts == Alternatives(q, n, policy, allowed)
  <1>1. F \in SUBSET Pair
    BY DEF Candidates
  <1>2. IsFiniteSet(F)
    BY <1>1, PairsFinite, FS_Subset
  <1>3. Orders(R, F)
    BY <1>1, PrecedesOrders
  <1>4. \A y \in F : Below(F, R, y) = {x \in F : Precedes(x, y, q)}
    BY DEF Below
  <1>5. alts = {y \in F : Cardinality(Below(F, R, y)) < MaxAlternatives}
    BY <1>4 DEF Alternatives
  <1>6. ASSUME NEW x \in F, NEW y \in F, x[1] # q[1], y[1] = q[1]
        PROVE  <<y, x>> \in R
    <2>1. Key(y, q).near = 0 /\ Key(x, q).near = 1
      BY <1>1, <1>6 DEF Key
    <2>2. Lexical(Key(y, q), Key(x, q))
      BY <2>1 DEF Lexical
    <2>3. Precedes(y, x, q)
      BY <1>1, <2>2, PrecedesLexical
    <2> QED BY <2>3
  <1> HIDE DEF F, R, alts
  <1>7. Cardinality(alts) = IF Cardinality(F) < MaxAlternatives THEN Cardinality(F) ELSE MaxAlternatives
    BY <1>2, <1>3, <1>5, FirstCount, ForecastConstants
  <1>8. ASSUME NEW x \in alts, NEW y \in F, x[1] # q[1], y[1] = q[1]
        PROVE  y \in alts
    <2>1. x \in F /\ Cardinality(Below(F, R, x)) < MaxAlternatives
      BY <1>5
    <2>2. <<y, x>> \in R
      BY <1>6, <1>8, <2>1
    <2>3. Cardinality(F) \in Nat
      BY <1>2, FS_CardinalityType
    <2>4. /\ Cardinality(Below(F, R, y)) < Cardinality(Below(F, R, x))
          /\ Cardinality(Below(F, R, x)) \in 0..(Cardinality(F) - 1)
          /\ Cardinality(Below(F, R, y)) \in 0..(Cardinality(F) - 1)
      BY <1>2, <1>3, <2>1, <2>2, RankFacts
    <2>5. Cardinality(Below(F, R, y)) < MaxAlternatives
      BY <2>1, <2>3, <2>4, ForecastConstants
    <2> QED BY <1>5, <2>5
  <1> QED BY <1>5, <1>7, <1>8 DEF F, alts

\* Status, figures and alternatives of an answer do not contradict each other, for every
\* request, disclosure policy and entitlement, in every state the cycles can lead to.
THEOREM AnswersAlwaysAgree == Spec => []AnswersAgree
  <1>1. ForecastInv /\ NetworkInv => AnswersAgree
    <2> SUFFICES ASSUME ForecastInv, NetworkInv PROVE AnswersAgree
      OBVIOUS
    <2>1. ASSUME Told # {}, NEW p \in Pair \ Told PROVE Refusal(p) # "not_ready"
      BY <2>1 DEF NetworkInv, Told, Fresh, Refusal
    <2>2. ASSUME NEW q \in Told, NEW n \in Request, NEW policy \in Policy, NEW allowed \in Entitlement
          PROVE  LET a == Answer(q, n, policy, allowed)
                     own == {x \in a.alternatives : x[1] = q[1]}
                     fitting == {x \in Told \ {q} : x[1] \in allowed /\ Decide(Commercial(x, policy), n) = "available"}
                 IN  /\ a.upTo <= snapshot[q].units /\ a.viewable <= a.upTo
                     /\ a.status = "available" <=> n <= a.upTo
                     /\ a.status = "unavailable" <=> a.upTo = 0
                     /\ a.alternatives \subseteq (IF n <= a.upTo THEN {} ELSE fitting)
                     /\ Cardinality(a.alternatives) =
                            IF n <= a.upTo THEN 0
                            ELSE IF Cardinality(fitting) < MaxAlternatives THEN Cardinality(fitting) ELSE MaxAlternatives
                     /\ a.alternatives # own => {x \in fitting : x[1] = q[1]} \subseteq own
      <3> DEFINE upTo == Commercial(q, policy)
                 alts == Alternatives(q, n, policy, allowed)
                 status == Decide(upTo, n)
                 given == IF status = "available" THEN {} ELSE alts
                 fitting == {x \in Told \ {q} : x[1] \in allowed /\ Decide(Commercial(x, policy), n) = "available"}
      <3>1. /\ Told = {x \in Pair : Fresh(x)}
            /\ q \in Pair /\ snapshot[q] # NoEntry
            /\ \A x \in Told : x \in Pair /\ snapshot[x] # NoEntry
        BY DEF Told, Fresh
      <3>2. n \in Nat /\ 1 <= n
        BY ForecastConstants
      <3>3. \A x \in Told : Commercial(x, policy) \in Nat
        BY <3>1, EntryFacts
      <3>4. upTo \in Nat /\ upTo <= snapshot[q].units /\ Viewable(q, policy) <= upTo
        BY <3>1, EntryFacts
      <3>5. \A x \in Told : Decide(Commercial(x, policy), n) = "available" <=> Commercial(x, policy) >= n
        BY <3>2, <3>3 DEF Decide
      <3>6. Candidates(q, n, policy, allowed) = fitting
        <4>1. Candidates(q, n, policy, allowed) = {x \in Told \ {q} : x[1] \in allowed /\ Commercial(x, policy) >= n}
          BY <3>1 DEF Candidates
        <4> QED BY <3>5, <4>1
      <3>7. (status = "available" <=> n <= upTo) /\ (status = "unavailable" <=> upTo = 0)
        BY <3>2, <3>4 DEF Decide
      <3> HIDE DEF upTo, alts, status, fitting
      <3>8. /\ alts \subseteq fitting
            /\ Cardinality(alts) = IF Cardinality(fitting) < MaxAlternatives THEN Cardinality(fitting) ELSE MaxAlternatives
            /\ \A x \in alts, y \in fitting : x[1] # q[1] /\ y[1] = q[1] => y \in alts
        BY <3>6, AlternativesFacts DEF alts
      <3>9. /\ given \subseteq (IF n <= upTo THEN {} ELSE fitting)
            /\ Cardinality(given) = IF n <= upTo THEN 0
                                    ELSE IF Cardinality(fitting) < MaxAlternatives THEN Cardinality(fitting) ELSE MaxAlternatives
        BY <3>7, <3>8, FS_EmptySet
      <3>10. given # {x \in given : x[1] = q[1]} =>
                 {x \in fitting : x[1] = q[1]} \subseteq {x \in given : x[1] = q[1]}
        BY <3>8
      <3>11. Answer(q, n, policy, allowed) =
                 [status |-> status, upTo |-> upTo, viewable |-> Viewable(q, policy), alternatives |-> given]
        BY DEF Answer, upTo, alts, status
      <3> HIDE DEF given
      <3> DEFINE a == Answer(q, n, policy, allowed)
      <3>12. /\ a.status = status /\ a.upTo = upTo /\ a.viewable = Viewable(q, policy)
             /\ a.alternatives = given
        BY <3>11
      <3> HIDE DEF a
      <3>13. /\ a.upTo <= snapshot[q].units /\ a.viewable <= a.upTo
             /\ a.status = "available" <=> n <= a.upTo
             /\ a.status = "unavailable" <=> a.upTo = 0
        BY <3>4, <3>7, <3>12
      <3>14. /\ a.alternatives \subseteq (IF n <= a.upTo THEN {} ELSE fitting)
             /\ Cardinality(a.alternatives) =
                    IF n <= a.upTo THEN 0
                    ELSE IF Cardinality(fitting) < MaxAlternatives THEN Cardinality(fitting) ELSE MaxAlternatives
             /\ a.alternatives # {x \in a.alternatives : x[1] = q[1]} =>
                    {x \in fitting : x[1] = q[1]} \subseteq {x \in a.alternatives : x[1] = q[1]}
        BY <3>9, <3>10, <3>12
      <3> QED BY <3>13, <3>14 DEF a, fitting
    <2> QED BY <2>1, <2>2 DEF AnswersAgree
  <1> QED BY <1>1, ForecastAlways, NetworkAlways, PTL

=============================================================================
