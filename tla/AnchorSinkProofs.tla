-------------------------- MODULE AnchorSinkProofs --------------------------
(***************************************************************************)
(* Theorems about the write-once anchor sinks, for every set of reconcile  *)
(* cycles and every number of records, restarts and faults: type           *)
(* correctness, no record dropped, a manifest that never claims too much,  *)
(* and no record externalized twice without cause.                         *)
(***************************************************************************)
EXTENDS AnchorSink, FiniteSetTheorems, SequenceTheorems, TLAPS

\* What a running node knows: the set in memory is the manifest's, an idle cycle holds
\* nothing, and a stopped node has no cycle.
NodeInv ==
    /\ up \in BOOLEAN /\ mirror \in Seq(SeqNo) /\ pending \in Seq(SeqNo)
    /\ done \subseteq manifest /\ manifest \subseteq SeqNo /\ (up => done = manifest)
    /\ cycle \in [Cycle -> CycleState]
    /\ \A c \in Cycle : /\ cycle[c].at \in {"sent", "stored"} => cycle[c].queue # <<>>
                        /\ cycle[c].at = "idle" => cycle[c] = Idle
                        /\ ~up => cycle[c].at = "idle"

CountInv ==
    /\ puts \in [SeqNo -> Nat] /\ uncertain \subseteq SeqNo
    /\ crashes \in Nat /\ faults \in Nat

\* The records in the hands of a cycle.
Held(c) == ToSet(cycle[c].queue) \cup ToSet(cycle[c].failed)

\* Where a running node keeps the mirror's records.
CoverInv == up => \A s \in ToSet(mirror) : s \in done \cup ToSet(pending) \/ \E c \in Cycle : s \in Held(c)

\* What is noted, or awaits its note, was accepted.
StoredInv ==
    /\ \A s \in manifest : puts[s] > 0
    /\ \A c \in Cycle : cycle[c].at = "stored" => puts[Head(cycle[c].queue)] > 0

\* s has one place at most: in a sequence; in the hands of c; in the queue and the cycles
\* together.
OnceIn(q, s) == \A i, j \in DOMAIN q : q[i] = s /\ q[j] = s => i = j

OnceHeld(c, s) ==
    /\ OnceIn(cycle[c].queue, s) /\ OnceIn(cycle[c].failed, s)
    /\ ~(s \in ToSet(cycle[c].queue) /\ s \in ToSet(cycle[c].failed))

OnePlace(s) ==
    /\ OnceIn(pending, s) /\ \A c \in Cycle : OnceHeld(c, s)
    /\ \A c, d \in Cycle : s \in Held(c) /\ s \in Held(d) => c = d
    /\ \A c \in Cycle : ~(s \in ToSet(pending) /\ s \in Held(c))

\* The queues hold records of the mirror alone, and one anchored once has one place.
PlaceInv ==
    /\ ToSet(pending) \subseteq ToSet(mirror)
    /\ \A c \in Cycle : Held(c) \subseteq ToSet(mirror)
    /\ \A s \in SeqNo : OnceIn(mirror, s) => OnePlace(s)

Submitted(c, s) == cycle[c].at \in {"sent", "stored"} /\ Head(cycle[c].queue) = s

Awaited(s) == \E c \in Cycle : cycle[c].at = "stored" /\ Submitted(c, s)

\* Of a record anchored once: it is not noted while it is submitted; and unless an outcome is
\* unknown it was accepted once at most, and then is noted or awaits its note.
Once(s) ==
    /\ \A c \in Cycle : Submitted(c, s) => s \notin manifest
    /\ s \notin uncertain => puts[s] \in {0, 1}
    /\ s \notin uncertain /\ puts[s] = 1 => s \in manifest \/ Awaited(s)

OnceInv == \A s \in SeqNo : OnceIn(mirror, s) => Once(s)

SinkInv == NodeInv /\ CountInv /\ CoverInv /\ StoredInv /\ PlaceInv /\ OnceInv

-----------------------------------------------------------------------------
(* Sequences: what they hold, and how often. *)

\* Queueing one more record adds that record and no other.
LEMMA AppendHolds ==
    ASSUME NEW S, NEW q \in Seq(S), NEW x \in S
    PROVE  /\ Append(q, x) \in Seq(S)
           /\ ToSet(Append(q, x)) = ToSet(q) \cup {x}
           /\ \A s : OnceIn(Append(q, x), s) => OnceIn(q, s)
           /\ \A s : OnceIn(Append(q, x), s) /\ s \in ToSet(q) => s # x
           /\ \A s : OnceIn(q, s) /\ (s = x => s \notin ToSet(q)) => OnceIn(Append(q, x), s)
  <1>1. /\ Append(q, x) \in Seq(S) /\ Len(q) \in Nat
        /\ DOMAIN q = 1..Len(q) /\ DOMAIN Append(q, x) = 1..(Len(q) + 1)
        /\ Append(q, x)[Len(q) + 1] = x
        /\ \A i \in 1..Len(q) : Append(q, x)[i] = q[i]
    BY AppendProperties, LenProperties
  <1>2. 1..(Len(q) + 1) = 1..Len(q) \cup {Len(q) + 1} /\ Len(q) + 1 \notin 1..Len(q)
    BY <1>1
  <1> QED BY <1>1, <1>2 DEF ToSet, OnceIn

\* Taking the first record off a queue leaves the others, each as often as before.
LEMMA TailHolds ==
    ASSUME NEW S, NEW q \in Seq(S), q # <<>>
    PROVE  /\ Head(q) \in S /\ Tail(q) \in Seq(S) /\ Head(q) \in ToSet(q)
           /\ ToSet(q) = ToSet(Tail(q)) \cup {Head(q)}
           /\ \A s : OnceIn(q, s) => OnceIn(Tail(q), s)
           /\ \A s : OnceIn(q, s) /\ s \in ToSet(Tail(q)) => s # Head(q)
  <1>1. /\ Head(q) \in S /\ Tail(q) \in Seq(S) /\ Len(q) \in Nat /\ Len(q) # 0
        /\ DOMAIN q = 1..Len(q) /\ DOMAIN Tail(q) = 1..(Len(q) - 1)
        /\ Head(q) = q[1]
        /\ \A i \in 1..(Len(q) - 1) : Tail(q)[i] = q[i + 1]
    BY HeadTailProperties, LenProperties, EmptySeq
  <1>2. /\ 1 \in 1..Len(q)
        /\ \A i \in 1..(Len(q) - 1) : i + 1 \in 1..Len(q) /\ i + 1 # 1
        /\ \A i \in 1..Len(q) : i # 1 => i - 1 \in 1..(Len(q) - 1) /\ (i - 1) + 1 = i
        /\ \A i, j \in 1..(Len(q) - 1) : i + 1 = j + 1 => i = j
    BY <1>1
  <1>3. ToSet(q) \subseteq ToSet(Tail(q)) \cup {Head(q)}
    <2> SUFFICES ASSUME NEW i \in 1..Len(q), i # 1
                 PROVE  q[i] \in ToSet(Tail(q))
      BY <1>1 DEF ToSet
    <2>1. i - 1 \in DOMAIN Tail(q) /\ Tail(q)[i - 1] = q[i]
      BY <1>1, <1>2
    <2> QED BY <2>1 DEF ToSet
  <1>4. ToSet(Tail(q)) \cup {Head(q)} \subseteq ToSet(q)
    BY <1>1, <1>2 DEF ToSet
  <1>5. \A s : OnceIn(q, s) => OnceIn(Tail(q), s)
    BY <1>1, <1>2 DEF OnceIn
  <1>6. \A s : OnceIn(q, s) /\ s \in ToSet(Tail(q)) => s # Head(q)
    BY <1>1, <1>2 DEF OnceIn, ToSet
  <1> QED BY <1>1, <1>3, <1>4, <1>5, <1>6

\* Joining two queues loses and duplicates no record.
LEMMA ConcatHolds ==
    ASSUME NEW S, NEW a \in Seq(S), NEW b \in Seq(S)
    PROVE  /\ a \o b \in Seq(S)
           /\ ToSet(a \o b) = ToSet(a) \cup ToSet(b)
           /\ \A s : /\ OnceIn(a, s) /\ OnceIn(b, s)
                     /\ ~(s \in ToSet(a) /\ s \in ToSet(b))
                     => OnceIn(a \o b, s)
  <1>1. /\ a \o b \in Seq(S) /\ Len(a) \in Nat /\ Len(b) \in Nat
        /\ DOMAIN a = 1..Len(a) /\ DOMAIN b = 1..Len(b)
        /\ DOMAIN (a \o b) = 1..(Len(a) + Len(b))
        /\ \A i \in 1..(Len(a) + Len(b)) : (a \o b)[i] = IF i <= Len(a) THEN a[i] ELSE b[i - Len(a)]
    BY ConcatProperties, LenProperties
  <1>2. /\ \A i \in 1..(Len(a) + Len(b)) : IF i <= Len(a) THEN i \in 1..Len(a) ELSE i - Len(a) \in 1..Len(b)
        /\ \A i \in 1..Len(a) : i \in 1..(Len(a) + Len(b)) /\ i <= Len(a)
        /\ \A i \in 1..Len(b) : i + Len(a) \in 1..(Len(a) + Len(b)) /\ ~(i + Len(a) <= Len(a)) /\ (i + Len(a)) - Len(a) = i
        /\ \A i, j \in 1..(Len(a) + Len(b)) : i - Len(a) = j - Len(a) => i = j
    BY <1>1
  <1>3. \A i \in 1..Len(b) : (a \o b)[i + Len(a)] = b[i]
    BY <1>1, <1>2
  <1>4. ToSet(a \o b) \subseteq ToSet(a) \cup ToSet(b)
    BY <1>1, <1>2 DEF ToSet
  <1>5. ToSet(a) \cup ToSet(b) \subseteq ToSet(a \o b)
    <2>1. ToSet(a) \subseteq ToSet(a \o b)
      BY <1>1, <1>2 DEF ToSet
    <2>2. ASSUME NEW i \in DOMAIN b PROVE b[i] \in ToSet(a \o b)
      <3>1. i + Len(a) \in DOMAIN (a \o b) /\ (a \o b)[i + Len(a)] = b[i]
        BY <1>1, <1>2, <1>3
      <3> QED BY <3>1 DEF ToSet
    <2>3. ToSet(b) \subseteq ToSet(a \o b)
      BY <2>2 DEF ToSet
    <2> QED BY <2>1, <2>3
  <1>6. \A s : /\ OnceIn(a, s) /\ OnceIn(b, s)
               /\ ~(s \in ToSet(a) /\ s \in ToSet(b))
               => OnceIn(a \o b, s)
    BY <1>1, <1>2 DEF OnceIn, ToSet
  <1> QED BY <1>1, <1>4, <1>5, <1>6

\* An empty queue holds nothing.
LEMMA EmptyHolds ==
    ASSUME NEW S
    PROVE  <<>> \in Seq(S) /\ ToSet(<<>>) = {} /\ \A s : OnceIn(<<>>, s)
  BY DEF ToSet, OnceIn

-----------------------------------------------------------------------------
(* The positions of a finite set, counted. *)

\* Nth counts a finite set of positions off in order: every position once.
LEMMA NthFacts ==
    ASSUME NEW S, S \subseteq Nat, IsFiniteSet(S)
    PROVE  /\ Cardinality(S) \in Nat
           /\ \A k \in 1..Cardinality(S) : Nth(S, k) \in S
           /\ \A k, m \in 1..Cardinality(S) : Nth(S, k) = Nth(S, m) => k = m
           /\ \A i \in S : \E k \in 1..Cardinality(S) : Nth(S, k) = i
  <1> DEFINE Upto(i) == {j \in S : j <= i}
             rank == [i \in S |-> Cardinality(Upto(i))]
  <1>1. Cardinality(S) \in Nat
    BY FS_CardinalityType
  <1>2. \A i \in S : IsFiniteSet(Upto(i)) /\ Cardinality(Upto(i)) \in 1..Cardinality(S)
    <2> SUFFICES ASSUME NEW i \in S
                 PROVE  IsFiniteSet(Upto(i)) /\ Cardinality(Upto(i)) \in 1..Cardinality(S)
      OBVIOUS
    <2>1. Upto(i) \in SUBSET S /\ i \in Upto(i)
      OBVIOUS
    <2>2. IsFiniteSet(Upto(i)) /\ Cardinality(Upto(i)) <= Cardinality(S)
      BY <2>1, FS_Subset
    <2>3. Cardinality(Upto(i)) \in Nat /\ Cardinality(Upto(i)) # 0
      BY <2>1, <2>2, FS_CardinalityType, FS_EmptySet
    <2> QED BY <1>1, <2>2, <2>3
  <1>3. \A i, j \in S : i < j => Cardinality(Upto(i)) # Cardinality(Upto(j))
    <2> SUFFICES ASSUME NEW i \in S, NEW j \in S, i < j
                 PROVE  Cardinality(Upto(j)) # Cardinality(Upto(i))
      OBVIOUS
    <2>1. i \in Nat /\ j \in Nat /\ \A n \in S : n \in Nat /\ (n <= i => n <= j)
      OBVIOUS
    <2>2. Upto(i) \in SUBSET Upto(j)
      BY <2>1
    <2>3. j \in Upto(j) /\ j \notin Upto(i)
      BY <2>1
    <2>4. IsFiniteSet(Upto(j))
      BY <1>2
    <2> HIDE DEF Upto
    <2> QED BY <2>2, <2>3, <2>4, FS_Subset
  <1>4. \A i, j \in S : Cardinality(Upto(i)) = Cardinality(Upto(j)) => i = j
    <2> HIDE DEF Upto
    <2> QED BY <1>3
  <1>5. rank \in Injection(S, 1..Cardinality(S))
    <2> HIDE DEF Upto
    <2>1. rank \in [S -> 1..Cardinality(S)]
      BY <1>2
    <2>2. \A i, j \in S : rank[i] = rank[j] => i = j
      BY <1>4
    <2> QED BY <2>1, <2>2 DEF Injection, IsInjective
  <1>6. rank \in Surjection(S, 1..Cardinality(S))
    <2>1. IsFiniteSet(1..Cardinality(S)) /\ Cardinality(1..Cardinality(S)) = Cardinality(S)
      BY <1>1, FS_Interval
    <2> HIDE DEF rank
    <2> QED BY <1>5, <2>1, FS_Injection
  <1>7. \A k \in 1..Cardinality(S) : \E i \in S : Cardinality(Upto(i)) = k
    <2> HIDE DEF Upto
    <2> QED BY <1>6 DEF Surjection
  <1>8. \A k \in 1..Cardinality(S) : Nth(S, k) \in S /\ Cardinality(Upto(Nth(S, k))) = k
    BY <1>7 DEF Nth
  <1>9. \A i \in S : Nth(S, Cardinality(Upto(i))) = i
    <2> HIDE DEF Upto
    <2> QED BY <1>2, <1>4, <1>8
  <1> HIDE DEF Upto
  <1> QED BY <1>1, <1>2, <1>8, <1>9

-----------------------------------------------------------------------------
(* What a step does to the queues. *)

\* The queue a boot rebuilds holds the mirrored records that the manifest lacks, each as
\* often as the mirror does (readAll).
LEMMA RequeueFacts ==
    ASSUME NodeInv
    PROVE  /\ Requeued(manifest) \in Seq(SeqNo)
           /\ ToSet(Requeued(manifest)) = ToSet(mirror) \ manifest
           /\ \A s : OnceIn(mirror, s) => OnceIn(Requeued(manifest), s)
  <1> DEFINE kept == {i \in DOMAIN mirror : mirror[i] \notin manifest}
             n == Cardinality(kept)
             q == [k \in 1..n |-> mirror[Nth(kept, k)]]
  <1>1. Requeued(manifest) = q
    BY DEF Requeued
  <1>2. mirror \in Seq(SeqNo) /\ DOMAIN mirror = 1..Len(mirror) /\ Len(mirror) \in Nat
    BY LenProperties DEF NodeInv
  <1>3. kept \subseteq 1..Len(mirror) /\ kept \subseteq Nat
    <2>1. kept \subseteq 1..Len(mirror)
      BY <1>2
    <2>2. 1..Len(mirror) \subseteq Nat
      BY <1>2
    <2> QED BY <2>1, <2>2
  <1>4. IsFiniteSet(kept)
    <2>1. IsFiniteSet(1..Len(mirror)) /\ kept \in SUBSET (1..Len(mirror))
      BY <1>2, <1>3, FS_Interval
    <2> HIDE DEF kept
    <2> QED BY <2>1, FS_Subset
  <1>5. /\ n \in Nat
        /\ \A k \in 1..n : Nth(kept, k) \in kept
        /\ \A k, m \in 1..n : Nth(kept, k) = Nth(kept, m) => k = m
        /\ \A i \in kept : \E k \in 1..n : Nth(kept, k) = i
    <2> HIDE DEF kept
    <2> QED BY <1>3, <1>4, NthFacts
  <1>6. \A i \in DOMAIN mirror : mirror[i] \in SeqNo
    BY <1>2, ElementOfSeq
  <1>7. \A k \in 1..n : /\ Nth(kept, k) \in DOMAIN mirror
                        /\ mirror[Nth(kept, k)] \in SeqNo \ manifest
    <2> HIDE DEF n
    <2> QED BY <1>5, <1>6
  <1>8. \A i \in DOMAIN mirror : mirror[i] \notin manifest => i \in kept
    OBVIOUS
  <1> HIDE DEF kept, n
  <1>9. DOMAIN q = 1..n /\ \A k \in 1..n : q[k] = mirror[Nth(kept, k)]
    OBVIOUS
  <1>10. q \in Seq(SeqNo)
    <2>1. q \in [1..n -> SeqNo]
      BY <1>7
    <2> HIDE DEF q
    <2> QED BY <1>5, <2>1, SeqDef
  <1> HIDE DEF q
  <1>11. ToSet(q) \subseteq ToSet(mirror) \ manifest
    BY <1>7, <1>9 DEF ToSet
  <1>12. ToSet(mirror) \ manifest \subseteq ToSet(q)
    <2> SUFFICES ASSUME NEW i \in DOMAIN mirror, mirror[i] \notin manifest
                 PROVE  mirror[i] \in ToSet(q)
      BY DEF ToSet
    <2>1. PICK k \in 1..n : Nth(kept, k) = i
      BY <1>5, <1>8
    <2> QED BY <2>1, <1>9 DEF ToSet
  <1>13. \A s : OnceIn(mirror, s) => OnceIn(q, s)
    BY <1>5, <1>7, <1>9 DEF OnceIn
  <1> QED BY <1>1, <1>10, <1>11, <1>12, <1>13

\* A step of a cycle leaves the other cycles alone.
LEMMA CycleFacts ==
    ASSUME NodeInv, NEW c \in Cycle, NEW r, cycle' = [cycle EXCEPT ![c] = r]
    PROVE  /\ cycle'[c] = r /\ DOMAIN cycle' = Cycle
           /\ \A d \in Cycle : d # c => cycle'[d] = cycle[d]
           /\ r \in CycleState => cycle' \in [Cycle -> CycleState]
  BY DEF NodeInv

\* The record that each step of a cycle leaves for it.
LEMMA CycleSteps ==
    ASSUME NodeInv, NEW c \in Cycle
    PROVE  /\ Reconcile(c) => cycle' = [cycle EXCEPT ![c] = [queue |-> pending, failed |-> <<>>, at |-> "next"]]
           /\ Submit(c) => cycle' = [cycle EXCEPT ![c] =
                  IF Head(cycle[c].queue) \in done
                  THEN [queue |-> Tail(cycle[c].queue), failed |-> cycle[c].failed, at |-> "next"]
                  ELSE [queue |-> cycle[c].queue, failed |-> cycle[c].failed, at |-> "sent"]]
           /\ Accept(c) => cycle' = [cycle EXCEPT ![c] =
                  [queue |-> cycle[c].queue, failed |-> cycle[c].failed, at |-> "stored"]]
           /\ Note(c) => cycle' = [cycle EXCEPT ![c] =
                  [queue |-> Tail(cycle[c].queue), failed |-> cycle[c].failed, at |-> "next"]]
           /\ Fail(c) => cycle' = [cycle EXCEPT ![c] =
                  [queue |-> Tail(cycle[c].queue), at |-> "next",
                   failed |-> Append(cycle[c].failed, Head(cycle[c].queue))]]
           /\ Finish(c) => cycle' = [cycle EXCEPT ![c] = Idle]
  <1>1. cycle \in [Cycle -> CycleState] /\ cycle[c] \in CycleState
    BY DEF NodeInv
  <1>2. cycle[c] = [queue |-> cycle[c].queue, failed |-> cycle[c].failed, at |-> cycle[c].at]
    BY <1>1 DEF CycleState
  <1>3. Reconcile(c) => cycle' = [cycle EXCEPT ![c] = [queue |-> pending, failed |-> <<>>, at |-> "next"]]
    BY DEF Reconcile
  <1>4. Submit(c) => cycle' = [cycle EXCEPT ![c] =
                  IF Head(cycle[c].queue) \in done
                  THEN [queue |-> Tail(cycle[c].queue), failed |-> cycle[c].failed, at |-> "next"]
                  ELSE [queue |-> cycle[c].queue, failed |-> cycle[c].failed, at |-> "sent"]]
    BY <1>1, <1>2 DEF Submit
  <1>5. Accept(c) => cycle' = [cycle EXCEPT ![c] =
                  [queue |-> cycle[c].queue, failed |-> cycle[c].failed, at |-> "stored"]]
    BY <1>1, <1>2 DEF Accept
  <1>6. Note(c) => cycle' = [cycle EXCEPT ![c] =
                  [queue |-> Tail(cycle[c].queue), failed |-> cycle[c].failed, at |-> "next"]]
    BY <1>1, <1>2 DEF Note
  <1>7. Fail(c) => cycle' = [cycle EXCEPT ![c] =
                  [queue |-> Tail(cycle[c].queue), at |-> "next",
                   failed |-> Append(cycle[c].failed, Head(cycle[c].queue))]]
    BY <1>1, <1>2 DEF Fail
  <1>8. Finish(c) => cycle' = [cycle EXCEPT ![c] = Idle]
    BY DEF Finish
  <1> QED BY <1>3, <1>4, <1>5, <1>6, <1>7, <1>8

\* The same, for each step: the stepping cycle's record, which is well-formed.
LEMMA CycleRecords ==
    ASSUME NodeInv, NEW c \in Cycle, Progress(c) \/ Fail(c)
    PROVE  /\ cycle' \in [Cycle -> CycleState]
           /\ \A d \in Cycle : d # c => cycle'[d] = cycle[d]
           /\ cycle[c].queue \in Seq(SeqNo) /\ cycle[c].failed \in Seq(SeqNo)
           /\ cycle'[c].queue \in Seq(SeqNo) /\ cycle'[c].failed \in Seq(SeqNo)
           /\ Reconcile(c) => cycle'[c].queue = pending /\ cycle'[c].failed = <<>> /\ cycle'[c].at = "next"
           /\ Submit(c) => IF Head(cycle[c].queue) \in done
                           THEN /\ cycle'[c].queue = Tail(cycle[c].queue) /\ cycle'[c].at = "next"
                                /\ cycle'[c].failed = cycle[c].failed
                           ELSE /\ cycle'[c].queue = cycle[c].queue /\ cycle'[c].at = "sent"
                                /\ cycle'[c].failed = cycle[c].failed
           /\ Accept(c) => /\ cycle'[c].queue = cycle[c].queue /\ cycle'[c].at = "stored"
                           /\ cycle'[c].failed = cycle[c].failed
           /\ Note(c) => /\ cycle'[c].queue = Tail(cycle[c].queue) /\ cycle'[c].at = "next"
                         /\ cycle'[c].failed = cycle[c].failed
           /\ Fail(c) => /\ cycle'[c].queue = Tail(cycle[c].queue) /\ cycle'[c].at = "next"
                         /\ cycle'[c].failed = Append(cycle[c].failed, Head(cycle[c].queue))
           /\ Finish(c) => cycle'[c] = Idle
  <1>1. /\ cycle[c] \in CycleState /\ pending \in Seq(SeqNo)
        /\ cycle[c].at \in {"sent", "stored"} => cycle[c].queue # <<>>
    BY DEF NodeInv
  <1>2. cycle[c].queue \in Seq(SeqNo) /\ cycle[c].failed \in Seq(SeqNo)
    BY <1>1 DEF CycleState
  <1>3. cycle[c].queue # <<>> =>
           /\ Head(cycle[c].queue) \in SeqNo /\ Tail(cycle[c].queue) \in Seq(SeqNo)
           /\ Append(cycle[c].failed, Head(cycle[c].queue)) \in Seq(SeqNo)
    BY <1>2, TailHolds, AppendHolds
  <1>4. <<>> \in Seq(SeqNo)
    BY EmptyHolds
  <1> DEFINE Good == /\ cycle' \in [Cycle -> CycleState]
                     /\ \A d \in Cycle : d # c => cycle'[d] = cycle[d]
  <1>5. \A r \in CycleState : cycle' = [cycle EXCEPT ![c] = r] => Good /\ cycle'[c] = r
    BY CycleFacts
  <1>6. Reconcile(c) => Good /\ cycle'[c] = [queue |-> pending, failed |-> <<>>, at |-> "next"]
    <2> DEFINE r == [queue |-> pending, failed |-> <<>>, at |-> "next"]
    <2>1. r \in CycleState
      BY <1>1, <1>4 DEF CycleState
    <2> HIDE DEF Good
    <2> QED BY <2>1, <1>5, CycleSteps
  <1>7. Submit(c) => /\ Good
                     /\ cycle'[c] = IF Head(cycle[c].queue) \in done
                                    THEN [queue |-> Tail(cycle[c].queue), failed |-> cycle[c].failed, at |-> "next"]
                                    ELSE [queue |-> cycle[c].queue, failed |-> cycle[c].failed, at |-> "sent"]
    <2> DEFINE r == IF Head(cycle[c].queue) \in done
                    THEN [queue |-> Tail(cycle[c].queue), failed |-> cycle[c].failed, at |-> "next"]
                    ELSE [queue |-> cycle[c].queue, failed |-> cycle[c].failed, at |-> "sent"]
    <2>1. Submit(c) => r \in CycleState
      BY <1>1, <1>2, <1>3 DEF CycleState, Submit
    <2> HIDE DEF Good
    <2> QED BY <2>1, <1>5, CycleSteps
  <1>8. Accept(c) => Good /\ cycle'[c] = [queue |-> cycle[c].queue, failed |-> cycle[c].failed, at |-> "stored"]
    <2> DEFINE r == [queue |-> cycle[c].queue, failed |-> cycle[c].failed, at |-> "stored"]
    <2>1. r \in CycleState
      BY <1>2 DEF CycleState
    <2> HIDE DEF Good
    <2> QED BY <2>1, <1>5, CycleSteps
  <1>9. Note(c) => Good /\ cycle'[c] = [queue |-> Tail(cycle[c].queue), failed |-> cycle[c].failed, at |-> "next"]
    <2> DEFINE r == [queue |-> Tail(cycle[c].queue), failed |-> cycle[c].failed, at |-> "next"]
    <2>1. Note(c) => r \in CycleState
      BY <1>1, <1>2, <1>3 DEF CycleState, Note
    <2> HIDE DEF Good
    <2> QED BY <2>1, <1>5, CycleSteps
  <1>10. Fail(c) => Good /\ cycle'[c] = [queue |-> Tail(cycle[c].queue), at |-> "next",
                                        failed |-> Append(cycle[c].failed, Head(cycle[c].queue))]
    <2> DEFINE r == [queue |-> Tail(cycle[c].queue), at |-> "next",
                     failed |-> Append(cycle[c].failed, Head(cycle[c].queue))]
    <2>1. Fail(c) => r \in CycleState
      BY <1>1, <1>2, <1>3 DEF CycleState, Fail
    <2> HIDE DEF Good
    <2> QED BY <2>1, <1>5, CycleSteps
  <1>11. Finish(c) => Good /\ cycle'[c] = Idle
    <2>1. Idle \in CycleState
      BY <1>4 DEF CycleState, Idle
    <2> HIDE DEF Good
    <2> QED BY <2>1, <1>5, CycleSteps
  <1>12. Good
    BY <1>6, <1>7, <1>8, <1>9, <1>10, <1>11 DEF Progress
  <1>13. cycle'[c].queue \in Seq(SeqNo) /\ cycle'[c].failed \in Seq(SeqNo)
    BY <1>12 DEF CycleState
  <1>14. /\ Reconcile(c) => cycle'[c].queue = pending /\ cycle'[c].failed = <<>> /\ cycle'[c].at = "next"
         /\ Accept(c) => /\ cycle'[c].queue = cycle[c].queue /\ cycle'[c].at = "stored"
                         /\ cycle'[c].failed = cycle[c].failed
         /\ Finish(c) => cycle'[c] = Idle
    BY <1>6, <1>8, <1>11
  <1>15. Submit(c) => IF Head(cycle[c].queue) \in done
                      THEN /\ cycle'[c].queue = Tail(cycle[c].queue) /\ cycle'[c].at = "next"
                           /\ cycle'[c].failed = cycle[c].failed
                      ELSE /\ cycle'[c].queue = cycle[c].queue /\ cycle'[c].at = "sent"
                           /\ cycle'[c].failed = cycle[c].failed
    <2>1. CASE Head(cycle[c].queue) \in done
      BY <1>7, <2>1
    <2>2. CASE Head(cycle[c].queue) \notin done
      BY <1>7, <2>2
    <2> QED BY <2>1, <2>2
  <1>16. Note(c) => /\ cycle'[c].queue = Tail(cycle[c].queue) /\ cycle'[c].at = "next"
                    /\ cycle'[c].failed = cycle[c].failed
    BY <1>9
  <1>17. Fail(c) => /\ cycle'[c].queue = Tail(cycle[c].queue) /\ cycle'[c].at = "next"
                    /\ cycle'[c].failed = Append(cycle[c].failed, Head(cycle[c].queue))
    BY <1>10
  <1> QED BY <1>2, <1>12, <1>13, <1>14, <1>15, <1>16, <1>17

\* A node on a new volume satisfies the invariant.
LEMMA SinkInit == Init => SinkInv
  <1> SUFFICES ASSUME Init PROVE SinkInv
    OBVIOUS
  <1>1. <<>> \in Seq(SeqNo) /\ ToSet(<<>>) = {} /\ \A s : OnceIn(<<>>, s)
    BY EmptyHolds
  <1>2. Idle \in CycleState
    BY <1>1 DEF Idle, CycleState
  <1>3. cycle \in [Cycle -> CycleState] /\ \A c \in Cycle : cycle[c] = Idle
    BY <1>2 DEF Init
  <1>4. Idle.queue = <<>> /\ Idle.failed = <<>> /\ Idle.at = "idle"
    BY DEF Idle
  <1>5. NodeInv
    BY <1>1, <1>3, <1>4 DEF Init, NodeInv
  <1>6. CountInv
    BY DEF Init, CountInv
  <1>7. CoverInv /\ StoredInv
    BY <1>3, <1>4 DEF Init, CoverInv, StoredInv
  <1>8. PlaceInv
    BY <1>1, <1>3, <1>4 DEF Init, PlaceInv, OnePlace, OnceHeld, Held
  <1>9. OnceInv
    BY <1>3, <1>4 DEF Init, OnceInv, Once, Submitted
  <1> QED BY <1>5, <1>6, <1>7, <1>8, <1>9 DEF SinkInv

\* Every step keeps the types of the sink and of its counters.
LEMMA NodeStep == NodeInv /\ CountInv /\ [Next]_vars => NodeInv' /\ CountInv'
  <1> SUFFICES ASSUME NodeInv, CountInv, [Next]_vars PROVE NodeInv' /\ CountInv'
    OBVIOUS
  <1> USE SinkConstants
  <1>0. <<>> \in Seq(SeqNo) /\ Idle \in CycleState /\ Idle.at = "idle"
    BY EmptyHolds DEF Idle, CycleState
  <1>1. CASE UNCHANGED vars
    BY <1>1 DEF NodeInv, CountInv, vars, queueVars
  <1>2. CASE Boot
    BY <1>2, RequeueFacts DEF Boot, NodeInv, CountInv
  <1>3. CASE Crash
    <2>1. cycle' \in [Cycle -> CycleState] /\ \A c \in Cycle : cycle'[c] = Idle
      BY <1>3, <1>0 DEF Crash
    <2>2. \A c \in InFlight : Head(cycle[c].queue) \in SeqNo
      BY TailHolds DEF InFlight, NodeInv, CycleState
    <2>3. uncertain' \subseteq SeqNo
      BY <1>3, <2>2 DEF Crash, CountInv
    <2>4. NodeInv'
      BY <1>3, <1>0, <2>1 DEF Crash, NodeInv
    <2> QED BY <1>3, <2>3, <2>4 DEF Crash, CountInv
  <1>4. ASSUME NEW s \in SeqNo, AppendRecord(s) \/ CliAppend(s) PROVE NodeInv' /\ CountInv'
    <2>0. /\ mirror \in Seq(SeqNo) /\ pending \in Seq(SeqNo)
          /\ Append(mirror, s) \in Seq(SeqNo) /\ Append(pending, s) \in Seq(SeqNo)
      BY AppendHolds DEF NodeInv
    <2>1. mirror' \in Seq(SeqNo) /\ pending' \in Seq(SeqNo)
      BY <1>4, <2>0 DEF AppendRecord, CliAppend, queueVars
    <2> QED BY <1>4, <2>1 DEF NodeInv, CountInv, AppendRecord, CliAppend, queueVars
  <1>5. ASSUME NEW c \in Cycle, Progress(c) \/ Fail(c) PROVE NodeInv' /\ CountInv'
    <2>0. /\ cycle' \in [Cycle -> CycleState]
          /\ \A d \in Cycle : d # c => cycle'[d] = cycle[d]
          /\ cycle[c].queue \in Seq(SeqNo) /\ cycle[c].failed \in Seq(SeqNo)
      BY <1>5, CycleRecords
    <2>1. /\ cycle[c].at = "idle" => cycle[c] = Idle
          /\ cycle[c].at # "idle" => up
          /\ cycle[c].at \in {"sent", "stored"} => cycle[c].queue # <<>> /\ Head(cycle[c].queue) \in SeqNo
      BY <2>0, TailHolds DEF NodeInv
    <2>2. CASE Reconcile(c)
      <3>1. cycle'[c].at = "next"
        BY <2>2, <1>5, CycleRecords
      <3> QED BY <2>0, <2>2, <3>1, <1>0 DEF Reconcile, NodeInv, CountInv
    <2>3. CASE Submit(c)
      <3>1. \/ cycle'[c].at = "next"
            \/ cycle'[c].at = "sent" /\ cycle'[c].queue = cycle[c].queue
        BY <2>3, <1>5, CycleRecords
      <3> QED BY <2>0, <2>1, <2>3, <3>1 DEF Submit, NodeInv, CountInv
    <2>4. CASE Accept(c)
      <3>1. cycle'[c].at = "stored" /\ cycle'[c].queue = cycle[c].queue
        BY <2>4, <1>5, CycleRecords
      <3>2. puts' \in [SeqNo -> Nat]
        BY <2>1, <2>4 DEF Accept, CountInv
      <3> QED BY <2>0, <2>1, <2>4, <3>1, <3>2 DEF Accept, NodeInv, CountInv
    <2>5. CASE Note(c)
      <3>1. cycle'[c].at = "next"
        BY <2>5, <1>5, CycleRecords
      <3> QED BY <2>0, <2>1, <2>5, <3>1 DEF Note, NodeInv, CountInv
    <2>6. CASE Fail(c)
      <3>1. cycle'[c].at = "next"
        BY <2>6, <1>5, CycleRecords
      <3> QED BY <2>0, <2>1, <2>6, <3>1 DEF Fail, NodeInv, CountInv
    <2>7. CASE Finish(c)
      <3>1. cycle'[c] = Idle
        BY <2>7, <1>5, CycleRecords
      <3>2. pending' \in Seq(SeqNo)
        BY <2>0, <2>7, ConcatHolds DEF Finish, NodeInv
      <3> QED BY <1>0, <2>0, <2>1, <2>7, <3>1, <3>2 DEF Finish, NodeInv, CountInv
    <2> QED BY <1>5, <2>2, <2>3, <2>4, <2>5, <2>6, <2>7 DEF Progress
  <1> QED BY <1>1, <1>2, <1>3, <1>4, <1>5 DEF Next

\* Between its start and its end a cycle lets go only of what is noted.
LEMMA HandsFacts ==
    ASSUME NodeInv, NEW c \in Cycle, Submit(c) \/ Accept(c) \/ Note(c) \/ Fail(c)
    PROVE  /\ Held(c)' \subseteq Held(c) /\ Held(c) \subseteq Held(c)' \cup done'
           /\ \A s : OnceHeld(c, s) => OnceHeld(c, s)'
           /\ up' = up /\ mirror' = mirror /\ pending' = pending /\ done \subseteq done'
           /\ \A d \in Cycle : d # c => cycle'[d] = cycle[d]
  <1>1. Progress(c) \/ Fail(c)
    BY DEF Progress
  <1>2. cycle[c].queue \in Seq(SeqNo) /\ cycle[c].failed \in Seq(SeqNo)
    BY <1>1, CycleRecords
  <1>3. cycle[c].at \in {"sent", "stored"} => cycle[c].queue # <<>>
    BY DEF NodeInv
  <1>4. up' = up /\ mirror' = mirror /\ pending' = pending /\ done \subseteq done'
    BY DEF Submit, Accept, Note, Fail
  <1>5. \A d \in Cycle : d # c => cycle'[d] = cycle[d]
    BY <1>1, CycleRecords
  <1> DEFINE q == cycle[c].queue
             f == cycle[c].failed
             h == Head(cycle[c].queue)
  <1>6. q # <<>> => /\ h \in SeqNo /\ ToSet(q) = ToSet(Tail(q)) \cup {h}
                    /\ \A s : OnceIn(q, s) => OnceIn(Tail(q), s)
                    /\ \A s : OnceIn(q, s) /\ s \in ToSet(Tail(q)) => s # h
                    /\ ToSet(Append(f, h)) = ToSet(f) \cup {h}
                    /\ \A s : OnceIn(f, s) /\ (s = h => s \notin ToSet(f)) => OnceIn(Append(f, h), s)
    BY <1>2, TailHolds, AppendHolds
  <1>7. \/ cycle'[c].queue = q /\ cycle'[c].failed = f
        \/ q # <<>> /\ h \in done' /\ cycle'[c].queue = Tail(q) /\ cycle'[c].failed = f
        \/ q # <<>> /\ cycle'[c].queue = Tail(q) /\ cycle'[c].failed = Append(f, h)
    <2>1. CASE Submit(c)
      BY <2>1, <1>1, <1>4, CycleRecords DEF Submit
    <2>2. CASE Accept(c)
      BY <2>2, <1>1, CycleRecords
    <2>3. CASE Note(c)
      BY <2>3, <1>1, <1>3, CycleRecords DEF Note
    <2>4. CASE Fail(c)
      BY <2>4, <1>1, <1>3, CycleRecords DEF Fail
    <2> QED BY <2>1, <2>2, <2>3, <2>4
  <1> HIDE DEF q, f, h
  <1>8. Held(c) = ToSet(q) \cup ToSet(f)
    BY DEF Held, q, f
  <1>9. Held(c)' = ToSet(cycle'[c].queue) \cup ToSet(cycle'[c].failed)
    BY DEF Held
  <1>10. Held(c)' \subseteq Held(c) /\ Held(c) \subseteq Held(c)' \cup done'
    BY <1>6, <1>7, <1>8, <1>9
  <1>11. \A s : OnceHeld(c, s) => OnceHeld(c, s)'
    <2> SUFFICES ASSUME NEW s, OnceHeld(c, s) PROVE OnceHeld(c, s)'
      OBVIOUS
    <2>1. OnceIn(q, s) /\ OnceIn(f, s) /\ ~(s \in ToSet(q) /\ s \in ToSet(f))
      BY DEF OnceHeld, q, f
    <2>2. /\ OnceIn(cycle'[c].queue, s) /\ OnceIn(cycle'[c].failed, s)
          /\ ~(s \in ToSet(cycle'[c].queue) /\ s \in ToSet(cycle'[c].failed))
      BY <2>1, <1>6, <1>7
    <2> QED BY <2>2 DEF OnceHeld
  <1> QED BY <1>4, <1>5, <1>10, <1>11

\* Every step leaves each mirrored record published, queued or in a cycle's hands.
LEMMA CoverStep == NodeInv /\ CoverInv /\ [Next]_vars => CoverInv'
  <1> SUFFICES ASSUME NodeInv, CoverInv, [Next]_vars PROVE CoverInv'
    OBVIOUS
  <1>0. mirror \in Seq(SeqNo) /\ pending \in Seq(SeqNo)
    BY DEF NodeInv
  <1>1. CASE UNCHANGED vars
    BY <1>1 DEF CoverInv, vars, queueVars, Held
  <1>2. CASE Boot
    <2>1. ToSet(pending') = ToSet(mirror) \ manifest /\ mirror' = mirror /\ done' = manifest
      BY <1>2, RequeueFacts DEF Boot
    <2> QED BY <2>1 DEF CoverInv
  <1>3. CASE Crash
    BY <1>3 DEF Crash, CoverInv
  <1>4. ASSUME NEW s \in SeqNo, AppendRecord(s) PROVE CoverInv'
    <2>1. ToSet(mirror') = ToSet(mirror) \cup {s} /\ ToSet(pending') = ToSet(pending) \cup {s}
      BY <1>4, <1>0, AppendHolds DEF AppendRecord
    <2>2. up /\ done' = done /\ \A c \in Cycle : Held(c)' = Held(c)
      BY <1>4 DEF AppendRecord, Held
    <2> QED BY <2>1, <2>2 DEF CoverInv
  <1>5. ASSUME NEW s \in SeqNo, CliAppend(s) PROVE CoverInv'
    BY <1>5 DEF CliAppend, CoverInv
  <1>6. ASSUME NEW c \in Cycle, Reconcile(c) PROVE CoverInv'
    <2>1. /\ cycle'[c].queue = pending /\ \A d \in Cycle : d # c => cycle'[d] = cycle[d]
      BY <1>6, CycleRecords DEF Progress
    <2>2. cycle[c] = Idle
      BY <1>6 DEF Reconcile, NodeInv
    <2>3. Held(c) = {}
      BY <2>2, EmptyHolds DEF Held, Idle
    <2>4. ToSet(pending) \subseteq Held(c)' /\ \A d \in Cycle : d # c => Held(d)' = Held(d)
      BY <2>1 DEF Held
    <2>5. up' = up /\ mirror' = mirror /\ done' = done
      BY <1>6 DEF Reconcile
    <2> QED BY <2>3, <2>4, <2>5 DEF CoverInv
  <1>7. ASSUME NEW c \in Cycle, Submit(c) \/ Accept(c) \/ Note(c) \/ Fail(c) PROVE CoverInv'
    <2>1. /\ Held(c) \subseteq Held(c)' \cup done'
          /\ up' = up /\ mirror' = mirror /\ pending' = pending /\ done \subseteq done'
      BY <1>7, HandsFacts
    <2>2. \A d \in Cycle : d # c => Held(d)' = Held(d)
      BY <1>7, HandsFacts DEF Held
    <2> QED BY <2>1, <2>2 DEF CoverInv
  <1>8. ASSUME NEW c \in Cycle, Finish(c) PROVE CoverInv'
    <2>1. \A d \in Cycle : d # c => Held(d)' = Held(d)
      BY <1>8, CycleRecords DEF Progress, Held
    <2>2. cycle[c].failed \in Seq(SeqNo) /\ cycle[c].queue = <<>>
      BY <1>8, CycleRecords DEF Progress, Finish
    <2>3. Held(c) = ToSet(cycle[c].failed)
      BY <2>2, EmptyHolds DEF Held
    <2>4. ToSet(pending') = ToSet(cycle[c].failed) \cup ToSet(pending)
      BY <1>0, <1>8, <2>2, ConcatHolds DEF Finish
    <2>5. up' = up /\ mirror' = mirror /\ done' = done
      BY <1>8 DEF Finish
    <2> QED BY <2>1, <2>3, <2>4, <2>5 DEF CoverInv
  <1> QED BY <1>1, <1>2, <1>3, <1>4, <1>5, <1>6, <1>7, <1>8 DEF Next, Progress

\* Every step keeps the manifest and the external store in agreement.
LEMMA StoredStep == NodeInv /\ CountInv /\ StoredInv /\ [Next]_vars => StoredInv'
  <1> SUFFICES ASSUME NodeInv, CountInv, StoredInv, [Next]_vars PROVE StoredInv'
    OBVIOUS
  <1>1. CASE UNCHANGED vars
    BY <1>1 DEF StoredInv, vars, queueVars
  <1>2. CASE Boot
    BY <1>2 DEF Boot, StoredInv
  <1>3. CASE Crash
    BY <1>3 DEF Crash, StoredInv, Idle
  <1>4. ASSUME NEW s \in SeqNo, AppendRecord(s) \/ CliAppend(s) PROVE StoredInv'
    BY <1>4 DEF AppendRecord, CliAppend, StoredInv, queueVars
  <1>5. ASSUME NEW c \in Cycle, Progress(c) \/ Fail(c) PROVE StoredInv'
    <2>1. \A d \in Cycle : d # c => cycle'[d] = cycle[d]
      BY <1>5, CycleRecords
    <2>2. CASE Accept(c)
      <3>1. cycle'[c].queue = cycle[c].queue /\ cycle[c].queue # <<>> /\ cycle[c].queue \in Seq(SeqNo)
        BY <1>5, <2>2, CycleRecords DEF Accept, NodeInv
      <3>2. Head(cycle[c].queue) \in SeqNo
        BY <3>1, TailHolds
      <3>3. puts'[Head(cycle[c].queue)] > 0 /\ \A s \in SeqNo : puts[s] > 0 => puts'[s] > 0
        BY <2>2, <3>2 DEF Accept, CountInv
      <3>4. manifest' = manifest /\ manifest \subseteq SeqNo
        BY <2>2 DEF Accept, NodeInv
      <3>5. \A d \in Cycle : cycle[d].at = "stored" => Head(cycle[d].queue) \in SeqNo
        BY TailHolds DEF NodeInv, CycleState
      <3> QED BY <2>1, <3>1, <3>3, <3>4, <3>5 DEF StoredInv
    <2>3. CASE Note(c)
      <3>1. cycle'[c].at = "next"
        BY <1>5, <2>3, CycleRecords
      <3>2. puts' = puts /\ manifest' = manifest \cup {Head(cycle[c].queue)} /\ cycle[c].at = "stored"
        BY <2>3 DEF Note
      <3> QED BY <2>1, <3>1, <3>2 DEF StoredInv
    <2>4. CASE Reconcile(c) \/ Submit(c) \/ Fail(c) \/ Finish(c)
      <3>1. cycle'[c].at # "stored"
        BY <1>5, <2>4, CycleRecords DEF Idle
      <3>2. puts' = puts /\ manifest' = manifest
        BY <2>4 DEF Reconcile, Submit, Fail, Finish
      <3> QED BY <2>1, <3>1, <3>2 DEF StoredInv
    <2> QED BY <1>5, <2>2, <2>3, <2>4 DEF Progress
  <1> QED BY <1>1, <1>2, <1>3, <1>4, <1>5 DEF Next

\* No step puts a record that was mirrored once into two places.
LEMMA PlaceStep == NodeInv /\ PlaceInv /\ [Next]_vars => PlaceInv'
  <1> SUFFICES ASSUME NodeInv, PlaceInv, [Next]_vars PROVE PlaceInv'
    OBVIOUS
  <1>0. mirror \in Seq(SeqNo) /\ pending \in Seq(SeqNo)
    BY DEF NodeInv
  <1>e. /\ ToSet(<<>>) = {} /\ \A s : OnceIn(<<>>, s)
        /\ Idle.queue = <<>> /\ Idle.failed = <<>>
    BY EmptyHolds DEF Idle
  <1>1. CASE UNCHANGED vars
    BY <1>1 DEF PlaceInv, OnePlace, OnceHeld, Held, vars, queueVars
  <1>2. CASE Boot
    <2>1. /\ ToSet(pending') \subseteq ToSet(mirror) /\ mirror' = mirror
          /\ \A s : OnceIn(mirror, s) => OnceIn(pending', s)
      BY <1>2, RequeueFacts DEF Boot
    <2>2. \A c \in Cycle : cycle'[c] = Idle
      BY <1>2 DEF Boot, NodeInv
    <2>3. \A c \in Cycle : Held(c)' = {} /\ \A s : OnceHeld(c, s)'
      BY <2>2, <1>e DEF Held, OnceHeld
    <2> QED BY <2>1, <2>3 DEF PlaceInv, OnePlace
  <1>3. CASE Crash
    <2>1. pending' = <<>> /\ mirror' = mirror /\ \A c \in Cycle : cycle'[c] = Idle
      BY <1>3 DEF Crash
    <2>2. \A c \in Cycle : Held(c)' = {} /\ \A s : OnceHeld(c, s)'
      BY <2>1, <1>e DEF Held, OnceHeld
    <2> QED BY <2>1, <2>2, <1>e DEF PlaceInv, OnePlace
  <1>4. ASSUME NEW s \in SeqNo, AppendRecord(s) PROVE PlaceInv'
    <2>1. /\ ToSet(mirror') = ToSet(mirror) \cup {s} /\ ToSet(pending') = ToSet(pending) \cup {s}
          /\ \A t : OnceIn(mirror', t) => OnceIn(mirror, t) /\ (t \in ToSet(mirror) => t # s)
          /\ \A t : OnceIn(pending, t) /\ (t = s => t \notin ToSet(pending)) => OnceIn(pending', t)
      BY <1>4, <1>0, AppendHolds DEF AppendRecord
    <2>2. \A c \in Cycle : Held(c)' = Held(c) /\ \A t : OnceHeld(c, t) => OnceHeld(c, t)'
      BY <1>4 DEF AppendRecord, Held, OnceHeld
    <2>3. ASSUME NEW t \in SeqNo, OnceIn(mirror', t) PROVE OnePlace(t)'
      <3>1. OnePlace(t) /\ (t \in ToSet(mirror) => t # s)
        BY <2>1, <2>3 DEF PlaceInv
      <3>2. OnceIn(pending', t)
        BY <3>1, <2>1 DEF OnePlace, PlaceInv
      <3>3. \A c \in Cycle : OnceHeld(c, t)'
        BY <3>1, <2>2 DEF OnePlace
      <3>4. \A c, d \in Cycle : t \in Held(c)' /\ t \in Held(d)' => c = d
        BY <3>1, <2>2 DEF OnePlace
      <3>5. \A c \in Cycle : ~(t \in ToSet(pending') /\ t \in Held(c)')
        BY <3>1, <2>1, <2>2 DEF OnePlace, PlaceInv
      <3> QED BY <3>2, <3>3, <3>4, <3>5 DEF OnePlace
    <2>4. ToSet(pending') \subseteq ToSet(mirror') /\ \A c \in Cycle : Held(c)' \subseteq ToSet(mirror')
      BY <2>1, <2>2 DEF PlaceInv
    <2> QED BY <2>3, <2>4 DEF PlaceInv
  <1>5. ASSUME NEW s \in SeqNo, CliAppend(s) PROVE PlaceInv'
    <2>1. /\ ToSet(mirror) \subseteq ToSet(mirror') /\ pending' = pending /\ cycle' = cycle
          /\ \A t : OnceIn(mirror', t) => OnceIn(mirror, t)
      BY <1>5, <1>0, AppendHolds DEF CliAppend, queueVars
    <2>2. \A t : OnePlace(t) => OnePlace(t)'
      BY <2>1 DEF OnePlace, OnceHeld, Held
    <2>3. \A c \in Cycle : Held(c)' = Held(c)
      BY <2>1 DEF Held
    <2> QED BY <2>1, <2>2, <2>3 DEF PlaceInv
  <1>6. ASSUME NEW c \in Cycle, Reconcile(c) PROVE PlaceInv'
    <2>1. /\ cycle'[c].queue = pending /\ cycle'[c].failed = <<>>
          /\ \A d \in Cycle : d # c => cycle'[d] = cycle[d]
      BY <1>6, CycleRecords DEF Progress
    <2>2. Held(c)' = ToSet(pending) /\ \A d \in Cycle : d # c => Held(d)' = Held(d)
      BY <2>1, <1>e DEF Held
    <2>3. /\ \A s : OnceIn(pending, s) => OnceHeld(c, s)'
          /\ \A d \in Cycle : d # c => \A s : OnceHeld(d, s) => OnceHeld(d, s)'
      BY <2>1, <1>e DEF OnceHeld
    <2>4. mirror' = mirror /\ pending' = <<>>
      BY <1>6 DEF Reconcile
    <2>5. ASSUME NEW s \in SeqNo, OnePlace(s) PROVE OnePlace(s)'
      BY <2>2, <2>3, <2>4, <2>5, <1>e DEF OnePlace
    <2> QED BY <2>2, <2>4, <2>5, <1>e DEF PlaceInv
  <1>7. ASSUME NEW c \in Cycle, Submit(c) \/ Accept(c) \/ Note(c) \/ Fail(c) PROVE PlaceInv'
    <2>1. /\ Held(c)' \subseteq Held(c) /\ mirror' = mirror /\ pending' = pending
          /\ \A s : OnceHeld(c, s) => OnceHeld(c, s)'
      BY <1>7, HandsFacts
    <2>2. \A d \in Cycle : d # c => cycle'[d] = cycle[d]
      BY <1>7, HandsFacts
    <2>3. \A d \in Cycle : d # c => Held(d)' = Held(d) /\ \A s : OnceHeld(d, s) => OnceHeld(d, s)'
      BY <2>2 DEF Held, OnceHeld
    <2>4. ASSUME NEW s \in SeqNo, OnePlace(s) PROVE OnePlace(s)'
      BY <2>1, <2>3, <2>4 DEF OnePlace
    <2> QED BY <2>1, <2>3, <2>4 DEF PlaceInv
  <1>8. ASSUME NEW c \in Cycle, Finish(c) PROVE PlaceInv'
    <2>1. /\ cycle[c].failed \in Seq(SeqNo) /\ cycle[c].queue = <<>> /\ cycle'[c] = Idle
          /\ \A d \in Cycle : d # c => cycle'[d] = cycle[d]
      BY <1>8, CycleRecords DEF Progress, Finish
    <2>2. /\ Held(c) = ToSet(cycle[c].failed) /\ Held(c)' = {}
          /\ \A d \in Cycle : d # c => Held(d)' = Held(d)
      BY <2>1, <1>e DEF Held
    <2>3. /\ ToSet(pending') = ToSet(cycle[c].failed) \cup ToSet(pending) /\ mirror' = mirror
          /\ \A s : /\ OnceIn(cycle[c].failed, s) /\ OnceIn(pending, s)
                    /\ ~(s \in ToSet(cycle[c].failed) /\ s \in ToSet(pending))
                    => OnceIn(pending', s)
      BY <1>0, <1>8, <2>1, ConcatHolds DEF Finish
    <2>4. /\ \A s : OnceHeld(c, s)' /\ (OnceHeld(c, s) => OnceIn(cycle[c].failed, s))
          /\ \A d \in Cycle : d # c => \A s : OnceHeld(d, s) => OnceHeld(d, s)'
      BY <2>1, <1>e DEF OnceHeld
    <2>5. ASSUME NEW s \in SeqNo, OnePlace(s) PROVE OnePlace(s)'
      BY <2>2, <2>3, <2>4, <2>5 DEF OnePlace
    <2> QED BY <2>2, <2>3, <2>5 DEF PlaceInv
  <1> QED BY <1>1, <1>2, <1>3, <1>4, <1>5, <1>6, <1>7, <1>8 DEF Next, Progress

\* A cycle has what it submitted in its hands.
LEMMA SubmittedHeld ==
    ASSUME NodeInv, NEW c \in Cycle, NEW s, Submitted(c, s)
    PROVE  s \in Held(c) /\ s \in SeqNo /\ up
  <1>1. cycle[c].queue # <<>> /\ cycle[c].queue \in Seq(SeqNo) /\ up
    BY DEF NodeInv, Submitted, CycleState
  <1> QED BY <1>1, TailHolds DEF Submitted, Held

\* Every step keeps the count of publications of a record with where that record is.
LEMMA OnceStep == NodeInv /\ CountInv /\ PlaceInv /\ OnceInv /\ [Next]_vars => OnceInv'
  <1> SUFFICES ASSUME NodeInv, CountInv, PlaceInv, OnceInv, [Next]_vars,
                      NEW s \in SeqNo, OnceIn(mirror', s)
               PROVE  Once(s)'
    BY DEF OnceInv
  <1>0. OnceIn(mirror, s)
    <2>1. mirror' = mirror \/ \E t \in SeqNo : mirror' = Append(mirror, t)
      BY DEF Next, Boot, Crash, AppendRecord, CliAppend, Progress, Reconcile, Submit, Accept, Note,
             Fail, Finish, vars
    <2> QED BY <2>1, AppendHolds DEF NodeInv
  <1>a. Once(s) /\ puts[s] \in Nat
    BY <1>0 DEF OnceInv, CountInv
  <1>b. \A c, d \in Cycle : Submitted(c, s) /\ Submitted(d, s) => c = d
    BY <1>0, SubmittedHeld DEF PlaceInv, OnePlace
  <1>1. CASE UNCHANGED <<cycle, manifest, puts, uncertain>>
    BY <1>1, <1>a DEF Once, Awaited, Submitted
  <1>2. CASE UNCHANGED vars \/ Boot \/ \E t \in SeqNo : AppendRecord(t) \/ CliAppend(t)
    BY <1>1, <1>2 DEF vars, queueVars, Boot, AppendRecord, CliAppend
  <1>3. CASE Crash
    <2>1. \A c \in Cycle : ~Submitted(c, s)'
      BY <1>3 DEF Crash, Idle, Submitted
    <2>2. manifest' = manifest /\ puts' = puts /\ uncertain \subseteq uncertain'
      BY <1>3 DEF Crash
    <2>3. Awaited(s) => s \in uncertain'
      BY <1>3 DEF Crash, InFlight, Submitted, Awaited
    <2> QED BY <2>1, <2>2, <2>3, <1>a DEF Once
  <1>4. ASSUME NEW c \in Cycle, Reconcile(c) \/ Submit(c) \/ Finish(c) PROVE Once(s)'
    <2>1. \A d \in Cycle : d # c => cycle'[d] = cycle[d]
      BY <1>4, CycleRecords DEF Progress
    <2>2. manifest' = manifest /\ puts' = puts /\ uncertain' = uncertain /\ cycle[c].at # "stored"
      BY <1>4 DEF Reconcile, Submit, Finish
    <2>3. Submitted(c, s)' => s \notin manifest
      <3>1. CASE Submit(c)
        <4>1. up /\ done = manifest
          BY <3>1 DEF Submit, NodeInv
        <4>2. \/ cycle'[c].at = "next"
              \/ Head(cycle[c].queue) \notin done /\ cycle'[c].queue = cycle[c].queue
          BY <3>1, CycleRecords DEF Progress
        <4> QED BY <4>1, <4>2 DEF Submitted
      <3>2. CASE Reconcile(c) \/ Finish(c)
        <4>1. cycle'[c].at \in {"idle", "next"}
          BY <3>2, CycleRecords DEF Progress, Idle
        <4> QED BY <4>1 DEF Submitted
      <3> QED BY <1>4, <3>1, <3>2
    <2>4. \A d \in Cycle : d # c => (Submitted(d, s)' <=> Submitted(d, s))
      BY <2>1 DEF Submitted
    <2>5. \A d \in Cycle : Submitted(d, s)' => s \notin manifest'
      BY <2>2, <2>3, <2>4, <1>a DEF Once
    <2>6. Awaited(s) => Awaited(s)'
      BY <2>1, <2>2, <2>4 DEF Awaited
    <2> QED BY <2>2, <2>5, <2>6, <1>a DEF Once
  <1>5. ASSUME NEW c \in Cycle, Accept(c) PROVE Once(s)'
    <2>1. /\ \A d \in Cycle : d # c => cycle'[d] = cycle[d]
          /\ cycle'[c].at = "stored" /\ cycle'[c].queue = cycle[c].queue
      BY <1>5, CycleRecords DEF Progress
    <2>2. manifest' = manifest /\ uncertain' = uncertain /\ cycle[c].at = "sent"
      BY <1>5 DEF Accept
    <2>3. \A d \in Cycle : Submitted(d, s)' <=> Submitted(d, s)
      BY <2>1, <2>2 DEF Submitted
    <2>4. \A d \in Cycle : Submitted(d, s)' => s \notin manifest'
      BY <2>2, <2>3, <1>a DEF Once
    <2>5. CASE Head(cycle[c].queue) = s
      <3>1. Submitted(c, s)
        BY <2>2, <2>5 DEF Submitted
      <3>2. s \notin manifest /\ ~Awaited(s)
        BY <3>1, <2>2, <1>a, <1>b DEF Once, Awaited
      <3>3. s \notin uncertain => puts[s] = 0
        BY <3>2, <1>a DEF Once
      <3>4. puts'[s] = puts[s] + 1
        BY <1>5, <2>5 DEF Accept, CountInv
      <3>5. s \notin uncertain => puts'[s] = 1
        BY <3>3, <3>4
      <3>6. Awaited(s)'
        BY <3>1, <2>1, <2>3 DEF Awaited
      <3> QED BY <3>5, <3>6, <2>2, <2>4 DEF Once
    <2>6. CASE Head(cycle[c].queue) # s
      <3>1. puts'[s] = puts[s]
        BY <1>5, <2>6 DEF Accept, CountInv
      <3>2. Awaited(s) => Awaited(s)'
        BY <2>1, <2>3 DEF Awaited
      <3> QED BY <3>1, <3>2, <2>2, <2>4, <1>a DEF Once
    <2> QED BY <2>5, <2>6
  <1>6. ASSUME NEW c \in Cycle, Note(c) \/ Fail(c) PROVE Once(s)'
    <2>1. (\A d \in Cycle : d # c => cycle'[d] = cycle[d]) /\ cycle'[c].at = "next"
      BY <1>6, CycleRecords DEF Progress
    <2>2. ~Submitted(c, s)' /\ \A d \in Cycle : d # c => (Submitted(d, s)' <=> Submitted(d, s))
      BY <2>1 DEF Submitted
    <2>3. puts' = puts /\ uncertain \subseteq uncertain' /\ manifest \subseteq manifest'
      BY <1>6 DEF Note, Fail
    <2>4. s \in manifest' => s \in manifest \/ Submitted(c, s)
      BY <1>6 DEF Note, Fail, Submitted
    <2>5. cycle[c].at = "stored" /\ Submitted(c, s) => s \in manifest' \cup uncertain'
      BY <1>6 DEF Note, Fail, Submitted
    <2>6. \A d \in Cycle : Submitted(d, s)' => s \notin manifest'
      BY <2>2, <2>4, <1>a, <1>b DEF Once
    <2>7. Awaited(s) => Awaited(s)' \/ s \in manifest' \cup uncertain'
      BY <2>1, <2>2, <2>5 DEF Awaited
    <2> QED BY <2>3, <2>6, <2>7, <1>a DEF Once
  <1> QED BY <1>2, <1>3, <1>4, <1>5, <1>6 DEF Next, Progress

-----------------------------------------------------------------------------
\* One position of s in the mirror is one occurrence.
LEMMA CountOnce ==
    ASSUME NodeInv, NEW s, Cardinality({i \in DOMAIN mirror : mirror[i] = s}) <= 1
    PROVE  OnceIn(mirror, s)
  <1> DEFINE S == {i \in DOMAIN mirror : mirror[i] = s}
  <1>1. IsFiniteSet(DOMAIN mirror)
    BY LenProperties, FS_Interval DEF NodeInv
  <1>2. S \in SUBSET DOMAIN mirror
    OBVIOUS
  <1>3. IsFiniteSet(S)
    BY <1>1, <1>2, FS_Subset
  <1>4. ASSUME NEW i \in S, NEW j \in S PROVE i = j
    <2>1. Cardinality(S) \in Nat /\ Cardinality(S) <= 1 /\ Cardinality(S) # 0
      BY <1>3, <1>4, FS_CardinalityType, FS_EmptySet
    <2> HIDE DEF S
    <2>2. Cardinality(S) = 1
      BY <2>1
    <2> QED BY <1>3, <1>4, <2>2, FS_Singleton
  <1> QED BY <1>4 DEF OnceIn

\* The invariant implies the properties the run checks.
LEMMA SinkImplies == SinkInv => TypeOK /\ NothingDropped /\ ManifestTrue /\ PutOnce
  <1> SUFFICES ASSUME SinkInv PROVE TypeOK /\ NothingDropped /\ ManifestTrue /\ PutOnce
    OBVIOUS
  <1>1. TypeOK
    BY DEF SinkInv, NodeInv, CountInv, TypeOK
  <1>2. NothingDropped
    BY DEF SinkInv, CoverInv, Held, NothingDropped
  <1>3. ManifestTrue
    BY DEF SinkInv, StoredInv, ManifestTrue
  <1>4. PutOnce
    BY CountOnce DEF SinkInv, OnceInv, Once, PutOnce, CountInv
  <1> QED BY <1>1, <1>2, <1>3, <1>4

\* The invariant in every state of the sink.
LEMMA SinkAlways == Spec => []SinkInv
  <1>1. SinkInv /\ [Next]_vars => SinkInv'
    BY NodeStep, CoverStep, StoredStep, PlaceStep, OnceStep DEF SinkInv
  <1> QED BY SinkInit, <1>1, PTL DEF Spec

\* The queues, the manifest and the external store keep their types.
THEOREM SinkTypeCorrect == Spec => []TypeOK
  BY SinkAlways, SinkImplies, PTL

\* append() and reconcile() drop nothing: however cycles overlap, submissions fail and the
\* node restarts, every record of a running node's mirror is noted, queued or held by a cycle.
THEOREM NothingEverDropped == Spec => []NothingDropped
  BY SinkAlways, SinkImplies, PTL

\* storeToken / recordPut: the manifest names only what the external store accepted.
THEOREM ManifestAlwaysTrue == Spec => []ManifestTrue
  BY SinkAlways, SinkImplies, PTL

\* reconcile()'s taking of the whole queue and its skipping of noted records suffice: a record
\* anchored once reaches the write-once store once, unless an outcome was unknown.
THEOREM NeverPutTwice == Spec => []PutOnce
  BY SinkAlways, SinkImplies, PTL

=============================================================================
