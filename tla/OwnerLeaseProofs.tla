-------------------------- MODULE OwnerLeaseProofs --------------------------
(***************************************************************************)
(* Theorems about the owner lease, for every number of processes, every    *)
(* assignment of pids and hosts, and every heartbeat and staleness limit   *)
(* the code's inequality allows: type correctness, mutual exclusion and    *)
(* the takeover of a dead owner's lease.                                   *)
(***************************************************************************)
EXTENDS OwnerLease, FiniteSetTheorems, TLAPS

\* No two live processes have one pid and host, and a process has yet to use its attempts
\* when it is born.
IdentInv == \A p, q \in Proc : Live(p) /\ Live(q) /\ p # q => Ident[p] # Ident[q]
BirthInv == \A p \in Proc : pc[p] = "unborn" => attempt[p] = 1

\* What a contender is about to remove was a lease it may take when it looked, and still is:
\* leases only grow older.
SeenInv == \A p \in Proc : pc[p] \in {"recheck", "unlink"} => MayTake(p, seen[p])

\* A punctual process writes the record it stamped without time passing in between.
AgeInv == punctual => \A p \in Proc : age[p] = 0

\* What an owner's file still has of its life: the heartbeats missed so far and the next one.
Budget(m) == (m + 1) * HeartbeatEvery
Left(p) == IF pc[p] = "owner" THEN timer[p] ELSE 0
Holds(p) == file.holder = p /\ file.whole = TRUE /\ file.age + Left(p) <= Budget(missed)

\* Outside the races, the file is the lease of every process that owns, renews or releases
\* it, and the one just created by every process that is still to fill it.
HeldInv ==
    (punctual /\ ~raced) => \A p \in Proc :
        /\ pc[p] = "fill" => file = Created(p)
        /\ pc[p] \in {"owner", "renew", "release"} => Holds(p)

\* A process that started alone with a lease it may take is still alone, and on its way.
OnItsWay(p) ==
    /\ \A q \in Proc \ {p} : ~Live(q)
    /\ pc[p] \in {"create", "fill", "read", "recheck", "unlink", "gone"}
    /\ pc[p] = "create" => file = Absent \/ (attempt[p] = 1 /\ MayTake(p, Parsed(file)))
    /\ pc[p] = "read" => attempt[p] = 1 /\ file # Absent /\ MayTake(p, Parsed(file))
    /\ pc[p] = "recheck" => attempt[p] = 1 /\ file # Absent /\ Parsed(file) = seen[p]
    /\ pc[p] = "unlink" => attempt[p] = 1
SoleInv == \A p \in Proc : sole = p => OnItsWay(p)

LeaseInv == TypeOK /\ IdentInv /\ BirthInv /\ SeenInv /\ AgeInv /\ HeldInv /\ SoleInv

-----------------------------------------------------------------------------
(* Leases and ages. *)

Places == {"unborn", "create", "fill", "read", "recheck", "unlink", "owner", "renew", "release",
           "refused", "gone"}

\* The ages the model tells apart: counting stops just above the staleness limit.
LEMMA AgeFacts == Stale \in Nat \ {0} /\ Stale > StaleAfter /\ \A a \in 0..Stale : Older(a) \in 1..Stale /\ Older(a) >= a
  BY LeaseConstants DEF Stale, Older

\* The leases the program writes and the files they are in have their types.
LEMMA LeaseTypes ==
    /\ Absent \in LeaseFile /\ Corrupt \in LeaseFile
    /\ \A p \in Proc : Created(p) \in LeaseFile /\ \A a \in 0..Stale : Lease(p, a) \in LeaseFile
    /\ \A f \in LeaseFile : Parsed(f) \in LeaseFile
  BY AgeFacts DEF LeaseFile, Absent, Corrupt, Created, Lease, Parsed

\* A lease ages; nothing else of it changes, and it may be taken as before.
LEMMA OlderLease ==
    ASSUME NEW f \in LeaseFile
    PROVE  /\ [f EXCEPT !.age = Older(@)] \in LeaseFile /\ [f EXCEPT !.age = Older(@)] # Absent
           /\ [f EXCEPT !.age = Older(@)].holder = f.holder /\ [f EXCEPT !.age = Older(@)].whole = f.whole
           /\ [f EXCEPT !.age = Older(@)].age = Older(f.age)
           /\ [f EXCEPT !.age = Older(@)] = [holder |-> f.holder, age |-> Older(f.age), whole |-> f.whole]
           /\ \A p \in Proc : MayTake(p, f) => MayTake(p, [f EXCEPT !.age = Older(@)])
  <1>1. f.age \in 0..Stale /\ f.holder \in Proc \cup {NoProc} /\ f.whole \in BOOLEAN
    BY DEF LeaseFile
  <1>2. Older(f.age) \in 1..Stale /\ Older(f.age) >= f.age
    BY <1>1, AgeFacts
  <1>3. [f EXCEPT !.age = Older(@)] = [holder |-> f.holder, age |-> Older(f.age), whole |-> f.whole]
    BY DEF LeaseFile
  <1>4. [f EXCEPT !.age = Older(@)] \in LeaseFile /\ [f EXCEPT !.age = Older(@)] # Absent
    BY <1>1, <1>2, <1>3, AgeFacts DEF LeaseFile, Absent
  <1>5. \A p \in Proc : MayTake(p, f) => MayTake(p, [f EXCEPT !.age = Older(@)])
    BY <1>1, <1>2, <1>3, LeaseConstants, AgeFacts DEF MayTake, IsDeadPredecessor
  <1> QED BY <1>3, <1>4, <1>5

\* The file seen by a reader ages with the file, up to the epoch of a torn one.
LEMMA OlderFile ==
    ASSUME TypeOK, Tick
    PROVE  /\ file' \in LeaseFile /\ file'.holder = file.holder /\ file'.whole = file.whole
           /\ file' = Absent <=> file = Absent
           /\ file # Absent => Parsed(file)' = [Parsed(file) EXCEPT !.age = Older(@)]
           /\ file # Absent /\ file.whole = TRUE => file'.age = Older(file.age)
           /\ ~file.whole => file' = file
  <1>1. file \in LeaseFile /\ file.whole \in BOOLEAN
    BY DEF TypeOK, LeaseFile
  <1>2. file' = IF file = Absent \/ ~file.whole THEN file ELSE [file EXCEPT !.age = Older(@)]
    BY DEF Tick
  <1>3. CASE file = Absent
    BY <1>1, <1>2, <1>3 DEF Absent
  <1>4. CASE file # Absent /\ ~file.whole
    <2>0. Stale \in Nat
      BY AgeFacts
    <2>1. Older(Stale) = Stale
      BY <2>0 DEF Older
    <2>2. [Corrupt EXCEPT !.age = Older(@)] = Corrupt
      <3>1. Corrupt.age = Stale /\ Corrupt.holder = NoProc /\ Corrupt.whole = TRUE
        BY DEF Corrupt
      <3>2. [Corrupt EXCEPT !.age = Older(@)]
                = [holder |-> Corrupt.holder, age |-> Older(Corrupt.age), whole |-> Corrupt.whole]
        BY LeaseTypes, OlderLease
      <3>3. [Corrupt EXCEPT !.age = Older(@)] = [holder |-> NoProc, age |-> Stale, whole |-> TRUE]
        BY <2>1, <3>1, <3>2
      <3> QED BY <3>3 DEF Corrupt
    <2> QED BY <1>1, <1>2, <1>4, <2>2 DEF Parsed
  <1>5. CASE file # Absent /\ file.whole
    BY <1>1, <1>2, <1>5, OlderLease DEF Parsed
  <1> QED BY <1>3, <1>4, <1>5

\* Missed heartbeats use up the staleness limit, and no more.
LEMMA BudgetFacts ==
    /\ \A m \in 0..MaxMissed : Budget(m) \in Nat /\ Budget(m) >= HeartbeatEvery /\ Budget(m) <= StaleAfter
    /\ \A m \in Nat : Budget(m + 1) = Budget(m) + HeartbeatEvery
  <1> USE LeaseConstants
  <1>1. ASSUME NEW m \in Nat
        PROVE  Budget(m) \in Nat /\ Budget(m) >= HeartbeatEvery /\ Budget(m + 1) = Budget(m) + HeartbeatEvery
    <2>1. m * HeartbeatEvery \in Nat
      OBVIOUS
    <2>2. (m + 1) * HeartbeatEvery = m * HeartbeatEvery + HeartbeatEvery
      OBVIOUS
    <2>3. (m + 1 + 1) * HeartbeatEvery = m * HeartbeatEvery + HeartbeatEvery + HeartbeatEvery
      OBVIOUS
    <2> QED BY <2>1, <2>2, <2>3 DEF Budget
  <1>2. ASSUME NEW m \in 0..MaxMissed
        PROVE  Budget(m) <= StaleAfter
    <2>1. (m + 1) * HeartbeatEvery <= (MaxMissed + 1) * HeartbeatEvery
      OBVIOUS
    <2>2. (m + 1) * HeartbeatEvery \in Nat /\ (MaxMissed + 1) * HeartbeatEvery \in Nat
      OBVIOUS
    <2> QED BY <2>1, <2>2 DEF Budget
  <1> QED BY <1>1, <1>2

-----------------------------------------------------------------------------
(* What a step does to the process that takes it. *)

\* Moving one process leaves the others where they are.
LEMMA GotoFacts ==
    ASSUME TypeOK, NEW p \in Proc, NEW x \in Places, Goto(p, x)
    PROVE  /\ pc' \in [Proc -> Places] /\ pc'[p] = x /\ \A q \in Proc \ {p} : pc'[q] = pc[q]
  BY DEF TypeOK, Goto, Places

\* A process that exits forgets what it had seen, and changes no other process.
LEMMA ExitFacts ==
    ASSUME TypeOK, NEW p \in Proc, Exit(p)
    PROVE  /\ pc' \in [Proc -> Places] /\ attempt' \in [Proc -> 1..2] /\ seen' \in [Proc -> LeaseFile]
           /\ age' \in [Proc -> 0..Stale] /\ timer' \in [Proc -> 0..HeartbeatEvery]
           /\ pc'[p] = "gone" /\ age'[p] = 0
           /\ \A q \in Proc \ {p} : /\ pc'[q] = pc[q] /\ attempt'[q] = attempt[q] /\ seen'[q] = seen[q]
                                    /\ age'[q] = age[q] /\ timer'[q] = timer[q]
  <1> USE LeaseConstants, AgeFacts, LeaseTypes
  <1>1. pc' \in [Proc -> Places] /\ pc'[p] = "gone" /\ \A q \in Proc \ {p} : pc'[q] = pc[q]
    BY DEF TypeOK, Exit, Goto, Places
  <1>2. attempt' \in [Proc -> 1..2] /\ \A q \in Proc \ {p} : attempt'[q] = attempt[q]
    BY DEF TypeOK, Exit
  <1>3. seen' \in [Proc -> LeaseFile] /\ \A q \in Proc \ {p} : seen'[q] = seen[q]
    BY DEF TypeOK, Exit
  <1>4. age' \in [Proc -> 0..Stale] /\ age'[p] = 0 /\ \A q \in Proc \ {p} : age'[q] = age[q]
    BY DEF TypeOK, Exit
  <1>5. timer' \in [Proc -> 0..HeartbeatEvery] /\ \A q \in Proc \ {p} : timer'[q] = timer[q]
    BY DEF TypeOK, Exit
  <1> QED BY <1>1, <1>2, <1>3, <1>4, <1>5

\* A lost attempt is followed by a second one or by refusal.
LEMMA NextAttemptFacts ==
    ASSUME TypeOK, NEW p \in Proc, NextAttempt(p)
    PROVE  /\ pc' \in [Proc -> Places] /\ attempt' \in [Proc -> 1..2] /\ attempt'[p] = 2
           /\ pc'[p] = (IF attempt[p] = 1 THEN "create" ELSE "refused")
           /\ \A q \in Proc \ {p} : pc'[q] = pc[q] /\ attempt'[q] = attempt[q]
  <1>1. attempt' \in [Proc -> 1..2] /\ attempt'[p] = 2 /\ \A q \in Proc \ {p} : attempt'[q] = attempt[q]
    BY DEF TypeOK, NextAttempt
  <1>2. Goto(p, IF attempt[p] = 1 THEN "create" ELSE "refused")
    BY DEF NextAttempt
  <1>3. (IF attempt[p] = 1 THEN "create" ELSE "refused") \in Places
    BY DEF Places
  <1>4. /\ pc' \in [Proc -> Places] /\ pc'[p] = (IF attempt[p] = 1 THEN "create" ELSE "refused")
        /\ \A q \in Proc \ {p} : pc'[q] = pc[q]
    BY <1>2, <1>3 DEF TypeOK, Goto, Places
  <1> QED BY <1>1, <1>4

-----------------------------------------------------------------------------
(* Types. *)

\* Before any process is started everything has its type.
LEMMA TypeInit == Init => TypeOK
  <1> SUFFICES ASSUME Init PROVE TypeOK
    OBVIOUS
  <1> USE LeaseConstants, AgeFacts, LeaseTypes
  <1>1. /\ pc \in [Proc -> Places] /\ attempt \in [Proc -> 1..2] /\ seen \in [Proc -> LeaseFile]
        /\ age \in [Proc -> 0..Stale] /\ timer \in [Proc -> 0..HeartbeatEvery] /\ file \in LeaseFile
    BY DEF Init, Places
  <1>2. missed \in 0..MaxMissed /\ sole \in Proc \cup {NoProc}
    BY DEF Init
  <1>3. punctual \in BOOLEAN /\ raced \in BOOLEAN
    BY Zenon DEF Init
  <1> QED BY <1>1, <1>2, <1>3 DEF TypeOK, Places

\* A step of one process: what it leaves alone keeps its type.
LEMMA TypeStep == TypeOK /\ [Next]_vars => TypeOK'
  <1> SUFFICES ASSUME TypeOK, [Next]_vars PROVE TypeOK'
    OBVIOUS
  <1> USE LeaseConstants, AgeFacts, LeaseTypes
  <1>a. /\ file \in LeaseFile /\ pc \in [Proc -> Places] /\ attempt \in [Proc -> 1..2]
        /\ age \in [Proc -> 0..Stale] /\ timer \in [Proc -> 0..HeartbeatEvery] /\ seen \in [Proc -> LeaseFile]
        /\ missed \in 0..MaxMissed /\ punctual \in BOOLEAN /\ raced \in BOOLEAN /\ sole \in Proc \cup {NoProc}
    BY DEF TypeOK, Places
  <1> DEFINE Typed == /\ file' \in LeaseFile /\ pc' \in [Proc -> Places] /\ attempt' \in [Proc -> 1..2]
                      /\ age' \in [Proc -> 0..Stale] /\ timer' \in [Proc -> 0..HeartbeatEvery]
                      /\ seen' \in [Proc -> LeaseFile] /\ missed' \in 0..MaxMissed /\ punctual' = punctual
                      /\ (raced' = raced \/ raced' = TRUE \/ raced' = FALSE) /\ sole' \in Proc \cup {NoProc}
  <1> SUFFICES Typed
    <2>1. ASSUME Typed PROVE punctual' \in BOOLEAN /\ raced' \in BOOLEAN
      BY <1>a, <2>1, Zenon
    <2> QED BY <2>1 DEF TypeOK, Places
  <1>1. ASSUME NEW p \in Proc, Start(p) PROVE Typed
    <2>1. Goto(p, "create") /\ "create" \in Places
      BY <1>1 DEF Start, Places
    <2>2. sole' \in Proc \cup {NoProc}
      BY <1>1 DEF Start
    <2> QED BY <1>1, <1>a, <2>1, <2>2, GotoFacts DEF Start
  <1>2. ASSUME NEW p \in Proc, Create(p) PROVE Typed
    <2>1. \E x \in Places : Goto(p, x)
      BY <1>2 DEF Create, Places
    <2>2. file' \in LeaseFile
      BY <1>a, <1>2 DEF Create
    <2> QED BY <1>2, <1>a, <2>1, <2>2, GotoFacts DEF Create
  <1>3. ASSUME NEW p \in Proc, Fill(p) PROVE Typed
    <2>1. Goto(p, "owner") /\ "owner" \in Places
      BY <1>3 DEF Fill, Places
    <2>2. file' \in LeaseFile
      BY <1>a, <1>3 DEF Fill
    <2>3. /\ timer' \in [Proc -> 0..HeartbeatEvery] /\ age' \in [Proc -> 0..Stale] /\ attempt' \in [Proc -> 1..2]
          /\ sole' \in Proc \cup {NoProc}
      BY <1>a, <1>3 DEF Fill
    <2> QED BY <1>3, <1>a, <2>1, <2>2, <2>3, GotoFacts DEF Fill
  <1>4. ASSUME NEW p \in Proc, Read(p) PROVE Typed
    <2>1. pc' \in [Proc -> Places] /\ attempt' \in [Proc -> 1..2]
      <3>1. CASE NextAttempt(p)
        BY <3>1, NextAttemptFacts
      <3>2. CASE \E x \in Places : Goto(p, x) /\ UNCHANGED attempt
        BY <1>a, <3>2, GotoFacts
      <3> QED BY <1>4, <3>1, <3>2 DEF Read, Places
    <2>2. Parsed(file) \in LeaseFile
      BY <1>a
    <2>3. seen' \in [Proc -> LeaseFile]
      BY <1>a, <1>4, <2>2 DEF Read
    <2>4. raced' = raced \/ raced' = TRUE \/ raced' = FALSE
      BY <1>4, Zenon DEF Read
    <2> QED BY <1>4, <1>a, <2>1, <2>3, <2>4 DEF Read
  <1>5. ASSUME NEW p \in Proc, Recheck(p) PROVE Typed
    <2>1. pc' \in [Proc -> Places] /\ attempt' \in [Proc -> 1..2]
      <3>1. CASE NextAttempt(p)
        BY <3>1, NextAttemptFacts
      <3>2. CASE \E x \in Places : Goto(p, x) /\ UNCHANGED attempt
        BY <1>a, <3>2, GotoFacts
      <3> QED BY <1>5, <3>1, <3>2 DEF Recheck, Places
    <2>2. raced' = raced \/ raced' = TRUE \/ raced' = FALSE
      BY <1>5, Zenon DEF Recheck
    <2> QED BY <1>5, <1>a, <2>1, <2>2 DEF Recheck
  <1>6. ASSUME NEW p \in Proc, Unlink(p) PROVE Typed
    <2>1. pc' \in [Proc -> Places] /\ attempt' \in [Proc -> 1..2]
      BY <1>6, NextAttemptFacts DEF Unlink
    <2>2. seen' \in [Proc -> LeaseFile]
      BY <1>a, <1>6 DEF Unlink
    <2>3. raced' = raced \/ raced' = TRUE \/ raced' = FALSE
      BY <1>6, Zenon DEF Unlink
    <2> QED BY <1>6, <1>a, <2>1, <2>2, <2>3 DEF Unlink
  <1>7. ASSUME NEW p \in Proc, RenewRead(p) PROVE Typed
    <2>1. CASE Exit(p)
      BY <1>7, <1>a, <2>1, ExitFacts DEF RenewRead
    <2>2. CASE ~Exit(p)
      <3>1. Goto(p, "renew") /\ "renew" \in Places /\ timer' = [timer EXCEPT ![p] = HeartbeatEvery]
        BY <1>7, <2>2 DEF RenewRead, Places
      <3>2. timer' \in [Proc -> 0..HeartbeatEvery]
        BY <1>a, <3>1
      <3> QED BY <1>7, <1>a, <2>2, <3>1, <3>2, GotoFacts DEF RenewRead
    <2> QED BY <2>1, <2>2
  <1>8. ASSUME NEW p \in Proc, RenewWrite(p) PROVE Typed
    <2>1. Goto(p, "owner") /\ "owner" \in Places
      BY <1>8 DEF RenewWrite, Places
    <2>2. raced' = raced \/ raced' = TRUE \/ raced' = FALSE
      BY <1>8, Zenon DEF RenewWrite
    <2>3. file' \in LeaseFile
      BY <1>8 DEF RenewWrite
    <2> QED BY <1>8, <1>a, <2>1, <2>2, <2>3, GotoFacts DEF RenewWrite
  <1>9. ASSUME NEW p \in Proc, RenewFails(p) PROVE Typed
    <2>1. missed' \in 0..MaxMissed /\ timer' \in [Proc -> 0..HeartbeatEvery]
      BY <1>a, <1>9 DEF RenewFails
    <2> QED BY <1>9, <1>a, <2>1 DEF RenewFails
  <1>10. ASSUME NEW p \in Proc, ReleaseRead(p) PROVE Typed
    <2>1. CASE Exit(p)
      BY <1>10, <1>a, <2>1, ExitFacts DEF ReleaseRead
    <2>2. CASE ~Exit(p)
      <3>1. Goto(p, "release") /\ "release" \in Places
        BY <1>10, <2>2 DEF ReleaseRead, Places
      <3> QED BY <1>10, <1>a, <2>2, <3>1, GotoFacts DEF ReleaseRead
    <2> QED BY <2>1, <2>2
  <1>11. ASSUME NEW p \in Proc, ReleaseUnlink(p) PROVE Typed
    <2>1. raced' = raced \/ raced' = TRUE \/ raced' = FALSE
      BY <1>11, Zenon DEF ReleaseUnlink
    <2> QED BY <1>11, <1>a, <2>1, ExitFacts DEF ReleaseUnlink
  <1>12. ASSUME NEW p \in Proc, Crash(p) PROVE Typed
    BY <1>12, <1>a, ExitFacts DEF Crash
  <1>13. ASSUME Tick PROVE Typed
    <2>1. file' \in LeaseFile
      BY <1>13, OlderFile
    <2>2. seen' \in [Proc -> LeaseFile]
      BY <1>a, <1>13, OlderLease DEF Tick
    <2>3. age' \in [Proc -> 0..Stale]
      BY <1>a, <1>13 DEF Tick
    <2>4. timer' \in [Proc -> 0..HeartbeatEvery]
      BY <1>a, <1>13 DEF Tick
    <2> QED BY <1>13, <1>a, <2>1, <2>2, <2>3, <2>4 DEF Tick
  <1>14. ASSUME UNCHANGED vars PROVE Typed
    BY <1>14, <1>a DEF vars
  <1> QED BY <1>1, <1>2, <1>3, <1>4, <1>5, <1>6, <1>7, <1>8, <1>9, <1>10, <1>11, <1>12, <1>13, <1>14 DEF Next, Run

-----------------------------------------------------------------------------
(* The steps of one process leave the others where they are. *)

Acts(p) == Start(p) \/ Run(p) \/ RenewFails(p) \/ ReleaseRead(p) \/ Crash(p)
Still(q) == /\ pc'[q] = pc[q] /\ attempt'[q] = attempt[q] /\ seen'[q] = seen[q]
            /\ age'[q] = age[q] /\ timer'[q] = timer[q]

\* A process's step leaves the others' local state alone.
LEMMA OthersStill ==
    ASSUME TypeOK, NEW p \in Proc, Acts(p)
    PROVE  /\ \A q \in Proc \ {p} : Still(q)
           /\ punctual' = punctual
  <1>a. /\ pc \in [Proc -> Places] /\ attempt \in [Proc -> 1..2] /\ age \in [Proc -> 0..Stale]
        /\ timer \in [Proc -> 0..HeartbeatEvery] /\ seen \in [Proc -> LeaseFile]
    BY DEF TypeOK, Places
  <1>1. CASE Start(p) \/ Create(p) \/ RenewWrite(p) \/ RenewFails(p)
    BY <1>a, <1>1 DEF Start, Create, RenewWrite, RenewFails, Goto, Still
  <1>2. CASE Fill(p)
    BY <1>a, <1>2 DEF Fill, Goto, Still
  <1>3. CASE Read(p)
    BY <1>a, <1>3 DEF Read, NextAttempt, Goto, Still
  <1>4. CASE Recheck(p)
    BY <1>a, <1>4 DEF Recheck, NextAttempt, Goto, Still
  <1>5. CASE Unlink(p)
    BY <1>a, <1>5 DEF Unlink, NextAttempt, Goto, Still
  <1>6. CASE RenewRead(p)
    <2>1. CASE Exit(p)
      BY <1>6, <2>1, ExitFacts DEF RenewRead, Still
    <2>2. CASE ~Exit(p)
      BY <1>a, <1>6, <2>2 DEF RenewRead, Goto, Still
    <2> QED BY <2>1, <2>2
  <1>7. CASE ReleaseRead(p)
    <2>1. CASE Exit(p)
      BY <1>7, <2>1, ExitFacts DEF ReleaseRead, Still
    <2>2. CASE ~Exit(p)
      BY <1>a, <1>7, <2>2 DEF ReleaseRead, Goto, Still
    <2> QED BY <2>1, <2>2
  <1>8. CASE ReleaseUnlink(p) \/ Crash(p)
    <2>1. Exit(p) /\ punctual' = punctual
      BY <1>8 DEF ReleaseUnlink, Crash
    <2> QED BY <2>1, ExitFacts DEF Still
  <1> QED BY <1>1, <1>2, <1>3, <1>4, <1>5, <1>6, <1>7, <1>8 DEF Acts, Run

\* Where each step takes its process.
LEMMA Moves ==
    ASSUME TypeOK, NEW p \in Proc
    PROVE  /\ Start(p) => pc[p] = "unborn" /\ pc'[p] = "create" /\ attempt'[p] = attempt[p]
           /\ Create(p) => /\ pc[p] = "create" /\ attempt'[p] = attempt[p] /\ raced' = raced
                           /\ \/ file = Absent /\ file' = Created(p) /\ pc'[p] = "fill"
                              \/ file # Absent /\ file' = file /\ pc'[p] = "read"
           /\ Fill(p) => pc[p] = "fill" /\ pc'[p] = "owner" /\ age'[p] = 0 /\ timer'[p] = HeartbeatEvery
           /\ Read(p) => /\ pc[p] = "read" /\ seen'[p] = Parsed(file) /\ file' = file
                         /\ \/ /\ file = Absent /\ attempt'[p] = 2
                               /\ pc'[p] = (IF attempt[p] = 1 THEN "create" ELSE "refused")
                            \/ file # Absent /\ MayTake(p, Parsed(file)) /\ pc'[p] = "recheck" /\ attempt'[p] = attempt[p]
                            \/ file # Absent /\ ~MayTake(p, Parsed(file)) /\ pc'[p] = "refused"
           /\ Recheck(p) => /\ pc[p] = "recheck" /\ seen'[p] = seen[p] /\ file' = file
                            /\ \/ file # Absent /\ Parsed(file) = seen[p] /\ pc'[p] = "unlink" /\ attempt'[p] = attempt[p]
                               \/ /\ ~(file # Absent /\ Parsed(file) = seen[p])
                                  /\ pc'[p] = (IF attempt[p] = 1 THEN "create" ELSE "refused")
           /\ Unlink(p) => /\ pc[p] = "unlink" /\ file' = Absent /\ attempt'[p] = 2
                           /\ pc'[p] = (IF attempt[p] = 1 THEN "create" ELSE "refused")
           /\ RenewRead(p) => /\ pc[p] = "owner" /\ timer[p] = 0 /\ pc'[p] \in {"renew", "gone"}
                              /\ file' = file /\ missed' = missed /\ raced' = raced
           /\ RenewWrite(p) => pc[p] = "renew" /\ pc'[p] = "owner" /\ file' = Lease(p, 0) /\ timer'[p] = timer[p]
           /\ RenewFails(p) => /\ pc[p] = "owner" /\ pc'[p] = "owner" /\ timer[p] = 0 /\ timer'[p] = HeartbeatEvery
                               /\ missed' = missed + 1 /\ file' = file /\ raced' = raced
           /\ ReleaseRead(p) => /\ pc[p] = "owner" /\ pc'[p] \in {"release", "gone"}
                                /\ file' = file /\ missed' = missed /\ raced' = raced
           /\ ReleaseUnlink(p) => pc[p] = "release" /\ pc'[p] = "gone" /\ file' = Absent
           /\ Crash(p) => Live(p) /\ pc'[p] = "gone" /\ file' = file /\ missed' = missed /\ raced' = raced
  <1>a. /\ pc \in [Proc -> Places] /\ attempt \in [Proc -> 1..2] /\ age \in [Proc -> 0..Stale]
        /\ timer \in [Proc -> 0..HeartbeatEvery] /\ seen \in [Proc -> LeaseFile]
    BY DEF TypeOK, Places
  <1>1. ASSUME Start(p) PROVE pc[p] = "unborn" /\ pc'[p] = "create" /\ attempt'[p] = attempt[p]
    BY <1>a, <1>1 DEF Start, Goto
  <1>2. ASSUME Create(p)
        PROVE  /\ pc[p] = "create" /\ attempt'[p] = attempt[p] /\ raced' = raced
               /\ \/ file = Absent /\ file' = Created(p) /\ pc'[p] = "fill"
                  \/ file # Absent /\ file' = file /\ pc'[p] = "read"
    BY <1>a, <1>2 DEF Create, Goto
  <1>3. ASSUME Fill(p)
        PROVE  pc[p] = "fill" /\ pc'[p] = "owner" /\ age'[p] = 0 /\ timer'[p] = HeartbeatEvery
    BY <1>a, <1>3 DEF Fill, Goto
  <1>4. ASSUME Read(p)
        PROVE  /\ pc[p] = "read" /\ seen'[p] = Parsed(file) /\ file' = file
               /\ \/ /\ file = Absent /\ attempt'[p] = 2
                     /\ pc'[p] = (IF attempt[p] = 1 THEN "create" ELSE "refused")
                  \/ file # Absent /\ MayTake(p, Parsed(file)) /\ pc'[p] = "recheck" /\ attempt'[p] = attempt[p]
                  \/ file # Absent /\ ~MayTake(p, Parsed(file)) /\ pc'[p] = "refused"
    BY <1>a, <1>4 DEF Read, Goto, NextAttempt
  <1>5. ASSUME Recheck(p)
        PROVE  /\ pc[p] = "recheck" /\ seen'[p] = seen[p] /\ file' = file
               /\ \/ file # Absent /\ Parsed(file) = seen[p] /\ pc'[p] = "unlink" /\ attempt'[p] = attempt[p]
                  \/ /\ ~(file # Absent /\ Parsed(file) = seen[p])
                     /\ pc'[p] = (IF attempt[p] = 1 THEN "create" ELSE "refused")
    BY <1>a, <1>5 DEF Recheck, Goto, NextAttempt
  <1>6. ASSUME Unlink(p)
        PROVE  /\ pc[p] = "unlink" /\ file' = Absent /\ attempt'[p] = 2
               /\ pc'[p] = (IF attempt[p] = 1 THEN "create" ELSE "refused")
    BY <1>a, <1>6 DEF Unlink, Goto, NextAttempt
  <1>7. ASSUME RenewRead(p)
        PROVE  /\ pc[p] = "owner" /\ timer[p] = 0 /\ pc'[p] \in {"renew", "gone"}
               /\ file' = file /\ missed' = missed /\ raced' = raced
    BY <1>a, <1>7 DEF RenewRead, Goto, Exit
  <1>8. ASSUME RenewWrite(p)
        PROVE  pc[p] = "renew" /\ pc'[p] = "owner" /\ file' = Lease(p, 0) /\ timer'[p] = timer[p]
    BY <1>a, <1>8 DEF RenewWrite, Goto
  <1>9. ASSUME RenewFails(p)
        PROVE  /\ pc[p] = "owner" /\ pc'[p] = "owner" /\ timer[p] = 0 /\ timer'[p] = HeartbeatEvery
               /\ missed' = missed + 1 /\ file' = file /\ raced' = raced
    BY <1>a, <1>9 DEF RenewFails
  <1>10. ASSUME ReleaseRead(p)
         PROVE  /\ pc[p] = "owner" /\ pc'[p] \in {"release", "gone"}
                /\ file' = file /\ missed' = missed /\ raced' = raced
    BY <1>a, <1>10 DEF ReleaseRead, Goto, Exit
  <1>11. ASSUME ReleaseUnlink(p) PROVE pc[p] = "release" /\ pc'[p] = "gone" /\ file' = Absent
    BY <1>a, <1>11 DEF ReleaseUnlink, Goto, Exit
  <1>12. ASSUME Crash(p) PROVE Live(p) /\ pc'[p] = "gone" /\ file' = file /\ missed' = missed /\ raced' = raced
    BY <1>a, <1>12 DEF Crash, Goto, Exit
  <1> QED BY <1>1, <1>2, <1>3, <1>4, <1>5, <1>6, <1>7, <1>8, <1>9, <1>10, <1>11, <1>12

-----------------------------------------------------------------------------
(* The invariant is inductive. *)

\* Before any process is started the invariant holds.
LEMMA LeaseInit == Init => LeaseInv
  <1> SUFFICES ASSUME Init PROVE LeaseInv
    OBVIOUS
  <1>1. TypeOK
    BY TypeInit
  <1>2. /\ \A p \in Proc : pc[p] = "unborn" /\ attempt[p] = 1 /\ age[p] = 0
        /\ sole = NoProc
    BY DEF Init
  <1>3. IdentInv /\ BirthInv /\ SeenInv /\ AgeInv
    BY <1>2 DEF IdentInv, BirthInv, SeenInv, AgeInv, Live
  <1>4. HeldInv
    BY <1>2 DEF HeldInv
  <1>5. SoleInv
    BY <1>2, NotAProcess DEF SoleInv
  <1> QED BY <1>1, <1>3, <1>4, <1>5 DEF LeaseInv

\* A process comes to life by Start only, which looks for a live one of its pid and host.
LEMMA IdentStep ==
    ASSUME TypeOK, IdentInv, BirthInv, NEW p \in Proc, Acts(p)
    PROVE  IdentInv' /\ BirthInv'
  <1>a. \A q \in Proc \ {p} : pc'[q] = pc[q] /\ attempt'[q] = attempt[q]
    BY OthersStill DEF Still
  <1>1. CASE Start(p)
    <2>1. pc[p] = "unborn" /\ pc'[p] = "create" /\ \A q \in Proc : Live(q) => Ident[q] # Ident[p]
      BY <1>1, Moves DEF Start
    <2>2. \A q \in Proc \ {p} : Live(q)' <=> Live(q)
      BY <1>a DEF Live
    <2>3. IdentInv'
      BY <2>1, <2>2 DEF IdentInv
    <2>4. BirthInv'
      BY <1>a, <2>1 DEF BirthInv
    <2> QED BY <2>3, <2>4
  <1>2. CASE ~Start(p)
    <2>1. Live(p) /\ pc'[p] # "unborn"
      BY <1>2, Moves DEF Acts, Run, Live
    <2>2. \A q \in Proc \ {p} : Live(q)' <=> Live(q)
      BY <1>a DEF Live
    <2>3. IdentInv'
      BY <2>1, <2>2 DEF IdentInv
    <2>4. BirthInv'
      BY <1>a, <2>1 DEF BirthInv
    <2> QED BY <2>3, <2>4
  <1> QED BY <1>1, <1>2

\* A step of a process keeps what contenders saw valid, and punctual stamps fresh.
LEMMA SeenStep ==
    ASSUME TypeOK, SeenInv, AgeInv, NEW p \in Proc, Acts(p)
    PROVE  SeenInv' /\ AgeInv'
  <1>a. (\A q \in Proc \ {p} : pc'[q] = pc[q] /\ seen'[q] = seen[q] /\ age'[q] = age[q]) /\ punctual' = punctual
    BY OthersStill DEF Still
  <1>1. pc'[p] \in {"recheck", "unlink"} => MayTake(p, seen'[p])
    <2>1. CASE Read(p)
      BY <2>1, Moves
    <2>2. CASE Recheck(p)
      BY <2>2, Moves DEF SeenInv
    <2>3. CASE ~(Read(p) \/ Recheck(p))
      BY <2>3, Moves DEF Acts, Run
    <2> QED BY <2>1, <2>2, <2>3
  <1>2. SeenInv'
    BY <1>a, <1>1 DEF SeenInv, MayTake, IsDeadPredecessor
  <1>3. age'[p] = age[p] \/ age'[p] = 0
    <2>1. CASE Exit(p)
      BY <2>1, ExitFacts
    <2>2. CASE Fill(p)
      BY <2>2, Moves
    <2>3. CASE ~(Exit(p) \/ Fill(p))
      BY <2>3 DEF Acts, Run, Start, Create, Read, Recheck, Unlink, RenewRead, RenewWrite, RenewFails,
                  ReleaseRead, ReleaseUnlink, Crash
    <2> QED BY <2>1, <2>2, <2>3
  <1>4. AgeInv'
    BY <1>a, <1>3 DEF AgeInv
  <1> QED BY <1>2, <1>4

\* No two processes hold the file.
LEMMA OneHolds ==
    ASSUME TypeOK, HeldInv, punctual, ~raced, NEW p \in Proc, NEW q \in Proc \ {p},
           pc[p] \in {"fill", "owner", "renew", "release"}
    PROVE  pc[q] \notin {"fill", "owner", "renew", "release"}
  <1>1. file.holder = p
    BY DEF HeldInv, Holds, Created
  <1>2. pc[q] \in {"fill", "owner", "renew", "release"} => file.holder = q
    BY DEF HeldInv, Holds, Created
  <1> QED BY <1>1, <1>2

\* A step of a process, outside the races, keeps the file the lease of whoever owns it.
LEMMA HeldStep ==
    ASSUME TypeOK, IdentInv, SeenInv, AgeInv, HeldInv, NEW p \in Proc, Acts(p)
    PROVE  HeldInv'
  <1> USE LeaseConstants, BudgetFacts
  <1> SUFFICES ASSUME punctual', ~raced', NEW r \in Proc
               PROVE  /\ pc'[r] = "fill" => file' = Created(r)
                      /\ pc'[r] \in {"owner", "renew", "release"} => Holds(r)'
    BY DEF HeldInv, Created
  <1>a. (\A q \in Proc \ {p} : pc'[q] = pc[q] /\ timer'[q] = timer[q]) /\ punctual
    BY OthersStill DEF Still
  <1>b. ~raced
    BY DEF Acts, Run, Start, Create, Fill, Read, Recheck, Unlink, RenewRead, RenewWrite, RenewFails,
           ReleaseRead, ReleaseUnlink, Crash
  <1>c. /\ missed \in 0..MaxMissed /\ \A q \in Proc : timer[q] \in 0..HeartbeatEvery
        /\ file \in LeaseFile /\ file.age \in 0..Stale
    BY DEF TypeOK, LeaseFile
  <1>d. \A q \in Proc : /\ pc[q] = "fill" => file = Created(q)
                        /\ pc[q] \in {"owner", "renew", "release"} => Holds(q)
    BY <1>a, <1>b DEF HeldInv
  <1>e. \A q \in Proc : pc[q] \in {"fill", "owner", "renew", "release"} => file.holder = q /\ file # Absent
    BY <1>d, NotAProcess DEF Holds, Created, Absent
  \* Steps that leave the file alone.
  <1>1. ASSUME file' = file, missed' = missed, r # p
        PROVE  /\ pc'[r] = "fill" => file' = Created(r)
               /\ pc'[r] \in {"owner", "renew", "release"} => Holds(r)'
    <2>1. Left(r)' = Left(r)
      BY <1>a, <1>1 DEF Left
    <2> QED BY <1>1, <1>a, <1>d, <2>1 DEF Holds
  \* Steps that the file keeps all others out of.
  <1>2. ASSUME r # p, pc[r] \notin {"fill", "owner", "renew", "release"}
        PROVE  /\ pc'[r] = "fill" => file' = Created(r)
               /\ pc'[r] \in {"owner", "renew", "release"} => Holds(r)'
    BY <1>a, <1>2
  <1>3. CASE Start(p) \/ Read(p) \/ Recheck(p) \/ Crash(p)
    <2>1. file' = file /\ missed' = missed /\ pc'[p] \notin {"fill", "owner", "renew", "release"}
      BY <1>3, Moves DEF Start, Read, Recheck, Crash
    <2> QED BY <1>1, <2>1
  <1>4. CASE Create(p)
    <2>1. CASE file # Absent
      <3>1. file' = file /\ missed' = missed /\ pc'[p] = "read"
        BY <1>4, <2>1, Moves DEF Create
      <3> QED BY <1>1, <3>1
    <2>2. CASE file = Absent
      <3>1. file' = Created(p) /\ pc'[p] = "fill"
        BY <1>4, <2>2, Moves
      <3> QED BY <1>2, <1>e, <2>2, <3>1
    <2> QED BY <2>1, <2>2
  <1>5. CASE Fill(p)
    <2>1. pc[p] = "fill" /\ pc'[p] = "owner" /\ timer'[p] = HeartbeatEvery /\ missed' = missed
      BY <1>5, Moves DEF Fill
    <2>2. file = Created(p) /\ age[p] = 0
      BY <2>1, <1>a, <1>d DEF AgeInv
    <2>3. file' = Lease(p, 0)
      BY <1>5, <2>2 DEF Fill
    <2>4. CASE r = p
      <3>1. file'.holder = p /\ file'.whole = TRUE /\ file'.age = 0 /\ Left(p)' = HeartbeatEvery
        BY <2>1, <2>3 DEF Lease, Left
      <3>2. HeartbeatEvery <= Budget(missed) /\ HeartbeatEvery \in Nat
        BY <1>c
      <3>3. Holds(p)'
        BY <2>1, <3>1, <3>2 DEF Holds, Budget
      <3> QED BY <2>1, <2>4, <3>3
    <2>5. CASE r # p
      BY <1>2, <1>a, <1>b, <2>1, <2>5, OneHolds
    <2> QED BY <2>4, <2>5
  <1>6. CASE Unlink(p)
    <2>1. pc[p] = "unlink" /\ pc'[p] \in {"create", "refused"} /\ file' = Absent
      BY <1>6, Moves
    <2>2. ~Filling /\ (file = Absent \/ Parsed(file) = seen[p])
      BY <1>6 DEF Unlink
    <2>3. CASE r # p
      <3>1. pc[r] # "fill"
        BY <1>d, <2>2 DEF Filling
      <3>2. ASSUME pc[r] \in {"owner", "renew", "release"} PROVE FALSE
        <4>1. file.holder = r /\ file.whole = TRUE /\ file.age + Left(r) <= Budget(missed) /\ file # Absent
          BY <1>d, <1>e, <3>2 DEF Holds
        <4>2. MayTake(p, file)
          BY <2>1, <2>2, <4>1 DEF SeenInv, Parsed
        <4>3. Left(r) \in Nat
          BY <1>c DEF Left
        <4>4. file.age <= StaleAfter
          BY <1>c, <4>1, <4>3
        <4>5. Ident[r] = Ident[p]
          BY <1>c, <4>1, <4>2, <4>4 DEF MayTake, IsDeadPredecessor
        <4>6. Live(r) /\ Live(p)
          BY <2>1, <3>2 DEF Live
        <4> QED BY <2>3, <4>5, <4>6 DEF IdentInv
      <3> QED BY <1>2, <2>3, <3>1, <3>2
    <2> QED BY <2>1, <2>3
  <1>7. CASE RenewRead(p) \/ ReleaseRead(p)
    <2>1. /\ pc[p] = "owner" /\ file' = file /\ missed' = missed /\ pc'[p] \in {"renew", "release", "gone"}
      BY <1>7, Moves
    <2>2. CASE r = p
      <3>1. file.holder = p /\ file.whole = TRUE /\ file.age + timer[p] <= Budget(missed)
        BY <2>1, <1>d DEF Holds, Left
      <3>2. file.age + 0 <= Budget(missed)
        BY <1>c, <3>1
      <3>3. Left(p)' = 0
        BY <2>1 DEF Left
      <3> QED BY <2>1, <2>2, <3>1, <3>2, <3>3 DEF Holds, Budget
    <2> QED BY <1>1, <2>1, <2>2
  <1>8. CASE RenewWrite(p)
    <2>1. pc[p] = "renew" /\ pc'[p] = "owner" /\ file' = Lease(p, 0) /\ timer'[p] = timer[p] /\ missed' = missed
      BY <1>8, Moves DEF RenewWrite
    <2>2. CASE r = p
      <3>1. file'.holder = p /\ file'.whole = TRUE /\ file'.age = 0 /\ Left(p)' = timer[p]
        BY <2>1 DEF Lease, Left
      <3>2. 0 + timer[p] <= Budget(missed)
        BY <1>c
      <3>3. Holds(p)'
        BY <2>1, <3>1, <3>2 DEF Holds, Budget
      <3> QED BY <2>1, <2>2, <3>3
    <2>3. CASE r # p
      BY <1>2, <1>a, <1>b, <2>1, <2>3, OneHolds
    <2> QED BY <2>2, <2>3
  <1>9. CASE RenewFails(p)
    <2>1. /\ pc[p] = "owner" /\ pc'[p] = "owner" /\ timer[p] = 0 /\ timer'[p] = HeartbeatEvery
          /\ missed' = missed + 1 /\ file' = file
      BY <1>9, Moves
    <2>2. CASE r = p
      <3>1. file.holder = p /\ file.whole = TRUE /\ file.age + 0 <= Budget(missed)
        BY <2>1, <1>d DEF Holds, Left
      <3>2. Budget(missed + 1) = Budget(missed) + HeartbeatEvery /\ Budget(missed) \in Nat
        BY <1>c
      <3>3. file.age + HeartbeatEvery <= Budget(missed + 1)
        BY <1>c, <3>1, <3>2
      <3>4. Left(p)' = HeartbeatEvery
        BY <2>1 DEF Left
      <3>5. Holds(p)'
        BY <2>1, <3>1, <3>3, <3>4 DEF Holds, Budget
      <3> QED BY <2>1, <2>2, <3>5
    <2>3. CASE r # p
      BY <1>2, <1>a, <1>b, <2>1, <2>3, OneHolds
    <2> QED BY <2>2, <2>3
  <1>10. CASE ReleaseUnlink(p)
    <2>1. pc[p] = "release" /\ pc'[p] = "gone"
      BY <1>10, Moves
    <2>2. CASE r # p
      BY <1>2, <1>a, <1>b, <2>1, <2>2, OneHolds
    <2> QED BY <2>1, <2>2
  <1> QED BY <1>3, <1>4, <1>5, <1>6, <1>7, <1>8, <1>9, <1>10 DEF Acts, Run

\* A process alone with a lease it may take meets it unchanged at each of its looks.
LEMMA SoleStep ==
    ASSUME TypeOK, BirthInv, SoleInv, NEW p \in Proc, Acts(p)
    PROVE  SoleInv'
  <1> SUFFICES ASSUME NEW s \in Proc, sole' = s PROVE OnItsWay(s)'
    BY DEF SoleInv
  <1>a. \A q \in Proc \ {p} : pc'[q] = pc[q]
    BY OthersStill DEF Still
  <1>b. \A q \in Proc \ {p} : Live(q)' <=> Live(q)
    BY <1>a DEF Live
  <1>1. CASE Start(p)
    <2>1. s = p /\ (\A q \in Proc : ~Live(q)) /\ (file = Absent \/ MayTake(p, Parsed(file))) /\ file' = file
      BY <1>1, NotAProcess DEF Start
    <2>2. pc'[p] = "create" /\ attempt'[p] = 1
      BY <1>1, Moves DEF BirthInv
    <2>3. file' = Absent \/ MayTake(p, Parsed(file))'
      BY <2>1 DEF MayTake, IsDeadPredecessor, Parsed
    <2> QED BY <1>b, <2>1, <2>2, <2>3 DEF OnItsWay
  <1>2. CASE ~Start(p)
    <2>1. Live(p)
      BY <1>2, Moves DEF Acts, Run, Live
    <2>2. sole = s
      BY <1>2, NotAProcess DEF Acts, Run, Create, Fill, Read, Recheck, Unlink, RenewRead, RenewWrite, RenewFails,
                  ReleaseRead, ReleaseUnlink, Crash
    <2>3. OnItsWay(s)
      BY <2>2 DEF SoleInv
    <2>4. s = p
      BY <2>1, <2>3 DEF OnItsWay
    <2>5. \A q \in Proc \ {p} : ~Live(q)'
      BY <1>b, <2>3, <2>4 DEF OnItsWay
    <2>6. CASE Create(p)
      <3>1. CASE file = Absent
        <4>1. pc'[p] = "fill"
          BY <2>6, <3>1, Moves
        <4> QED BY <2>4, <2>5, <4>1 DEF OnItsWay
      <3>2. CASE file # Absent
        <4>1. pc[p] = "create" /\ pc'[p] = "read" /\ file' = file /\ attempt'[p] = attempt[p]
          BY <2>6, <3>2, Moves
        <4>2. attempt'[p] = 1 /\ file' # Absent /\ MayTake(p, Parsed(file))'
          BY <2>3, <2>4, <3>2, <4>1 DEF OnItsWay, MayTake, IsDeadPredecessor, Parsed
        <4> QED BY <2>4, <2>5, <4>1, <4>2 DEF OnItsWay
      <3> QED BY <3>1, <3>2
    <2>7. CASE Read(p)
      <3>1. pc[p] = "read" /\ file # Absent /\ MayTake(p, Parsed(file)) /\ attempt[p] = 1
        BY <2>3, <2>4, <2>7, Moves DEF OnItsWay
      <3>2. pc'[p] = "recheck" /\ attempt'[p] = 1 /\ seen'[p] = Parsed(file) /\ file' = file
        BY <2>7, <3>1, Moves
      <3>3. Parsed(file)' = seen'[p] /\ file' # Absent
        BY <3>1, <3>2 DEF Parsed
      <3> QED BY <2>4, <2>5, <3>2, <3>3 DEF OnItsWay
    <2>8. CASE Recheck(p)
      <3>1. pc[p] = "recheck" /\ file # Absent /\ Parsed(file) = seen[p] /\ attempt[p] = 1
        BY <2>3, <2>4, <2>8, Moves DEF OnItsWay
      <3>2. pc'[p] = "unlink" /\ attempt'[p] = 1
        BY <2>8, <3>1, Moves
      <3> QED BY <2>4, <2>5, <3>2 DEF OnItsWay
    <2>9. CASE Unlink(p)
      <3>1. pc[p] = "unlink" /\ attempt[p] = 1
        BY <2>3, <2>4, <2>9, Moves DEF OnItsWay
      <3>2. pc'[p] = "create" /\ file' = Absent
        BY <2>9, <3>1, Moves
      <3> QED BY <2>4, <2>5, <3>2 DEF OnItsWay, Absent
    <2>10. CASE Crash(p)
      <3>1. pc'[p] = "gone"
        BY <2>10, Moves
      <3> QED BY <2>4, <2>5, <3>1 DEF OnItsWay
    <2>11. CASE Fill(p)
      BY <2>2, <2>4, <2>11, NotAProcess DEF Fill
    <2>12. CASE RenewRead(p) \/ RenewWrite(p) \/ RenewFails(p) \/ ReleaseRead(p) \/ ReleaseUnlink(p)
      BY <2>3, <2>4, <2>12, Moves DEF OnItsWay
    <2> QED BY <1>2, <2>6, <2>7, <2>8, <2>9, <2>10, <2>11, <2>12 DEF Acts, Run
  <1> QED BY <1>1, <1>2

\* Time passing.
LEMMA TickStep == ASSUME LeaseInv, Tick PROVE IdentInv' /\ BirthInv' /\ SeenInv' /\ AgeInv' /\ HeldInv' /\ SoleInv'
  <1> USE LeaseConstants, BudgetFacts
  <1>a. TypeOK /\ IdentInv /\ BirthInv /\ SeenInv /\ AgeInv /\ HeldInv /\ SoleInv
    BY DEF LeaseInv
  <1>b. /\ file \in LeaseFile /\ file.age \in 0..Stale /\ missed \in 0..MaxMissed
        /\ timer \in [Proc -> 0..HeartbeatEvery] /\ seen \in [Proc -> LeaseFile]
    BY <1>a DEF TypeOK, LeaseFile
  <1>c. UNCHANGED <<pc, attempt, missed, punctual, raced, sole>>
    BY DEF Tick
  <1>d. /\ file' \in LeaseFile /\ file'.holder = file.holder /\ file'.whole = file.whole
        /\ file' = Absent <=> file = Absent
        /\ file # Absent => Parsed(file)' = [Parsed(file) EXCEPT !.age = Older(@)]
        /\ file # Absent /\ file.whole = TRUE => file'.age = Older(file.age)
    BY <1>a, OlderFile
  <1>e. /\ seen' = [p \in Proc |-> IF pc[p] \in {"recheck", "unlink"}
                               THEN [seen[p] EXCEPT !.age = Older(@)] ELSE seen[p]]
        /\ age' = [p \in Proc |-> IF Acquiring(p) THEN Older(age[p]) ELSE age[p]]
        /\ timer' = [p \in Proc |-> IF timer[p] > 0 THEN timer[p] - 1 ELSE 0]
    BY DEF Tick
  <1>1. IdentInv' /\ BirthInv'
    BY <1>a, <1>c DEF IdentInv, BirthInv, Live
  <1>2. SeenInv'
    <2> SUFFICES ASSUME NEW p \in Proc, pc[p] \in {"recheck", "unlink"} PROVE MayTake(p, seen'[p])
      BY <1>c DEF SeenInv, MayTake, IsDeadPredecessor
    <2>1. seen[p] \in LeaseFile /\ MayTake(p, seen[p])
      BY <1>a, <1>b DEF SeenInv
    <2>2. seen'[p] = [seen[p] EXCEPT !.age = Older(@)]
      BY <1>e
    <2>3. MayTake(p, [seen[p] EXCEPT !.age = Older(@)])
      BY <2>1, OlderLease
    <2> QED BY <2>2, <2>3
  <1>3. AgeInv'
    <2> SUFFICES ASSUME punctual, NEW p \in Proc PROVE age'[p] = 0
      BY <1>c DEF AgeInv
    <2>1. ~Live(p) \/ pc[p] = "owner"
      BY DEF Tick
    <2>2. ~Acquiring(p)
      BY <2>1 DEF Acquiring, Live
    <2> QED BY <1>a, <1>e, <2>2 DEF AgeInv
  <1>4. HeldInv'
    <2> SUFFICES ASSUME punctual, ~raced, NEW p \in Proc
                 PROVE  /\ pc'[p] = "fill" => file' = Created(p)
                        /\ pc'[p] \in {"owner", "renew", "release"} => Holds(p)'
      BY <1>c DEF HeldInv, Created
    <2>1. ~Live(p) \/ (pc[p] = "owner" /\ timer[p] > 0)
      BY DEF Tick
    <2>2. CASE pc[p] = "owner"
      <3>1. timer[p] > 0 /\ timer[p] \in Nat /\ timer'[p] = timer[p] - 1
        BY <1>b, <1>e, <2>1, <2>2 DEF Live
      <3>2. file.holder = p /\ file.whole = TRUE /\ file.age + timer[p] <= Budget(missed)
        BY <1>a, <2>2 DEF HeldInv, Holds, Left
      <3>3. file # Absent
        BY <3>2, NotAProcess DEF Absent
      <3>4. file'.age = Older(file.age)
        BY <1>d, <3>2, <3>3
      <3>5. Older(file.age) \in Nat /\ Older(file.age) <= file.age + 1
        BY <1>b, AgeFacts DEF Older
      <3>6. file'.age + timer'[p] <= Budget(missed)
        BY <1>b, <3>1, <3>2, <3>4, <3>5
      <3>7. Left(p)' = timer'[p]
        BY <1>c, <2>2 DEF Left
      <3>8. Holds(p)'
        BY <1>c, <1>d, <3>2, <3>6, <3>7 DEF Holds, Budget
      <3> QED BY <1>c, <2>2, <3>8
    <2> QED BY <1>c, <2>1, <2>2 DEF Live
  <1>5. SoleInv'
    <2> SUFFICES ASSUME NEW p \in Proc, sole = p PROVE OnItsWay(p)'
      BY <1>c DEF SoleInv
    <2>1. OnItsWay(p)
      BY <1>a DEF SoleInv
    <2>2. Parsed(file) \in LeaseFile
      BY <1>b, LeaseTypes
    <2>3. file # Absent /\ MayTake(p, Parsed(file)) => MayTake(p, Parsed(file)')
      <3>1. MayTake(p, Parsed(file)) => MayTake(p, [Parsed(file) EXCEPT !.age = Older(@)])
        BY <2>2, OlderLease
      <3>2. file # Absent => Parsed(file)' = [Parsed(file) EXCEPT !.age = Older(@)]
        BY <1>d
      <3> QED BY <3>1, <3>2
    <2>4. MayTake(p, Parsed(file))' <=> MayTake(p, Parsed(file)')
      BY DEF MayTake, IsDeadPredecessor
    <2>5. (\A q \in Proc \ {p} : ~Live(q)') /\ pc'[p] = pc[p] /\ attempt'[p] = attempt[p]
      BY <1>c, <2>1 DEF OnItsWay, Live
    <2>6. pc[p] = "recheck" => attempt[p] = 1 /\ file' # Absent /\ Parsed(file)' = seen'[p]
      BY <1>d, <1>e, <2>1 DEF OnItsWay
    <2>7. pc[p] = "create" => file' = Absent \/ (attempt[p] = 1 /\ MayTake(p, Parsed(file))')
      BY <1>d, <2>1, <2>3, <2>4 DEF OnItsWay
    <2>8. pc[p] = "read" => attempt[p] = 1 /\ file' # Absent /\ MayTake(p, Parsed(file))'
      BY <1>d, <2>1, <2>3, <2>4 DEF OnItsWay
    <2>9. pc[p] \in {"create", "fill", "read", "recheck", "unlink", "gone"} /\ (pc[p] = "unlink" => attempt[p] = 1)
      BY <2>1 DEF OnItsWay
    <2>10. file' = Absent <=> (file = Absent)'
      BY DEF Absent
    <2> QED BY <2>5, <2>6, <2>7, <2>8, <2>9, <2>10 DEF OnItsWay
  <1> QED BY <1>1, <1>2, <1>3, <1>4, <1>5

\* Every step keeps the invariant.
LEMMA LeaseStep == LeaseInv /\ [Next]_vars => LeaseInv'
  <1> SUFFICES ASSUME LeaseInv, [Next]_vars PROVE LeaseInv'
    OBVIOUS
  <1>a. TypeOK /\ IdentInv /\ BirthInv /\ SeenInv /\ AgeInv /\ HeldInv /\ SoleInv
    BY DEF LeaseInv
  <1>1. TypeOK'
    BY <1>a, TypeStep
  <1>2. CASE Tick
    BY <1>1, <1>2, TickStep DEF LeaseInv
  <1>3. ASSUME NEW p \in Proc, Acts(p) PROVE LeaseInv'
    <2>1. IdentInv' /\ BirthInv'
      BY <1>a, <1>3, IdentStep
    <2>2. SeenInv' /\ AgeInv'
      BY <1>a, <1>3, SeenStep
    <2>3. HeldInv' /\ SoleInv'
      BY <1>a, <1>3, HeldStep, SoleStep
    <2> QED BY <1>1, <2>1, <2>2, <2>3 DEF LeaseInv
  <1>4. CASE UNCHANGED vars
    <2> USE <1>4 DEF vars
    <2>1. IdentInv' /\ BirthInv' /\ SeenInv' /\ AgeInv'
      BY <1>a DEF IdentInv, BirthInv, SeenInv, AgeInv, Live, MayTake, IsDeadPredecessor
    <2>2. HeldInv'
      BY <1>a DEF HeldInv, Holds, Left, Budget, Created
    <2>3. SoleInv'
      BY <1>a DEF SoleInv, OnItsWay, Live, MayTake, IsDeadPredecessor, Parsed, Absent
    <2> QED BY <1>1, <2>1, <2>2, <2>3 DEF LeaseInv
  <1> QED BY <1>2, <1>3, <1>4 DEF Next, Acts

\* The invariant in every state of the contenders.
LEMMA LeaseAlways == Spec => []LeaseInv
  BY LeaseInit, LeaseStep, PTL DEF Spec

\* In every reachable state the lease file, whole or torn, and the memory of every contender
\* are of their types.
THEOREM LeaseTypeCorrect == Spec => []TypeOK
  <1>1. LeaseInv => TypeOK
    BY DEF LeaseInv
  <1> QED BY <1>1, LeaseAlways, PTL

\* Mutual exclusion for any number of punctual processes, any pids and hosts, and any
\* heartbeat and staleness limit with (MaxMissed + 1) * HeartbeatEvery <= StaleAfter: outside
\* the windows between two file-system calls, at most one process owns the state.
THEOREM OneOwner == Spec => []SingleOwner
  <1>1. LeaseInv => SingleOwner
    <2> SUFFICES ASSUME LeaseInv, punctual, ~raced PROVE Cardinality(Owners) <= 1
      BY DEF SingleOwner
    <2>1. Owners \subseteq {file.holder}
      BY DEF LeaseInv, HeldInv, Holds, Owners
    <2>2. IsFiniteSet({file.holder}) /\ Cardinality({file.holder}) = 1
      BY FS_Singleton
    <2>3. Cardinality(Owners) <= Cardinality({file.holder})
      BY <2>1, <2>2, FS_Subset
    <2> QED BY <2>2, <2>3
  <1> QED BY <1>1, LeaseAlways, PTL

\* A process that starts alone, with the lease absent, stale, torn or left by its own
\* predecessor, is never refused, wherever it is stopped on its way and however late it runs.
THEOREM CrashedNodeRestarts == Spec => []TakeoverSucceeds
  <1>1. LeaseInv => TakeoverSucceeds
    <2> SUFFICES ASSUME LeaseInv, sole # NoProc PROVE pc[sole] # "refused"
      BY DEF TakeoverSucceeds
    <2>1. sole \in Proc
      BY DEF LeaseInv, TypeOK
    <2>2. OnItsWay(sole)
      BY <2>1 DEF LeaseInv, SoleInv
    <2> QED BY <2>2 DEF OnItsWay
  <1> QED BY <1>1, LeaseAlways, PTL

=============================================================================
