----------------------------- MODULE OwnerLease -----------------------------
(***************************************************************************)
(* The owner lease (src/owner-lease.ts): the file in the data directory    *)
(* that lets one process at a time, the server or an operator command, own *)
(* the file-backed stores.  Contenders share nothing but the volume, so    *)
(* each file-system call is one step: the exclusive create, the write of   *)
(* its contents, the reads, the unlinks, the rename of a renewal.          *)
(*                                                                         *)
(* A process runs once; a restart is another process, which may have the   *)
(* pid and host name of a dead one (Ident).  Time is kept as ages: the age *)
(* of a heartbeat is its distance from the clock, up to just past stale,   *)
(* and a timer is the time left until it fires.                            *)
(***************************************************************************)
EXTENDS Integers, FiniteSets

CONSTANTS
    Proc,            \* processes that contend for the lease
    Ident,           \* the (pid, host) of each process
    HeartbeatEvery,  \* LEASE_HEARTBEAT_MS
    StaleAfter,      \* LEASE_STALE_MS
    MaxMissed        \* bound: heartbeats whose write fails

ASSUME LeaseConstants ==
    /\ HeartbeatEvery \in Nat \ {0} /\ StaleAfter \in Nat /\ MaxMissed \in Nat
    /\ (MaxMissed + 1) * HeartbeatEvery <= StaleAfter

VARIABLES
    file,      \* the lease file
    pc,        \* what each process does next
    attempt,   \* the loop counter of acquire()
    age,       \* age of heartbeat_at in the record each process is to write
    seen,      \* the lease each contender judged stale
    timer,     \* time left until each owner's heartbeat
    missed,    \* heartbeats that failed so far
    punctual,  \* is every live process scheduled before time passes?
    raced,     \* history: a call acted on a file that had changed under it
    sole       \* history: the process that started alone with a lease it may take

vars == <<file, pc, attempt, age, seen, timer, missed, punctual, raced, sole>>

-----------------------------------------------------------------------------
Stale == StaleAfter + 1     \* ages stop here: older makes no difference
NoProc == "corrupt"         \* the holder_id read() makes up for a file it cannot parse

ASSUME NotAProcess == NoProc \notin Proc

Lease(p, a) == [holder |-> p, age |-> a, whole |-> TRUE]
Created(p) == [holder |-> p, age |-> 0, whole |-> FALSE]
Absent == [holder |-> NoProc, age |-> 0, whole |-> TRUE]
Corrupt == [holder |-> NoProc, age |-> Stale, whole |-> TRUE]

\* read(): a file still empty or torn proves no live owner; its heartbeat is the epoch.
Parsed(f) == IF f.whole THEN f ELSE Corrupt

Owners == {p \in Proc : pc[p] \in {"owner", "renew"}}
Acquiring(p) == pc[p] \in {"create", "fill", "read", "recheck", "unlink"}
Live(p) == pc[p] \notin {"unborn", "refused", "gone"}

\* A lease of an earlier process with our pid and host, not of this process.
IsDeadPredecessor(p, lease) ==
    lease.holder \in Proc \ {p} /\ Ident[lease.holder] = Ident[p]

\* Mutant: a lease is stale as soon as one heartbeat is due.
MayTakeEarly(p, lease) == lease.age >= HeartbeatEvery \/ IsDeadPredecessor(p, lease)

\* History only: the file a process has created and not yet written.
Filling == \E q \in Proc : file = Created(q) /\ pc[q] = "fill"

MayTake(p, lease) == lease.age > StaleAfter \/ IsDeadPredecessor(p, lease)

-----------------------------------------------------------------------------
Init ==
    /\ file = Absent
    /\ pc = [p \in Proc |-> "unborn"]
    /\ attempt = [p \in Proc |-> 1]
    /\ age = [p \in Proc |-> 0] /\ timer = [p \in Proc |-> 0]
    /\ seen = [p \in Proc |-> Absent]
    /\ missed = 0 /\ punctual \in BOOLEAN /\ raced = FALSE /\ sole = NoProc

Goto(p, place) == pc' = [pc EXCEPT ![p] = place]

\* A process ends, and its memory with it.
Exit(p) ==
    /\ Goto(p, "gone")
    /\ attempt' = [attempt EXCEPT ![p] = 1] /\ seen' = [seen EXCEPT ![p] = Absent]
    /\ age' = [age EXCEPT ![p] = 0] /\ timer' = [timer EXCEPT ![p] = 0]

\* acquire() begins; its record is stamped once, before the loop.  The operating system
\* gives no two live processes of a host one pid.
Start(p) ==
    /\ pc[p] = "unborn"
    /\ \A q \in Proc : Live(q) => Ident[q] # Ident[p]
    /\ Goto(p, "create")
    /\ sole' = IF /\ \A q \in Proc : ~Live(q)
                  /\ file = Absent \/ MayTake(p, Parsed(file))
               THEN p ELSE NoProc
    /\ UNCHANGED <<file, attempt, age, seen, timer, missed, punctual, raced>>

\* writeFileSync with flag wx: the exclusive open ...
Create(p) ==
    /\ pc[p] = "create"
    /\ IF file = Absent
       THEN file' = Created(p) /\ Goto(p, "fill")
       ELSE Goto(p, "read") /\ UNCHANGED file
    /\ UNCHANGED <<attempt, age, seen, timer, missed, punctual, raced, sole>>

\* ... and the write, which reaches the path only while it still names that file.
Fill(p) ==
    /\ pc[p] = "fill"
    /\ file' = IF file = Created(p) THEN Lease(p, age[p]) ELSE file
    /\ Goto(p, "owner")
    /\ timer' = [timer EXCEPT ![p] = HeartbeatEvery]
    /\ age' = [age EXCEPT ![p] = 0] /\ attempt' = [attempt EXCEPT ![p] = 1]
    /\ sole' = IF sole = p THEN NoProc ELSE sole
    /\ UNCHANGED <<seen, missed, punctual, raced>>

\* Mutant: the loop runs until the lease is free.
NextAttemptForever(p) ==
    /\ attempt' = [attempt EXCEPT ![p] = @ + 1]
    /\ Goto(p, "create")

\* The loop runs twice, then gives up.
NextAttempt(p) ==
    /\ attempt' = [attempt EXCEPT ![p] = 2]
    /\ Goto(p, IF attempt[p] = 1 THEN "create" ELSE "refused")

\* The create found a file: a fresh lease is a refusal, a released one another attempt.
Read(p) ==
    /\ pc[p] = "read"
    /\ \/ file = Absent /\ NextAttempt(p)
       \/ file # Absent /\ MayTake(p, Parsed(file)) /\ Goto(p, "recheck") /\ UNCHANGED attempt
       \/ file # Absent /\ ~MayTake(p, Parsed(file)) /\ Goto(p, "refused") /\ UNCHANGED attempt
    /\ seen' = [seen EXCEPT ![p] = Parsed(file)]
    /\ raced' = (raced \/ Filling)
    /\ UNCHANGED <<file, age, timer, missed, punctual, sole>>

\* Mutant: a takeover always counts as the second attempt.
RecheckGivesUp(p) ==
    /\ pc[p] = "recheck"
    /\ IF file # Absent /\ Parsed(file) = seen[p]
       THEN Goto(p, "unlink") /\ attempt' = [attempt EXCEPT ![p] = 2]
       ELSE NextAttempt(p)
    /\ raced' = (raced \/ Filling)
    /\ UNCHANGED <<file, age, seen, timer, missed, punctual, sole>>

\* removeStale: look again right before removing.
Recheck(p) ==
    /\ pc[p] = "recheck"
    /\ IF file # Absent /\ Parsed(file) = seen[p]
       THEN Goto(p, "unlink") /\ UNCHANGED attempt
       ELSE NextAttempt(p)
    /\ raced' = (raced \/ Filling)
    /\ UNCHANGED <<file, age, seen, timer, missed, punctual, sole>>

\* The unlink removes whatever is there by now.
Unlink(p) ==
    /\ pc[p] = "unlink"
    /\ file' = Absent
    /\ NextAttempt(p)
    /\ raced' = (raced \/ Filling \/ (file # Absent /\ Parsed(file) # seen[p]))
    /\ seen' = [seen EXCEPT ![p] = Absent]
    /\ UNCHANGED <<age, timer, missed, punctual, sole>>

-----------------------------------------------------------------------------
\* Mutant: the heartbeat renews without looking at the holder.
RenewReadBlind(p) ==
    /\ pc[p] = "owner" /\ timer[p] = 0
    /\ Goto(p, "renew")
    /\ timer' = [timer EXCEPT ![p] = HeartbeatEvery]
    /\ UNCHANGED <<file, attempt, age, seen, missed, punctual, raced, sole>>

\* The heartbeat: renew() reads the lease; if it is not ours the process exits ...
RenewRead(p) ==
    /\ pc[p] = "owner" /\ timer[p] = 0
    /\ IF Parsed(file).holder = p
       THEN /\ Goto(p, "renew")
            /\ timer' = [timer EXCEPT ![p] = HeartbeatEvery]
            /\ UNCHANGED <<attempt, age, seen>>
       ELSE Exit(p)
    /\ UNCHANGED <<file, missed, punctual, raced, sole>>

\* ... and if it is, a new record is renamed over it.
RenewWrite(p) ==
    /\ pc[p] = "renew"
    /\ file' = Lease(p, 0)
    /\ Goto(p, "owner")
    /\ raced' = (raced \/ file.holder # p)
    /\ UNCHANGED <<attempt, age, seen, timer, missed, punctual, sole>>

\* A heartbeat whose file operation throws is logged and tried again at the next one.
RenewFails(p) ==
    /\ pc[p] = "owner" /\ timer[p] = 0
    /\ missed < MaxMissed /\ missed' = missed + 1
    /\ timer' = [timer EXCEPT ![p] = HeartbeatEvery]
    /\ UNCHANGED <<file, pc, attempt, age, seen, punctual, raced, sole>>

\* release(), at the end of a command or on a signal: remove the lease if it is ours.
ReleaseRead(p) ==
    /\ pc[p] = "owner"
    /\ IF Parsed(file).holder = p
       THEN Goto(p, "release") /\ UNCHANGED <<attempt, age, seen, timer>>
       ELSE Exit(p)
    /\ UNCHANGED <<file, missed, punctual, raced, sole>>

ReleaseUnlink(p) ==
    /\ pc[p] = "release"
    /\ file' = Absent
    /\ Exit(p)
    /\ raced' = (raced \/ (file # Absent /\ file.holder # p))
    /\ UNCHANGED <<missed, punctual, sole>>

-----------------------------------------------------------------------------
\* SIGKILL or a host crash: the lease stays behind.
Crash(p) ==
    /\ Live(p)
    /\ Exit(p)
    /\ UNCHANGED <<file, missed, punctual, raced, sole>>

Older(a) == IF a < Stale THEN a + 1 ELSE Stale

\* Time passes.  When every process is punctual, it passes only while all of them wait.
Tick ==
    /\ punctual => \A p \in Proc :
          ~Live(p) \/ (pc[p] = "owner" /\ timer[p] > 0)
    /\ file' = IF file = Absent \/ ~file.whole THEN file ELSE [file EXCEPT !.age = Older(@)]
    /\ seen' = [p \in Proc |-> IF pc[p] \in {"recheck", "unlink"}
                               THEN [seen[p] EXCEPT !.age = Older(@)] ELSE seen[p]]
    /\ age' = [p \in Proc |-> IF Acquiring(p) THEN Older(age[p]) ELSE age[p]]
    /\ timer' = [p \in Proc |-> IF timer[p] > 0 THEN timer[p] - 1 ELSE 0]
    /\ UNCHANGED <<pc, attempt, missed, punctual, raced, sole>>

\* The steps a live process takes by itself.
Run(p) ==
    \/ Create(p) \/ Fill(p) \/ Read(p) \/ Recheck(p) \/ Unlink(p)
    \/ RenewRead(p) \/ RenewWrite(p) \/ ReleaseUnlink(p)

Next ==
    \/ Tick
    \/ \E p \in Proc : \/ Start(p) \/ Run(p) \/ RenewFails(p) \/ ReleaseRead(p) \/ Crash(p)

Spec == Init /\ [][Next]_vars

\* The scheduler runs every live process now and then, and the clock does not stop.
FairSpec == Spec /\ WF_vars(Tick) /\ \A p \in Proc : WF_vars(Run(p))

-----------------------------------------------------------------------------
LeaseFile == [holder: Proc \cup {NoProc}, age: 0..Stale, whole: BOOLEAN]

\* Type correctness of the lease file and of the contenders' state.
TypeOK ==
    /\ file \in LeaseFile
    /\ pc \in [Proc -> {"unborn", "create", "fill", "read", "recheck", "unlink", "owner",
                        "renew", "release", "refused", "gone"}]
    /\ attempt \in [Proc -> 1..2]
    /\ age \in [Proc -> 0..Stale] /\ timer \in [Proc -> 0..HeartbeatEvery]
    /\ seen \in [Proc -> LeaseFile]
    /\ missed \in 0..MaxMissed /\ punctual \in BOOLEAN /\ raced \in BOOLEAN
    /\ sole \in Proc \cup {NoProc}

\* Mutual exclusion ("exactly one process owns the state directory at a time") outside the
\* windows between two file-system calls, one of which removeStale's comment admits: processes
\* that are scheduled punctually never own the state together unless one of them read a
\* lease file still being created, or removed or replaced a file that had changed since it
\* looked.  A heartbeat or two that could not be written does not break it.
SingleOwner == (punctual /\ ~raced) => Cardinality(Owners) <= 1

\* "A crashed node restarts without manual cleanup": a process that starts alone, with the
\* lease absent, stale, torn or left by its own predecessor, is not refused.
TakeoverSucceeds == sole # NoProc => pc[sole] # "refused"

\* Two owners do not last: the one whose lease was replaced finds out at a heartbeat and
\* exits (renew, "the caller must stop writing state immediately").  Processes that are
\* paused at will can overwrite each other's renewals forever, so this asks for punctual
\* ones, however the two owners came about.
TwoOwnersResolve ==
    (punctual /\ Cardinality(Owners) > 1) ~> (Cardinality(Owners) <= 1)

=============================================================================
