----------------------------- MODULE AuditChain -----------------------------
(***************************************************************************)
(* The node's tamper-evident audit chain: the hot ledger (audit/ledger.ts),*)
(* its head-hash anchors (audit/anchor.ts), the archive that rotation fills*)
(* (audit/retention.ts), and the code that drives them: boot with its      *)
(* restore verification and the two timers (server.ts), and the token CLI  *)
(* that appends while the node is stopped (identity/token-cli.ts).         *)
(*                                                                         *)
(* Every file operation of the program is synchronous and the process has  *)
(* one thread, so nothing interleaves inside a handler; what can happen is *)
(* that the process dies between two durable writes, or that a write fails *)
(* and the failure is swallowed.  Each durable write is therefore a step of*)
(* its own and the program counter pc says which write comes next.         *)
(***************************************************************************)
EXTENDS Integers, Sequences, FiniteSets

CONSTANTS
    HotAge,          \* hot_days: an entry older than this leaves the hot ledger
    ArchiveAge,      \* archive_months: a segment older than this is purged
    AnchorEvery,     \* ANCHOR_INTERVAL_MS
    RetentionEvery,  \* RETENTION_INTERVAL_MS
    MaxTime,         \* bound: the clock
    MaxTraffic,      \* bound: entries appended by requests and CLI commands
    MaxCrashes,      \* bound: stops of the process, graceful or not
    MaxFaults        \* bound: changes of a file between writable and unwritable

ASSUME ConstantsAreNaturals ==
    /\ HotAge \in Nat /\ ArchiveAge \in Nat
    /\ AnchorEvery \in Nat \ {0} /\ RetentionEvery \in Nat \ {0}
    /\ MaxTime \in Nat /\ MaxTraffic \in Nat /\ MaxCrashes \in Nat /\ MaxFaults \in Nat

\* The shipped cadences: anchoring every 60 min (anchor.ts ANCHOR_INTERVAL_MS), retention
\* every 6 h (retention.ts RETENTION_INTERVAL_MS), and hot_days a positive whole number of
\* days (config/deployment.ts).
ASSUME Cadences == AnchorEvery < RetentionEvery /\ AnchorEvery <= HotAge

VARIABLES
    pc,             \* which durable write the owning process does next
    booting,        \* TRUE from the load of the files to the end of main()
    now,            \* the wall clock, in units of the anchor cadence
    mem,            \* AuditLedger of the running process
    disk,           \* data/ledger.json (an absent file is the empty ledger)
    ledgerHealthy,  \* AuditLedger.persistenceHealthy
    anchors,        \* HeadHashAnchor.records of the running process
    anchorFile,     \* the lines of the anchor file
    anchorNl,       \* does the anchor file end with a newline (or is it empty)
    segs,           \* RetentionService.segments of the running process
    segFile,        \* ledger-archive.json
    closing,        \* the segment rotate() has taken out and not yet archived
    nextAnchor,     \* when the anchor timer fires
    nextRetention,  \* when the retention timer fires
    writable,       \* which of the three files accept writes now
    issued,         \* number of entry hashes computed so far
    traffic, crashes, faults,   \* what the bounds count
    lostTail,       \* history: a process ended with entries its file did not have
    lostAnchor,     \* history: an anchor record was not written as a whole line
    lostSegment     \* history: a segment was taken out and not archived

ledgerVars == <<mem, disk, ledgerHealthy, issued>>
anchorVars == <<anchors, anchorFile, anchorNl, lostAnchor>>
archiveVars == <<segs, segFile, closing, lostSegment>>
clockVars == <<now, nextAnchor, nextRetention>>
envVars == <<writable, faults, crashes, traffic, lostTail>>
vars == <<pc, booting, ledgerVars, anchorVars, archiveVars, clockVars, envVars>>

-----------------------------------------------------------------------------
(* Values.  A hash covers everything of an entry and the hash before it, so it is
   an identity: each entry computed gets a number of its own.  The hot ledger is
   kept as a function on its global sequence numbers base..next-1. *)

NoHash == 0        \* the empty string the first entry links to
Undefined == -1    \* hashAt of an entry that is not in the hot ledger

Entry == [hash: Nat, prev: Nat, time: Nat]
AnchorLine == [whole: BOOLEAN, seq: Int, hash: Nat]
Segment == [from: Nat, to: Int, hash: Nat, closed: Nat, payload: BOOLEAN]
Files == {"ledger", "anchor", "archive"}

EmptyLedger == [base |-> 0, next |-> 0, carry |-> NoHash, log |-> [s \in 0..-1 |-> 0]]
Record(seq, hash) == [whole |-> TRUE, seq |-> seq, hash |-> hash]
TornLine == [whole |-> FALSE, seq |-> 0, hash |-> NoHash]
NoSegment == [from |-> 0, to |-> -1, hash |-> NoHash, closed |-> 0, payload |-> FALSE]

-----------------------------------------------------------------------------
(* AuditLedger: pure operators on a ledger value L. *)

HeadHash(L) == IF L.next = L.base THEN NoHash ELSE L.log[L.next - 1].hash
HeadSeq(L) == L.next - 1

\* Mutant: a new entry after a rotation that emptied the ledger starts a new chain.
PrevHashForgetsCarry(L) == IF L.next = L.base THEN NoHash ELSE L.log[L.next - 1].hash

\* What a new entry links to: the carried hash when no entry is hot.
PrevHash(L) == IF L.next = L.base THEN L.carry ELSE L.log[L.next - 1].hash

\* Mutant: the entry just rotated out is looked up in the hot ledger only.
HashAtHotOnly(L, seq) ==
    IF seq \in L.base..(L.next - 1) THEN L.log[seq].hash ELSE Undefined

HashAt(L, seq) ==
    IF seq = L.base - 1 /\ L.carry # NoHash THEN L.carry
    ELSE IF seq \in L.base..(L.next - 1) THEN L.log[seq].hash
    ELSE Undefined

\* Mutant: the sequence number is not advanced, as if entries were replaced.
LedgerAppendInPlace(L, hash, time) ==
    [L EXCEPT !.log = [s \in L.base..L.next |->
                IF s = L.next THEN [hash |-> hash, prev |-> PrevHash(L), time |-> time]
                ELSE L.log[s]]]

LedgerAppend(L, hash, time) ==
    [base |-> L.base, next |-> L.next + 1, carry |-> L.carry,
     log |-> [s \in L.base..L.next |->
                IF s = L.next THEN [hash |-> hash, prev |-> PrevHash(L), time |-> time]
                ELSE L.log[s]]]

\* The first entry that is not older than the cutoff: only a prefix rotates.
IsCut(L, cut, before) ==
    /\ cut \in L.base..L.next
    /\ \A s \in L.base..(cut - 1) : L.log[s].time < before
    /\ cut < L.next => L.log[cut].time >= before

RotateOut(L, cut) ==
    [base |-> cut, next |-> L.next, carry |-> L.log[cut - 1].hash,
     log |-> [s \in cut..(L.next - 1) |-> L.log[s]]]

\* prev_hash linkage of every hot entry, the first one to the carried hash.
ReplayVerify(L) ==
    \A s \in L.base..(L.next - 1) :
        L.log[s].prev = (IF s = L.base THEN L.carry ELSE L.log[s - 1].hash)

-----------------------------------------------------------------------------
(* HeadHashAnchor and its file sink. *)

\* readAll: the records of the longest prefix of lines that parse.
WholePrefix(lines) == {n \in 1..Len(lines) : \A i \in 1..n : lines[i].whole}
ReadAll(lines) == SubSeq(lines, 1, Cardinality(WholePrefix(lines)))

Latest(records) == records[Len(records)]

\* verifyAfterRestore: the latest anchor first, then the whole chain.
VerifyAfterRestore(L, records) ==
    IF records = <<>> THEN HeadHash(L) = NoHash
    ELSE /\ HashAt(L, Latest(records).seq) = Latest(records).hash
         /\ ReplayVerify(L)

\* A line appended to a file without a final newline continues its last line.
AppendLine(lines, nl, line) ==
    IF nl THEN Append(lines, line) ELSE [lines EXCEPT ![Len(lines)] = TornLine]

-----------------------------------------------------------------------------
(* Durable writes.  A failed write is reported in the health flag and otherwise
   swallowed; the caller goes on. *)

\* Mutant: a failed save is swallowed without a trace.
SaveLedgerSilent(L) ==
    /\ mem' = L
    /\ disk' = IF "ledger" \in writable THEN L ELSE disk
    /\ ledgerHealthy' = TRUE

\* AuditLedger.save: the whole file, through a temporary file and a rename.
SaveLedger(L) ==
    /\ mem' = L
    /\ disk' = IF "ledger" \in writable THEN L ELSE disk
    /\ ledgerHealthy' = ("ledger" \in writable)

AppendEntry(L) ==
    /\ SaveLedger(LedgerAppend(L, issued + 1, now))
    /\ issued' = issued + 1

\* AppendOnlyFileAnchorSink.append: one line at the end of the file.
WriteAnchorLine(record) ==
    IF "anchor" \in writable
    THEN /\ anchorFile' = AppendLine(anchorFile, anchorNl, record)
         /\ anchorNl' = TRUE
         /\ lostAnchor' = (lostAnchor \/ ~anchorNl)
    ELSE /\ lostAnchor' = TRUE
         /\ UNCHANGED <<anchorFile, anchorNl>>

\* HeadHashAnchor.anchor.
Anchor(record) ==
    /\ anchors' = Append(anchors, record)
    /\ WriteAnchorLine(record)

\* RetentionService.save.
SaveArchive(s) ==
    /\ segs' = s
    /\ segFile' = IF "archive" \in writable THEN s ELSE segFile

-----------------------------------------------------------------------------
(* The process's life. *)

Init ==
    /\ pc = "down" /\ booting = FALSE
    /\ now = 0 /\ nextAnchor = 0 /\ nextRetention = 0
    /\ mem = EmptyLedger /\ disk = EmptyLedger /\ ledgerHealthy = TRUE
    /\ anchors = <<>> /\ anchorFile = <<>> /\ anchorNl = TRUE
    /\ segs = <<>> /\ segFile = <<>> /\ closing = NoSegment
    /\ writable = Files
    /\ issued = 0 /\ traffic = 0 /\ crashes = 0 /\ faults = 0
    /\ lostTail = FALSE /\ lostAnchor = FALSE /\ lostSegment = FALSE

\* main(): load the files, verify, and refuse to start when the chain is suspect.
Boot ==
    /\ pc = "down"
    /\ VerifyAfterRestore(disk, ReadAll(anchorFile))
    /\ pc' = "anchor" /\ booting' = TRUE
    /\ mem' = disk /\ anchors' = ReadAll(anchorFile) /\ segs' = segFile
    /\ ledgerHealthy' = TRUE
    /\ nextAnchor' = now + AnchorEvery /\ nextRetention' = now + RetentionEvery
    /\ UNCHANGED <<now, disk, issued, anchorFile, anchorNl, lostAnchor,
                   segFile, closing, lostSegment, envVars>>

\* The process is gone and with it everything it held in memory.
EndProcess ==
    /\ pc' = "down" /\ booting' = FALSE
    /\ mem' = EmptyLedger /\ anchors' = <<>> /\ segs' = <<>> /\ closing' = NoSegment
    /\ ledgerHealthy' = TRUE /\ nextAnchor' = 0 /\ nextRetention' = 0
    /\ lostTail' = (lostTail \/ disk # mem)
    /\ lostSegment' = (lostSegment \/ closing # NoSegment
                                   \/ (pc # "cliAnchor" /\ segs # segFile'))
    /\ UNCHANGED <<now, disk, issued, writable, faults, traffic>>

\* A crash between two writes, or a graceful stop: the shutdown handlers write nothing.
Stop ==
    /\ pc # "down" /\ crashes < MaxCrashes /\ crashes' = crashes + 1
    /\ UNCHANGED <<anchorFile, anchorNl, lostAnchor, segFile>>
    /\ EndProcess

\* One server append, outside the background cycles: any audited step of a request.
ServeRequest ==
    /\ pc = "idle" /\ traffic < MaxTraffic /\ traffic' = traffic + 1
    /\ AppendEntry(mem)
    /\ UNCHANGED <<pc, booting, anchorVars, archiveVars, clockVars,
                   writable, faults, crashes, lostTail>>

-----------------------------------------------------------------------------
(* anchorHead: at boot and on the anchor timer. *)

AnchorTimer ==
    /\ pc = "idle" /\ now >= nextAnchor
    /\ pc' = "anchor" /\ nextAnchor' = now + AnchorEvery
    /\ UNCHANGED <<booting, now, nextRetention, ledgerVars, anchorVars, archiveVars, envVars>>

\* Where the code goes after anchorHead returns.
AfterAnchorHead == IF booting THEN "rotate" ELSE "idle"

HeadIsAnchored ==
    \/ HeadHash(mem) = NoHash
    \/ anchors # <<>> /\ Latest(anchors).hash = HeadHash(mem)

AnchorHeadSkip ==
    /\ pc = "anchor" /\ HeadIsAnchored
    /\ pc' = AfterAnchorHead
    /\ UNCHANGED <<booting, ledgerVars, anchorVars, archiveVars, clockVars, envVars>>

\* Mutant: the anchor names the sequence number the next entry will get.
AnchorHeadOffByOne ==
    /\ pc = "anchor" /\ ~HeadIsAnchored
    /\ Anchor(Record(HeadSeq(mem) + 1, HeadHash(mem)))
    /\ pc' = "anchorLog"
    /\ UNCHANGED <<booting, ledgerVars, archiveVars, clockVars, envVars>>

AnchorHead ==
    /\ pc = "anchor" /\ ~HeadIsAnchored
    /\ Anchor(Record(HeadSeq(mem), HeadHash(mem)))
    /\ pc' = "anchorLog"
    /\ UNCHANGED <<booting, ledgerVars, archiveVars, clockVars, envVars>>

\* The ANCHORING entry, after the anchor write.
AnchorHeadLog ==
    /\ pc = "anchorLog"
    /\ AppendEntry(mem)
    /\ pc' = AfterAnchorHead
    /\ UNCHANGED <<booting, anchorVars, archiveVars, clockVars, envVars>>

-----------------------------------------------------------------------------
(* runRetentionCycle: rotate, then purge; at boot and on the retention timer. *)

RetentionTimer ==
    /\ pc = "idle" /\ now >= nextRetention
    /\ pc' = "rotate" /\ nextRetention' = now + RetentionEvery
    /\ UNCHANGED <<booting, now, nextAnchor, ledgerVars, anchorVars, archiveVars, envVars>>

RotateNothing ==
    /\ pc = "rotate" /\ IsCut(mem, mem.base, now - HotAge)
    /\ pc' = "purge"
    /\ UNCHANGED <<booting, ledgerVars, anchorVars, archiveVars, clockVars, envVars>>

\* ledger.rotateOut: the aged prefix leaves the ledger and the file.
Rotate ==
    /\ pc = "rotate"
    /\ \E cut \in (mem.base + 1)..mem.next :
          /\ IsCut(mem, cut, now - HotAge)
          /\ SaveLedger(RotateOut(mem, cut))
          /\ closing' = [from |-> mem.base, to |-> cut - 1, hash |-> mem.log[cut - 1].hash,
                         closed |-> now, payload |-> TRUE]
    /\ pc' = "rotAnchor"
    /\ UNCHANGED <<booting, issued, anchorVars, segs, segFile, lostSegment, clockVars, envVars>>

RotateAnchor ==
    /\ pc = "rotAnchor"
    /\ Anchor(Record(closing.to, closing.hash))
    /\ pc' = "rotLog"
    /\ UNCHANGED <<booting, ledgerVars, archiveVars, clockVars, envVars>>

RotateLog ==
    /\ pc = "rotLog"
    /\ AppendEntry(mem)
    /\ pc' = "rotArchive"
    /\ UNCHANGED <<booting, anchorVars, archiveVars, clockVars, envVars>>

\* Mutant: the new segment replaces the archive instead of extending it.
RotateArchiveReplaces ==
    /\ pc = "rotArchive"
    /\ SaveArchive(<<closing>>)
    /\ closing' = NoSegment
    /\ pc' = "purge"
    /\ UNCHANGED <<booting, ledgerVars, anchorVars, lostSegment, clockVars, envVars>>

RotateArchive ==
    /\ pc = "rotArchive"
    /\ SaveArchive(Append(segs, closing))
    /\ closing' = NoSegment
    /\ pc' = "purge"
    /\ UNCHANGED <<booting, ledgerVars, anchorVars, lostSegment, clockVars, envVars>>

\* Mutant: a segment expires one time unit late.
IsExpiredOneLate(seg) == seg.payload /\ seg.closed < now - ArchiveAge - 1

IsExpired(seg) == seg.payload /\ seg.closed < now - ArchiveAge

Purged(s) == [i \in DOMAIN s |-> IF IsExpired(s[i]) THEN [s[i] EXCEPT !.payload = FALSE] ELSE s[i]]

\* The file is saved only when something was purged.
Purge ==
    /\ pc = "purge"
    /\ IF \E i \in DOMAIN segs : IsExpired(segs[i])
       THEN SaveArchive(Purged(segs))
       ELSE UNCHANGED <<segs, segFile>>
    /\ pc' = "idle" /\ booting' = FALSE
    /\ UNCHANGED <<ledgerVars, anchorVars, closing, lostSegment, clockVars, envVars>>

-----------------------------------------------------------------------------
(* The token CLI: it owns the files while the node is stopped, appends to the
   ledger without verifying it and anchors the new head, with no ANCHORING entry. *)

CliAudit ==
    /\ pc = "down" /\ traffic < MaxTraffic /\ traffic' = traffic + 1
    /\ AppendEntry(disk)
    /\ pc' = "cliAnchor"
    /\ UNCHANGED <<booting, anchorVars, archiveVars, clockVars,
                   writable, faults, crashes, lostTail>>

CliAnchor ==
    /\ pc = "cliAnchor"
    /\ WriteAnchorLine(Record(HeadSeq(mem), HeadHash(mem)))
    /\ UNCHANGED <<crashes, segFile>>
    /\ EndProcess

-----------------------------------------------------------------------------
(* The environment. *)

\* The process dies inside appendFileSync: part of the line, or all of it but its
\* newline, is in the file.
StopInAnchorWrite ==
    /\ \/ pc = "anchor" /\ ~HeadIsAnchored
       \/ pc \in {"rotAnchor", "cliAnchor"}
    /\ "anchor" \in writable
    /\ crashes < MaxCrashes /\ crashes' = crashes + 1
    /\ LET record == IF pc = "rotAnchor" THEN Record(closing.to, closing.hash)
                     ELSE Record(HeadSeq(mem), HeadHash(mem))
       IN \E line \in {TornLine, record} :
             anchorFile' = AppendLine(anchorFile, anchorNl, line)
    /\ anchorNl' = FALSE /\ lostAnchor' = TRUE
    /\ UNCHANGED segFile
    /\ EndProcess

\* The process dies inside writeFileSync of the archive, which truncates first: what
\* is left does not parse, and load() reads that as no segments.
StopInArchiveWrite ==
    /\ \/ pc = "rotArchive"
       \/ pc = "purge" /\ \E i \in DOMAIN segs : IsExpired(segs[i])
    /\ "archive" \in writable
    /\ crashes < MaxCrashes /\ crashes' = crashes + 1
    /\ segFile' = <<>>
    /\ EndProcess
    /\ UNCHANGED <<anchorFile, anchorNl, lostAnchor>>

\* A file's volume fills up, or loses its permissions, or recovers.
FileFault(f) ==
    /\ faults < MaxFaults /\ faults' = faults + 1
    /\ writable' = IF f \in writable THEN writable \ {f} ELSE writable \cup {f}
    /\ UNCHANGED <<pc, booting, ledgerVars, anchorVars, archiveVars, clockVars,
                   crashes, traffic, lostTail>>

\* Time passes while the process is stopped or waits for its next timer.
Tick ==
    /\ now < MaxTime /\ now' = now + 1
    /\ \/ pc = "down"
       \/ pc = "idle" /\ now < nextAnchor /\ now < nextRetention
    /\ UNCHANGED <<pc, booting, ledgerVars, anchorVars, archiveVars,
                   nextAnchor, nextRetention, envVars>>

Next ==
    \/ Boot \/ Stop \/ ServeRequest
    \/ AnchorTimer \/ AnchorHeadSkip \/ AnchorHead \/ AnchorHeadLog
    \/ RetentionTimer \/ RotateNothing \/ Rotate \/ RotateAnchor \/ RotateLog
    \/ RotateArchive \/ Purge
    \/ CliAudit \/ CliAnchor
    \/ StopInAnchorWrite \/ StopInArchiveWrite \/ Tick
    \/ \E f \in Files : FileFault(f)

Spec == Init /\ [][Next]_vars

-----------------------------------------------------------------------------
(* Properties. *)

Places == {"down", "idle", "anchor", "anchorLog", "rotate", "rotAnchor", "rotLog",
           "rotArchive", "purge", "cliAnchor"}

IsLedger(L) ==
    /\ L.base \in Nat /\ L.next \in Nat /\ L.base <= L.next /\ L.carry \in Nat
    /\ L.log \in [L.base..(L.next - 1) -> Entry]

\* Type correctness of the ledger, its file and everything kept beside them.
TypeOK ==
    /\ pc \in Places /\ booting \in BOOLEAN
    /\ now \in Nat /\ nextAnchor \in Nat /\ nextRetention \in Nat
    /\ IsLedger(mem) /\ IsLedger(disk) /\ ledgerHealthy \in BOOLEAN
    /\ anchors \in Seq(AnchorLine) /\ anchorFile \in Seq(AnchorLine) /\ anchorNl \in BOOLEAN
    /\ anchorFile = <<>> => anchorNl
    /\ segs \in Seq(Segment) /\ segFile \in Seq(Segment) /\ closing \in Segment
    /\ writable \in SUBSET Files
    /\ issued \in Nat /\ traffic \in Nat /\ crashes \in Nat /\ faults \in Nat
    /\ lostTail \in BOOLEAN /\ lostAnchor \in BOOLEAN /\ lostSegment \in BOOLEAN

\* The ledger the next reader gets: the running process's, or the file.
Current == IF pc = "down" THEN disk ELSE mem

\* Appending, rotating and reloading never break the chain: full replay succeeds on
\* the ledger in memory and on the file at every instant, crashes and failed writes
\* included (ledger.ts replayVerify, "the chain of custody survives archiving").
ChainLinked ==
    /\ ReplayVerify(mem) /\ ReplayVerify(disk)
    /\ \A L \in {mem, disk} : L.carry = NoHash <=> L.base = 0

\* As long as no process ended with unsaved entries, every anchor record ever written
\* still pins the chain: its entry was written, and if it is still hot (or is the last
\* rotated one) it carries the anchored hash.  So no sequence number is anchored under
\* two hashes (anchor.ts: "the latest anchor pins a PREFIX of the chain").
Pins(r, L) == /\ r.seq \in Nat /\ r.seq < L.next
              /\ r.seq >= L.base - 1 => HashAt(L, r.seq) = r.hash
AnchorsPinChain ==
    ~lostTail => \A i \in DOMAIN anchorFile : anchorFile[i].whole => Pins(anchorFile[i], Current)

\* A stop at any point, between any two writes of an append, an anchoring or a rotation,
\* leaves files the next boot accepts, provided no write failed or was torn and some
\* anchor exists (anchor.ts 191-194, tests/restart-after-traffic.test.ts).  It rests on the
\* cadences: the anchor timer fires between two rotations (60 min against 6 h), and an
\* entry is anchored before it is old enough to rotate (60 min against a day or more).
RestartAccepted ==
    (pc = "down" /\ ~lostTail /\ ~lostAnchor /\ anchorFile # <<>>)
        => VerifyAfterRestore(disk, ReadAll(anchorFile))

\* Without a stop inside a rotation, the archived segments are exactly the entries that
\* left the hot ledger, each once and in order, and the last one's head is the carried
\* hash (retention.ts rotate).
ArchiveTiles ==
    (pc = "idle" /\ ~lostTail /\ ~lostSegment) =>
        /\ \A i \in DOMAIN segs : segs[i].from = (IF i = 1 THEN 0 ELSE segs[i - 1].to + 1)
        /\ mem.base = IF segs = <<>> THEN 0 ELSE Latest(segs).to + 1
        /\ segs # <<>> => Latest(segs).hash = mem.carry

\* A ledger that reports itself healthy has nothing in memory that a crash would lose,
\* whatever failed before (ledger.ts isPersistenceHealthy, /health).
HealthHonest == (pc # "down" /\ ledgerHealthy) => disk = mem

\* Storage limitation: a serving node holds no hot entry older than the hot age, and no
\* archived payload older than the archive age, by more than one retention period
\* (retention.ts runRetentionCycle, A3).
StorageLimited ==
    pc = "idle" =>
        /\ \A s \in DOMAIN mem.log : mem.log[s].time >= now - HotAge - RetentionEvery
        /\ \A i \in DOMAIN segs :
              segs[i].payload => segs[i].closed >= now - ArchiveAge - RetentionEvery

-----------------------------------------------------------------------------
(* Two statements of the repository that the code does not keep. *)

\* What tests/restart-after-traffic.test.ts calls the regression to prevent: a node that
\* has served any audited traffic, with every write saved, could be stopped now and would
\* start again.  Unlike RestartAccepted it does not ask for a first anchor.
RestartableWhileServing ==
    (pc = "idle" /\ disk = mem /\ ~lostTail /\ ~lostAnchor)
        => VerifyAfterRestore(disk, ReadAll(anchorFile))

\* anchor.ts 186-188: when the anchored entry "is gone (truncation below the anchor), the
\* chain is suspect: do not proceed".  So a node that serves has every entry it knows an
\* anchor of.
AnchoredEntriesKept ==
    pc = "idle" => \A i \in DOMAIN anchors : anchors[i].seq < mem.next

=============================================================================
