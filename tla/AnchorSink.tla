----------------------------- MODULE AnchorSink -----------------------------
(***************************************************************************)
(* The write-once anchor sinks: the RFC 3161 time-stamping sink            *)
(* (audit/anchor-tsa.ts) and the S3 Object Lock sink (audit/anchor-s3.ts), *)
(* which share one protocol.  append() writes a local mirror and queues the*)
(* record; reconcile(), started at boot and by the anchor timer and never  *)
(* awaited, submits the queue one record at a time and notes each success  *)
(* in a local manifest.  A slow cycle may still run when the next starts.  *)
(*                                                                         *)
(* A record is its sequence number: it pins one hash (AuditChain), and the *)
(* code tells records apart by seq alone.  The mirror's own write failures *)
(* are AuditChain's.                                                       *)
(***************************************************************************)
EXTENDS Integers, Sequences, FiniteSets, SequencesExt

CONSTANTS
    Cycle,       \* reconcile cycles that may run at once
    MaxSeq,      \* bound: ledger sequence numbers anchored
    MaxRecords,  \* bound: anchor records
    MaxCrashes,  \* bound: restarts
    MaxFaults    \* bound: submissions, answers or manifest writes that fail

ASSUME SinkConstants ==
    MaxSeq \in Nat /\ MaxRecords \in Nat /\ MaxCrashes \in Nat /\ MaxFaults \in Nat

VARIABLES
    up,        \* is the node running?
    mirror,    \* the local anchor file
    pending,   \* the sink's queue
    done,      \* tokenedSeqs / putSeqs
    manifest,  \* the token file / the S3 manifest
    cycle,     \* the running reconcile cycles
    puts,      \* how often the external store accepted each record
    crashes, faults,
    uncertain  \* history: records whose submission ended without the manifest's knowledge

queueVars == <<pending, cycle>>
vars == <<up, mirror, queueVars, done, manifest, puts, crashes, faults, uncertain>>

-----------------------------------------------------------------------------
SeqNo == 0..MaxSeq
Idle == [queue |-> <<>>, failed |-> <<>>, at |-> "idle"]

Init ==
    /\ up = FALSE
    /\ mirror = <<>> /\ pending = <<>> /\ done = {} /\ manifest = {}
    /\ cycle = [c \in Cycle |-> Idle]
    /\ puts = [s \in SeqNo |-> 0]
    /\ crashes = 0 /\ faults = 0 /\ uncertain = {}

\* append: a new head, or the head of a rotated segment, which may have been anchored before.
AppendRecord(s) ==
    /\ up /\ Len(mirror) < MaxRecords
    /\ mirror' = Append(mirror, s)
    /\ pending' = Append(pending, s)
    /\ UNCHANGED <<up, cycle, done, manifest, puts, crashes, faults, uncertain>>

\* The token CLI anchors on the stopped node, into the mirror alone.
CliAppend(s) ==
    /\ ~up /\ Len(mirror) < MaxRecords
    /\ mirror' = Append(mirror, s)
    /\ UNCHANGED <<up, queueVars, done, manifest, puts, crashes, faults, uncertain>>

\* Mutant: the queue is copied and stays queued.
ReconcileCopies(c) ==
    /\ up /\ cycle[c].at = "idle" /\ pending # <<>>
    /\ cycle' = [cycle EXCEPT ![c] = [queue |-> pending, failed |-> <<>>, at |-> "next"]]
    /\ UNCHANGED <<up, mirror, pending, done, manifest, puts, crashes, faults, uncertain>>

\* reconcile takes the whole queue ...
Reconcile(c) ==
    /\ up /\ cycle[c].at = "idle" /\ pending # <<>>
    /\ cycle' = [cycle EXCEPT ![c] = [queue |-> pending, failed |-> <<>>, at |-> "next"]]
    /\ pending' = <<>>
    /\ UNCHANGED <<up, mirror, done, manifest, puts, crashes, faults, uncertain>>

\* ... skips what is already noted, submits the next record and awaits the answer ...
Submit(c) ==
    /\ cycle[c].at = "next" /\ cycle[c].queue # <<>>
    /\ cycle' = IF Head(cycle[c].queue) \in done
                THEN [cycle EXCEPT ![c].queue = Tail(@)]
                ELSE [cycle EXCEPT ![c].at = "sent"]
    /\ UNCHANGED <<up, mirror, pending, done, manifest, puts, crashes, faults, uncertain>>

\* External: the authority signs, or the bucket stores the object.
Accept(c) ==
    /\ cycle[c].at = "sent"
    /\ puts' = [puts EXCEPT ![Head(cycle[c].queue)] = @ + 1]
    /\ cycle' = [cycle EXCEPT ![c].at = "stored"]
    /\ UNCHANGED <<up, mirror, pending, done, manifest, crashes, faults, uncertain>>

\* Mutant: the manifest is written when the request leaves.
NoteEarly(c) ==
    /\ cycle[c].at = "sent"
    /\ manifest' = manifest \cup {Head(cycle[c].queue)}
    /\ done' = done \cup {Head(cycle[c].queue)}
    /\ cycle' = [cycle EXCEPT ![c].queue = Tail(@), ![c].at = "next"]
    /\ UNCHANGED <<up, mirror, pending, puts, crashes, faults, uncertain>>

\* Mutant: a record is done although the manifest has no line for it.
NoteInMemory(c) ==
    /\ cycle[c].at = "stored"
    /\ done' = done \cup {Head(cycle[c].queue)}
    /\ cycle' = [cycle EXCEPT ![c].queue = Tail(@), ![c].at = "next"]
    /\ UNCHANGED <<up, mirror, pending, manifest, puts, crashes, faults, uncertain>>

\* storeToken / recordPut: the manifest's line, then the set in memory.
Note(c) ==
    /\ cycle[c].at = "stored"
    /\ manifest' = manifest \cup {Head(cycle[c].queue)}
    /\ done' = done \cup {Head(cycle[c].queue)}
    /\ cycle' = [cycle EXCEPT ![c].queue = Tail(@), ![c].at = "next"]
    /\ UNCHANGED <<up, mirror, pending, puts, crashes, faults, uncertain>>

\* The request is refused, its answer lost, or the manifest cannot be written.
Fail(c) ==
    /\ cycle[c].at \in {"sent", "stored"}
    /\ faults < MaxFaults /\ faults' = faults + 1
    /\ uncertain' = IF cycle[c].at = "stored" THEN uncertain \cup {Head(cycle[c].queue)} ELSE uncertain
    /\ cycle' = [cycle EXCEPT ![c] = [queue |-> Tail(@.queue), at |-> "next",
                                      failed |-> Append(@.failed, Head(@.queue))]]
    /\ UNCHANGED <<up, mirror, pending, done, manifest, puts, crashes>>

\* Mutant: the failures replace what was queued meanwhile.
FinishOverwrites(c) ==
    /\ cycle[c].at = "next" /\ cycle[c].queue = <<>>
    /\ pending' = cycle[c].failed
    /\ cycle' = [cycle EXCEPT ![c] = Idle]
    /\ UNCHANGED <<up, mirror, done, manifest, puts, crashes, faults, uncertain>>

\* ... and puts its failures before whatever was queued meanwhile.
Finish(c) ==
    /\ cycle[c].at = "next" /\ cycle[c].queue = <<>>
    /\ pending' = cycle[c].failed \o pending
    /\ cycle' = [cycle EXCEPT ![c] = Idle]
    /\ UNCHANGED <<up, mirror, done, manifest, puts, crashes, faults, uncertain>>

-----------------------------------------------------------------------------
\* Mutant: a restart starts with an empty queue.
BootForgets ==
    /\ ~up /\ up' = TRUE
    /\ done' = manifest /\ pending' = <<>>
    /\ UNCHANGED <<mirror, cycle, manifest, puts, crashes, faults, uncertain>>

\* The k-th of a set of positions.
Nth(S, k) == CHOOSE i \in S : Cardinality({j \in S : j <= i}) = k

\* readAll queues every record of the mirror that the manifest does not name, in order.
Requeued(noted) ==
    LET kept == {i \in DOMAIN mirror : mirror[i] \notin noted}
    IN  [k \in 1..Cardinality(kept) |-> mirror[Nth(kept, k)]]

\* The constructor loads the manifest, then the mirror is read.
Boot ==
    /\ ~up /\ up' = TRUE
    /\ done' = manifest
    /\ pending' = Requeued(manifest)
    /\ UNCHANGED <<mirror, cycle, manifest, puts, crashes, faults, uncertain>>

InFlight == {c \in Cycle : cycle[c].at \in {"sent", "stored"}}

Crash ==
    /\ up /\ crashes < MaxCrashes /\ crashes' = crashes + 1
    /\ up' = FALSE /\ pending' = <<>> /\ done' = {}
    /\ cycle' = [c \in Cycle |-> Idle]
    /\ uncertain' = uncertain \cup {Head(cycle[c].queue) : c \in InFlight}
    /\ UNCHANGED <<mirror, manifest, puts, faults>>

Progress(c) == Reconcile(c) \/ Submit(c) \/ Accept(c) \/ Note(c) \/ Finish(c)

Next ==
    \/ Boot \/ Crash
    \/ \E s \in SeqNo : AppendRecord(s) \/ CliAppend(s)
    \/ \E c \in Cycle : Progress(c) \/ Fail(c)

Spec == Init /\ [][Next]_vars

\* The timer keeps starting cycles; a request ends, in an answer or in fetch's own timeout;
\* the store is not down for ever; a stopped node is started again.
FairSpec == Spec /\ WF_vars(Boot) /\ \A c \in Cycle : WF_vars(Progress(c))

-----------------------------------------------------------------------------
CycleState == [queue: Seq(SeqNo), failed: Seq(SeqNo), at: {"idle", "next", "sent", "stored"}]

\* Type correctness of the queues, the manifest and the external store.
TypeOK ==
    /\ up \in BOOLEAN /\ mirror \in Seq(SeqNo) /\ pending \in Seq(SeqNo)
    /\ done \subseteq manifest /\ manifest \subseteq SeqNo
    /\ \A c \in Cycle : /\ cycle[c] \in CycleState
                        /\ cycle[c].at \in {"sent", "stored"} => cycle[c].queue # <<>>
    /\ puts \in [SeqNo -> Nat] /\ uncertain \subseteq SeqNo
    /\ crashes \in Nat /\ faults \in Nat

\* "Nor drops one still pending": every record of a running node's mirror is noted, queued,
\* or in the hands of a running cycle, however cycles overlap and submissions fail.
NothingDropped ==
    up => ToSet(mirror) \subseteq
              done \cup ToSet(pending)
                   \cup UNION {ToSet(cycle[c].queue) \cup ToSet(cycle[c].failed) : c \in Cycle}

\* The manifest never claims what the external store does not have.
ManifestTrue == \A s \in manifest : puts[s] > 0

\* A record anchored once is externalized once, overlapping cycles or not, unless a crash or
\* a failure left the first submission's outcome unknown.
PutOnce ==
    \A s \in SeqNo : (s \notin uncertain /\ Cardinality({i \in DOMAIN mirror : mirror[i] = s}) <= 1)
                        => puts[s] <= 1

\* Every anchored head is eventually externalized and noted (readAll: "the obligation to
\* timestamp it survives a restart").
EventuallyExternal == \A s \in SeqNo : (s \in ToSet(mirror)) ~> (s \in manifest)

=============================================================================
