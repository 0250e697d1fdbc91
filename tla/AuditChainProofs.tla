-------------------------- MODULE AuditChainProofs --------------------------
(***************************************************************************)
(* Theorems about the audit chain, for every retention policy, cadence and *)
(* bound: type correctness, the unbroken hash chain, and the anchors that  *)
(* pin it.                                                                 *)
(***************************************************************************)
EXTENDS AuditChain, FiniteSetTheorems, SequenceTheorems, TLAPS

\* A ledger value that is well formed and whose chain replays.
GoodLedger(L) ==
    /\ IsLedger(L)
    /\ ReplayVerify(L)
    /\ L.carry = NoHash <=> L.base = 0
    /\ \A s \in L.base..(L.next - 1) : L.log[s].hash # NoHash

\* The empty ledger, which is also what an absent file loads as, is good.
LEMMA EmptyGood == GoodLedger(EmptyLedger)
  BY DEF GoodLedger, EmptyLedger, IsLedger, ReplayVerify, NoHash, Entry

\* AuditLedger.append keeps a good ledger good: the new entry links to the last hot
\* entry or, when none is hot, to the carried hash.
LEMMA AppendGood ==
  ASSUME NEW L, GoodLedger(L), NEW h \in Nat \ {0}, NEW t \in Nat
  PROVE  /\ GoodLedger(LedgerAppend(L, h, t))
         /\ \A q \in Nat : q < L.next /\ q >= L.base - 1
                => HashAt(LedgerAppend(L, h, t), q) = HashAt(L, q)
  <1> DEFINE M == LedgerAppend(L, h, t)
             e == [hash |-> h, prev |-> PrevHash(L), time |-> t]
  <1>0. /\ L.base \in Nat /\ L.next \in Nat /\ L.base <= L.next /\ L.carry \in Nat
        /\ L.log \in [L.base..(L.next - 1) -> Entry]
        /\ L.next > L.base => L.log[L.next - 1] \in Entry
        /\ \A s \in L.base..(L.next - 1) :
              /\ L.log[s].hash # NoHash
              /\ L.log[s].prev = (IF s = L.base THEN L.carry ELSE L.log[s - 1].hash)
    BY DEF GoodLedger, IsLedger, ReplayVerify
  <1>1. /\ M.base = L.base /\ M.next = L.next + 1 /\ M.carry = L.carry
        /\ M.log = [s \in L.base..L.next |-> IF s = L.next THEN e ELSE L.log[s]]
    BY DEF LedgerAppend
  <1>2. PrevHash(L) \in Nat /\ e \in Entry
    BY <1>0 DEF PrevHash, Entry
  <1>a. e.hash = h /\ e.prev = PrevHash(L)
    OBVIOUS
  <1> HIDE DEF M, e
  <1>b. /\ M.log[L.next] = e
        /\ \A s \in L.base..(L.next - 1) : M.log[s] = L.log[s] /\ s # L.next
    BY <1>0, <1>1
  <1>3. IsLedger(M)
    <2>1. M.log \in [L.base..L.next -> Entry]
      BY <1>0, <1>1, <1>2
    <2> QED BY <1>0, <1>1, <2>1 DEF IsLedger
  <1>4. ReplayVerify(M)
    <2> SUFFICES ASSUME NEW s \in L.base..L.next
                 PROVE  M.log[s].prev = (IF s = L.base THEN L.carry ELSE M.log[s - 1].hash)
      BY <1>0, <1>1 DEF ReplayVerify
    <2>1. CASE s = L.next
      <3>1. CASE L.next = L.base
        BY <1>a, <1>b, <2>1, <3>1 DEF PrevHash
      <3>2. CASE L.next # L.base
        <4>1. M.log[L.next - 1] = L.log[L.next - 1]
          BY <1>0, <1>b, <3>2
        <4> QED BY <1>a, <1>b, <2>1, <3>2, <4>1 DEF PrevHash
      <3> QED BY <3>1, <3>2
    <2>2. CASE s # L.next
      <3>1. s \in L.base..(L.next - 1)
        BY <2>2, <1>0
      <3>2. s # L.base => M.log[s - 1] = L.log[s - 1]
        BY <1>0, <1>b, <3>1
      <3> QED BY <1>0, <1>b, <3>1, <3>2
    <2> QED BY <2>1, <2>2
  <1>5. \A s \in M.base..(M.next - 1) : M.log[s].hash # NoHash
    <2> SUFFICES ASSUME NEW s \in L.base..L.next
                 PROVE  M.log[s].hash # NoHash
      <3>1. M.base..(M.next - 1) = L.base..L.next
        BY <1>0, <1>1
      <3> QED BY <3>1
    <2>1. CASE s = L.next
      BY <1>a, <1>b, <2>1 DEF NoHash
    <2>2. CASE s # L.next
      <3>1. s \in L.base..(L.next - 1)
        BY <2>2, <1>0
      <3> QED BY <1>0, <1>b, <3>1
    <2> QED BY <2>1, <2>2
  <1>6. M.carry = NoHash <=> M.base = 0
    BY <1>1 DEF GoodLedger
  <1>7. \A q \in Nat : q < L.next /\ q >= L.base - 1 => HashAt(M, q) = HashAt(L, q)
    <2> SUFFICES ASSUME NEW q \in Nat, q < L.next, q >= L.base - 1
                 PROVE  HashAt(M, q) = HashAt(L, q)
      OBVIOUS
    <2>1. q \in L.base..(M.next - 1) <=> q \in L.base..(L.next - 1)
      BY <1>0, <1>1
    <2> QED BY <1>0, <1>1, <1>b, <2>1 DEF HashAt
  <1> QED BY <1>3, <1>4, <1>5, <1>6, <1>7 DEF GoodLedger, M

\* AuditLedger.rotateOut keeps a good ledger good: the first entry that stays links to
\* the carried hash of the last one that left.
LEMMA RotateGood ==
  ASSUME NEW L, GoodLedger(L), NEW cut \in (L.base + 1)..L.next
  PROVE  /\ GoodLedger(RotateOut(L, cut))
         /\ \A q \in Nat : q < L.next /\ q >= cut - 1
                => HashAt(RotateOut(L, cut), q) = HashAt(L, q)
  <1> DEFINE M == RotateOut(L, cut)
  <1>0. /\ L.base \in Nat /\ L.next \in Nat /\ cut \in Nat /\ cut > 0
        /\ cut - 1 \in L.base..(L.next - 1)
        /\ \A s \in L.base..(L.next - 1) : L.log[s] \in Entry /\ L.log[s].hash # NoHash
    BY DEF GoodLedger, IsLedger
  <1>1. /\ M.base = cut /\ M.next = L.next /\ M.carry = L.log[cut - 1].hash
        /\ M.log = [s \in cut..(L.next - 1) |-> L.log[s]]
    BY DEF RotateOut
  <1>2. IsLedger(M)
    BY <1>0, <1>1 DEF IsLedger, Entry
  <1>3. ReplayVerify(M)
    BY <1>0, <1>1 DEF ReplayVerify, GoodLedger
  <1>4. /\ M.carry = NoHash <=> M.base = 0
        /\ \A s \in M.base..(M.next - 1) : M.log[s].hash # NoHash
    BY <1>0, <1>1 DEF NoHash
  <1>5. \A q \in Nat : q < L.next /\ q >= cut - 1 => HashAt(M, q) = HashAt(L, q)
    BY <1>0, <1>1 DEF HashAt
  <1> QED BY <1>2, <1>3, <1>4, <1>5 DEF GoodLedger

\* readAll returns a sequence of records, and the whole file when no line is torn.
LEMMA ReadAllIsPrefix ==
  ASSUME NEW lines \in Seq(AnchorLine)
  PROVE  /\ ReadAll(lines) \in Seq(AnchorLine)
         /\ (\A i \in 1..Len(lines) : lines[i].whole) => ReadAll(lines) = lines
  <1> DEFINE n == Cardinality(WholePrefix(lines))
  <1>1. Len(lines) \in Nat
    OBVIOUS
  <1>2. IsFiniteSet(1..Len(lines)) /\ Cardinality(1..Len(lines)) = Len(lines)
    BY <1>1, FS_Interval
  <1>3. WholePrefix(lines) \subseteq 1..Len(lines)
    BY DEF WholePrefix
  <1>4. n \in Nat /\ n <= Len(lines)
    BY <1>2, <1>3, FS_Subset, FS_CardinalityType
  <1>5. SubSeq(lines, 1, n) \in Seq(AnchorLine)
    BY <1>1, <1>4, SubSeqProperties
  <1>6. ASSUME \A i \in 1..Len(lines) : lines[i].whole
        PROVE  SubSeq(lines, 1, n) = lines
    <2>1. WholePrefix(lines) = 1..Len(lines)
      BY <1>1, <1>6 DEF WholePrefix
    <2>2. n = Len(lines)
      BY <2>1, <1>2
    <2> QED BY <2>2, SubSeqFull
  <1> QED BY <1>5, <1>6 DEF ReadAll

-----------------------------------------------------------------------------
(* The chain. *)

\* The inductive invariant behind ChainLinked: both copies of the ledger are good.
Chained == GoodLedger(mem) /\ GoodLedger(disk)

\* The empty ledger of a new volume is well linked, in memory and on disk.
LEMMA ChainedInit == Init => Chained
  BY EmptyGood DEF Init, Chained

\* Saving a good ledger leaves both copies good, whether the write succeeds or not.
LEMMA SaveGood ==
  ASSUME Chained, NEW L, GoodLedger(L), SaveLedger(L)
  PROVE  Chained'
  BY DEF SaveLedger, Chained

\* Ledger.append keeps the ledger well linked whether its save succeeds or fails.
LEMMA AppendEntryGood ==
  ASSUME TypeOK, Chained, NEW L, GoodLedger(L), AppendEntry(L)
  PROVE  Chained'
  <1>1. issued + 1 \in Nat \ {0} /\ now \in Nat
    BY DEF TypeOK
  <1>2. GoodLedger(LedgerAppend(L, issued + 1, now))
    BY <1>1, AppendGood
  <1> QED BY <1>2, SaveGood DEF AppendEntry

\* Every step of the node, the CLI and the environment keeps both copies good.
LEMMA ChainedStep == TypeOK /\ Chained /\ [Next]_vars => Chained'
  <1> SUFFICES ASSUME TypeOK, Chained, [Next]_vars
               PROVE  Chained'
    OBVIOUS
  <1>0. ASSUME EndProcess PROVE Chained'
    BY <1>0, EmptyGood DEF EndProcess, Chained
  <1>1. CASE Boot
    BY <1>1 DEF Boot, Chained
  <1>2. CASE Stop
    BY <1>2, <1>0 DEF Stop
  <1>3. CASE ServeRequest
    BY <1>3, AppendEntryGood DEF ServeRequest, Chained
  <1>4. CASE AnchorTimer \/ AnchorHeadSkip \/ AnchorHead
    BY <1>4 DEF AnchorTimer, AnchorHeadSkip, AnchorHead, ledgerVars, Chained
  <1>5. CASE AnchorHeadLog
    BY <1>5, AppendEntryGood DEF AnchorHeadLog, Chained
  <1>6. CASE RetentionTimer \/ RotateNothing \/ RotateAnchor \/ RotateArchive \/ Purge
    BY <1>6 DEF RetentionTimer, RotateNothing, RotateAnchor, RotateArchive, Purge,
                ledgerVars, Chained
  <1>7. CASE Rotate
    <2>1. PICK cut \in (mem.base + 1)..mem.next : SaveLedger(RotateOut(mem, cut))
      BY <1>7 DEF Rotate
    <2>2. GoodLedger(RotateOut(mem, cut))
      BY <2>1, RotateGood DEF Chained
    <2> QED BY <2>1, <2>2, SaveGood
  <1>8. CASE RotateLog
    BY <1>8, AppendEntryGood DEF RotateLog, Chained
  <1>9. CASE CliAudit
    BY <1>9, AppendEntryGood DEF CliAudit, Chained
  <1>10. CASE CliAnchor \/ StopInAnchorWrite \/ StopInArchiveWrite
    BY <1>10, <1>0 DEF CliAnchor, StopInAnchorWrite, StopInArchiveWrite
  <1>11. CASE Tick \/ \E f \in Files : FileFault(f)
    BY <1>11 DEF Tick, FileFault, ledgerVars, Chained
  <1>12. CASE UNCHANGED vars
    BY <1>12 DEF vars, ledgerVars, Chained
  <1> QED BY <1>1, <1>2, <1>3, <1>4, <1>5, <1>6, <1>7, <1>8, <1>9, <1>10, <1>11, <1>12
          DEF Next

-----------------------------------------------------------------------------
(* Types. *)

\* The initial state has its type.
LEMMA TypeInit == Init => TypeOK
  <1>1. IsLedger(EmptyLedger)
    BY EmptyGood DEF GoodLedger
  <1>2. NoSegment \in Segment
    BY DEF Segment, NoSegment, NoHash
  <1> SUFFICES ASSUME Init PROVE TypeOK
    OBVIOUS
  <1>3. /\ pc \in Places /\ now \in Nat /\ nextAnchor \in Nat /\ nextRetention \in Nat
        /\ issued \in Nat /\ traffic \in Nat /\ crashes \in Nat /\ faults \in Nat
    BY DEF Init, Places
  <1>4. /\ booting \in BOOLEAN /\ ledgerHealthy \in BOOLEAN /\ anchorNl \in BOOLEAN
        /\ lostTail \in BOOLEAN /\ lostAnchor \in BOOLEAN /\ lostSegment \in BOOLEAN
        /\ writable \in SUBSET Files
        /\ anchorFile = <<>> => anchorNl
    BY DEF Init
  <1>5. /\ anchors \in Seq(AnchorLine) /\ anchorFile \in Seq(AnchorLine)
        /\ segs \in Seq(Segment) /\ segFile \in Seq(Segment)
    BY EmptySeq DEF Init
  <1> QED BY <1>1, <1>2, <1>3, <1>4, <1>5 DEF Init, TypeOK

\* A line appended to the anchor file leaves a sequence of lines, and a non-empty one.
LEMMA AppendLineType ==
  ASSUME NEW lines \in Seq(AnchorLine), NEW nl \in BOOLEAN, lines = <<>> => nl,
         NEW line \in AnchorLine
  PROVE  /\ AppendLine(lines, nl, line) \in Seq(AnchorLine)
         /\ AppendLine(lines, nl, line) # <<>>
  <1>1. CASE nl
    BY <1>1, AppendProperties DEF AppendLine
  <1>2. CASE ~nl
    <2>1. Len(lines) \in 1..Len(lines) /\ TornLine \in AnchorLine
      BY <1>2, EmptySeq, LenProperties DEF TornLine, AnchorLine, NoHash
    <2>2. [lines EXCEPT ![Len(lines)] = TornLine] \in Seq(AnchorLine)
      BY <2>1, ExceptSeq
    <2>3. Len([lines EXCEPT ![Len(lines)] = TornLine]) = Len(lines)
      BY <2>1, ExceptSeq
    <2> QED BY <1>2, <2>1, <2>2, <2>3 DEF AppendLine
  <1> QED BY <1>1, <1>2

\* The records the node writes as anchors are lines of the anchor file.
LEMMA HeadType ==
  ASSUME NEW L, IsLedger(L)
  PROVE  HeadHash(L) \in Nat /\ HeadSeq(L) \in Int /\ Record(HeadSeq(L), HeadHash(L)) \in AnchorLine
  <1>1. HeadHash(L) \in Nat
    BY DEF HeadHash, IsLedger, Entry, NoHash
  <1>2. HeadSeq(L) \in Int
    BY DEF HeadSeq, IsLedger
  <1> QED BY <1>1, <1>2 DEF Record, AnchorLine

\* The segment a rotation closes has the type of an archived segment.
LEMMA ClosingType ==
  ASSUME closing \in Segment
  PROVE  Record(closing.to, closing.hash) \in AnchorLine
  BY DEF Record, AnchorLine, Segment

\* Writing an anchor line, whole or torn, keeps the anchor file's type.
LEMMA WriteAnchorLineType ==
  ASSUME TypeOK, NEW r \in AnchorLine, WriteAnchorLine(r)
  PROVE  /\ anchorFile' \in Seq(AnchorLine) /\ anchorNl' \in BOOLEAN
         /\ anchorFile' = <<>> => anchorNl'
         /\ lostAnchor' \in BOOLEAN
  <1>1. CASE "anchor" \in writable
    BY <1>1, AppendLineType DEF WriteAnchorLine, TypeOK
  <1>2. CASE "anchor" \notin writable
    BY <1>2 DEF WriteAnchorLine, TypeOK
  <1> QED BY <1>1, <1>2

\* The part of TypeOK that no ledger operation touches.
OtherTypes ==
    /\ pc \in Places /\ booting \in BOOLEAN
    /\ now \in Nat /\ nextAnchor \in Nat /\ nextRetention \in Nat
    /\ ledgerHealthy \in BOOLEAN
    /\ anchors \in Seq(AnchorLine) /\ anchorFile \in Seq(AnchorLine) /\ anchorNl \in BOOLEAN
    /\ anchorFile = <<>> => anchorNl
    /\ segs \in Seq(Segment) /\ segFile \in Seq(Segment) /\ closing \in Segment
    /\ writable \in SUBSET Files
    /\ issued \in Nat /\ traffic \in Nat /\ crashes \in Nat /\ faults \in Nat
    /\ lostTail \in BOOLEAN /\ lostAnchor \in BOOLEAN /\ lostSegment \in BOOLEAN

\* Every step keeps the types of everything but the two ledgers, which Chained types.
LEMMA OtherTypesStep == TypeOK /\ Chained /\ [Next]_vars => OtherTypes'
  <1> SUFFICES ASSUME TypeOK, Chained, [Next]_vars
               PROVE  OtherTypes'
    OBVIOUS
  <1> USE ConstantsAreNaturals
  <1>a. OtherTypes
    BY DEF TypeOK, OtherTypes
  <1>b. ASSUME EndProcess
        PROVE  /\ pc' \in Places /\ booting' \in BOOLEAN
               /\ now' \in Nat /\ nextAnchor' \in Nat /\ nextRetention' \in Nat
               /\ ledgerHealthy' \in BOOLEAN /\ anchors' \in Seq(AnchorLine)
               /\ segs' \in Seq(Segment) /\ closing' \in Segment
               /\ writable' \in SUBSET Files
               /\ issued' \in Nat /\ traffic' \in Nat /\ faults' \in Nat
               /\ lostTail' \in BOOLEAN /\ lostSegment' \in BOOLEAN
    <2>1. lostTail' \in BOOLEAN /\ lostSegment' \in BOOLEAN /\ booting' \in BOOLEAN
          /\ ledgerHealthy' \in BOOLEAN
      BY <1>b, Zenon DEF EndProcess
    <2>2. anchors' \in Seq(AnchorLine) /\ segs' \in Seq(Segment) /\ closing' \in Segment
      BY <1>b, EmptySeq DEF EndProcess, Segment, NoSegment, NoHash
    <2> QED BY <1>a, <1>b, <2>1, <2>2 DEF EndProcess, OtherTypes, Places
  <1>c. ASSUME NEW L, AppendEntry(L)
        PROVE  ledgerHealthy' \in BOOLEAN /\ issued' \in Nat
    BY <1>a, <1>c DEF AppendEntry, SaveLedger, OtherTypes
  <1>d. ASSUME NEW r \in AnchorLine, Anchor(r)
        PROVE  /\ anchors' \in Seq(AnchorLine)
               /\ anchorFile' \in Seq(AnchorLine) /\ anchorNl' \in BOOLEAN
               /\ anchorFile' = <<>> => anchorNl'
               /\ lostAnchor' \in BOOLEAN
    BY <1>a, <1>d, WriteAnchorLineType, AppendProperties DEF Anchor, OtherTypes
  <1>1. CASE Boot
    BY <1>a, <1>1, ReadAllIsPrefix
       DEF Boot, OtherTypes, Places, envVars
  <1>2. CASE Stop
    BY <1>a, <1>b, <1>2 DEF Stop, OtherTypes
  <1>3. CASE ServeRequest
    BY <1>a, <1>3, <1>c DEF ServeRequest, OtherTypes, anchorVars, archiveVars, clockVars
  <1>4. CASE AnchorTimer \/ AnchorHeadSkip
    BY <1>a, <1>4 DEF AnchorTimer, AnchorHeadSkip, AfterAnchorHead, OtherTypes, Places,
       ledgerVars, anchorVars, archiveVars, clockVars, envVars
  <1>5. CASE AnchorHead
    BY <1>a, <1>5, <1>d, HeadType DEF AnchorHead, TypeOK, OtherTypes, Places,
       ledgerVars, archiveVars, clockVars, envVars
  <1>6. CASE AnchorHeadLog
    BY <1>a, <1>6, <1>c DEF AnchorHeadLog, AfterAnchorHead, OtherTypes, Places,
       anchorVars, archiveVars, clockVars, envVars
  <1>7. CASE RetentionTimer \/ RotateNothing
    BY <1>a, <1>7 DEF RetentionTimer, RotateNothing, OtherTypes, Places,
       ledgerVars, anchorVars, archiveVars, clockVars, envVars
  <1>8. CASE Rotate
    <2>1. PICK cut \in (mem.base + 1)..mem.next :
             /\ SaveLedger(RotateOut(mem, cut))
             /\ closing' = [from |-> mem.base, to |-> cut - 1,
                            hash |-> mem.log[cut - 1].hash, closed |-> now, payload |-> TRUE]
      BY <1>8 DEF Rotate
    <2>2. mem.base \in Nat /\ cut - 1 \in Int /\ mem.log[cut - 1].hash \in Nat
      <3>1. /\ mem.base \in Nat /\ mem.next \in Nat
            /\ mem.log \in [mem.base..(mem.next - 1) -> Entry]
        BY DEF TypeOK, IsLedger
      <3>2. cut - 1 \in mem.base..(mem.next - 1)
        BY <3>1
      <3>3. mem.log[cut - 1] \in Entry
        BY <3>1, <3>2
      <3> QED BY <3>1, <3>2, <3>3 DEF Entry
    <2>3. closing' \in Segment
      BY <2>1, <2>2 DEF Segment, TypeOK
    <2> QED BY <1>a, <1>8, <2>1, <2>3
            DEF Rotate, SaveLedger, OtherTypes, Places, anchorVars, clockVars, envVars
  <1>9. CASE RotateAnchor
    BY <1>a, <1>9, <1>d, ClosingType DEF RotateAnchor, OtherTypes, Places,
       ledgerVars, archiveVars, clockVars, envVars
  <1>10. CASE RotateLog
    BY <1>a, <1>10, <1>c DEF RotateLog, OtherTypes, Places,
       anchorVars, archiveVars, clockVars, envVars
  <1>11. CASE RotateArchive
    <2>1. Append(segs, closing) \in Seq(Segment) /\ NoSegment \in Segment
      BY <1>a, AppendProperties DEF OtherTypes, Segment, NoSegment, NoHash
    <2> QED BY <1>a, <1>11, <2>1 DEF RotateArchive, SaveArchive, OtherTypes, Places,
            ledgerVars, anchorVars, clockVars, envVars
  <1>12. CASE Purge
    <2>1. Purged(segs) \in Seq(Segment)
      <3>1. /\ Len(segs) \in Nat /\ DOMAIN segs = 1..Len(segs)
            /\ \A i \in 1..Len(segs) : segs[i] \in Segment
        BY <1>a DEF OtherTypes
      <3>2. Purged(segs) \in [1..Len(segs) -> Segment]
        BY <3>1 DEF Purged, Segment
      <3> QED BY <3>1, <3>2, SeqDef
    <2> QED BY <1>a, <1>12, <2>1 DEF Purge, SaveArchive, OtherTypes, Places,
            ledgerVars, anchorVars, clockVars, envVars
  <1>13. CASE CliAudit
    BY <1>a, <1>13, <1>c DEF CliAudit, OtherTypes, Places, anchorVars, archiveVars, clockVars
  <1>14. CASE CliAnchor
    BY <1>a, <1>b, <1>14, HeadType, WriteAnchorLineType DEF CliAnchor, TypeOK, OtherTypes
  <1>15. CASE StopInAnchorWrite
    <2>1. PICK line \in AnchorLine : anchorFile' = AppendLine(anchorFile, anchorNl, line)
      <3>1. TornLine \in AnchorLine
        BY DEF TornLine, AnchorLine, NoHash
      <3> QED BY <1>15, <3>1, HeadType, ClosingType DEF StopInAnchorWrite, TypeOK
    <2>2. anchorFile' \in Seq(AnchorLine) /\ anchorFile' # <<>>
      BY <1>a, <2>1, AppendLineType DEF OtherTypes
    <2>3. /\ EndProcess /\ crashes' = crashes + 1 /\ segFile' = segFile
          /\ anchorNl' = FALSE /\ lostAnchor' = TRUE
      BY <1>15 DEF StopInAnchorWrite
    <2>4. anchorNl' \in BOOLEAN /\ lostAnchor' \in BOOLEAN
      BY <2>3, Zenon
    <2>5. crashes' \in Nat /\ segFile' \in Seq(Segment)
      BY <1>a, <2>3 DEF OtherTypes
    <2> QED BY <1>b, <2>2, <2>3, <2>4, <2>5 DEF OtherTypes
  <1>16. CASE StopInArchiveWrite
    BY <1>a, <1>b, <1>16, EmptySeq DEF StopInArchiveWrite, OtherTypes
  <1>17. CASE Tick
    BY <1>a, <1>17 DEF Tick, OtherTypes, ledgerVars, anchorVars, archiveVars, envVars
  <1>18. CASE \E f \in Files : FileFault(f)
    BY <1>a, <1>18 DEF FileFault, OtherTypes, ledgerVars, anchorVars, archiveVars, clockVars
  <1>19. CASE UNCHANGED vars
    BY <1>a, <1>19 DEF vars, OtherTypes, ledgerVars, anchorVars, archiveVars, clockVars, envVars
  <1> QED BY <1>1, <1>2, <1>3, <1>4, <1>5, <1>6, <1>7, <1>8, <1>9, <1>10, <1>11, <1>12,
             <1>13, <1>14, <1>15, <1>16, <1>17, <1>18, <1>19 DEF Next

\* Type correctness, proved together with the chain because the types of a rotated or
\* extended ledger follow from its being good.
LEMMA ChainInvariant == Spec => [](TypeOK /\ Chained)
  <1>1. Init => TypeOK /\ Chained
    BY TypeInit, ChainedInit
  <1>2. TypeOK /\ Chained /\ [Next]_vars => (TypeOK /\ Chained)'
    <2> SUFFICES ASSUME TypeOK, Chained, [Next]_vars
                 PROVE  (TypeOK /\ Chained)'
      OBVIOUS
    <2>1. Chained' /\ OtherTypes'
      BY ChainedStep, OtherTypesStep
    <2>2. IsLedger(mem)' /\ IsLedger(disk)'
      BY <2>1 DEF Chained, GoodLedger
    <2> QED BY <2>1, <2>2 DEF TypeOK, OtherTypes
  <1> QED BY <1>1, <1>2, PTL DEF Spec

\* Every state the node, its CLI and its crashes reach is well typed, for every cadence,
\* retention policy and bound.
THEOREM TypeCorrect == Spec => []TypeOK
  BY ChainInvariant, PTL

\* Replay verification never fails on a ledger this code wrote: neither appends, rotations
\* and reloads in any order, nor crashes and failed writes between them, break the chain
\* in memory or on disk.
THEOREM ChainNeverBreaks == Spec => []ChainLinked
  <1>1. TypeOK /\ Chained => ChainLinked
    BY DEF Chained, GoodLedger, ChainLinked
  <1> QED BY <1>1, ChainInvariant, PTL

-----------------------------------------------------------------------------
(* The anchors. *)

AllPinned(lines, L) == \A i \in 1..Len(lines) : lines[i].whole => Pins(lines[i], L)

\* AnchorsPinChain is not inductive on its own: the record a rotation or the CLI is about
\* to write must name an entry of the chain too.
PinInv ==
    /\ ~lostTail => AllPinned(anchorFile, Current)
    /\ pc = "cliAnchor" => mem.next > mem.base
    /\ pc = "rotAnchor" => mem.base > 0 /\ closing.to = mem.base - 1 /\ closing.hash = mem.carry

\* The head of a non-empty ledger, and the carried hash of a rotated one, pin it.
LEMMA HeadPins ==
  ASSUME NEW L, GoodLedger(L), L.next > L.base
  PROVE  Pins(Record(HeadSeq(L), HeadHash(L)), L)
  <1>1. /\ L.base \in Nat /\ L.next \in Nat
        /\ L.next - 1 \in L.base..(L.next - 1)
        /\ L.next - 1 # L.base - 1
    BY DEF GoodLedger, IsLedger
  <1>2. HashAt(L, L.next - 1) = L.log[L.next - 1].hash
    BY <1>1 DEF HashAt
  <1> QED BY <1>1, <1>2 DEF Pins, Record, HeadSeq, HeadHash

\* The head of a rotated segment, carried as the hash before base, is pinned by its record.
LEMMA CarryPins ==
  ASSUME NEW L, GoodLedger(L), L.base > 0
  PROVE  Pins(Record(L.base - 1, L.carry), L)
  <1>1. L.base \in Nat /\ L.next \in Nat /\ L.base <= L.next /\ L.carry # NoHash
    BY DEF GoodLedger, IsLedger
  <1> QED BY <1>1 DEF Pins, Record, HashAt

\* What pinned the chain still pins it after an append or a rotation.
LEMMA AppendPins ==
  ASSUME NEW L, GoodLedger(L), NEW h \in Nat \ {0}, NEW t \in Nat, NEW lines,
         AllPinned(lines, L)
  PROVE  AllPinned(lines, LedgerAppend(L, h, t))
  <1> DEFINE M == LedgerAppend(L, h, t)
  <1>1. M.base = L.base /\ M.next = L.next + 1
    BY DEF LedgerAppend
  <1>2. \A q \in Nat : q < L.next /\ q >= L.base - 1 => HashAt(M, q) = HashAt(L, q)
    BY AppendGood
  <1>3. L.base \in Nat /\ L.next \in Nat
    BY DEF GoodLedger, IsLedger
  <1> HIDE DEF M
  <1>4. ASSUME NEW r, Pins(r, L) PROVE Pins(r, M)
    BY <1>1, <1>2, <1>3, <1>4 DEF Pins
  <1>5. AllPinned(lines, M)
    BY <1>4 DEF AllPinned
  <1> QED BY <1>5 DEF M

\* What a record pinned stays pinned when rotateOut moves entries out of the hot ledger.
LEMMA RotatePins ==
  ASSUME NEW L, GoodLedger(L), NEW cut \in (L.base + 1)..L.next, NEW lines,
         AllPinned(lines, L)
  PROVE  AllPinned(lines, RotateOut(L, cut))
  <1> DEFINE M == RotateOut(L, cut)
  <1>1. M.base = cut /\ M.next = L.next
    BY DEF RotateOut
  <1>2. \A q \in Nat : q < L.next /\ q >= cut - 1 => HashAt(M, q) = HashAt(L, q)
    BY RotateGood
  <1>3. L.base \in Nat /\ L.next \in Nat /\ cut \in Nat /\ cut > L.base
    BY DEF GoodLedger, IsLedger
  <1> HIDE DEF M
  <1>4. ASSUME NEW r, Pins(r, L) PROVE Pins(r, M)
    BY <1>1, <1>2, <1>3, <1>4 DEF Pins
  <1>5. AllPinned(lines, M)
    BY <1>4 DEF AllPinned
  <1> QED BY <1>5 DEF M

\* A pinning record, or half of one, can be appended to the file: at worst it destroys
\* the line before it.
LEMMA AppendLinePinned ==
  ASSUME NEW lines \in Seq(AnchorLine), NEW nl \in BOOLEAN, lines = <<>> => nl,
         NEW line \in AnchorLine, NEW L,
         AllPinned(lines, L), line.whole => Pins(line, L)
  PROVE  AllPinned(AppendLine(lines, nl, line), L)
  <1>1. CASE nl
    <2>1. /\ Len(lines) \in Nat /\ Len(Append(lines, line)) = Len(lines) + 1
          /\ \A i \in 1..Len(lines) : Append(lines, line)[i] = lines[i]
          /\ Append(lines, line)[Len(lines) + 1] = line
      BY AppendProperties, LenProperties
    <2>2. AllPinned(Append(lines, line), L)
      <3> SUFFICES ASSUME NEW i \in 1..(Len(lines) + 1), Append(lines, line)[i].whole
                   PROVE  Pins(Append(lines, line)[i], L)
        BY <2>1 DEF AllPinned
      <3>1. CASE i = Len(lines) + 1
        BY <2>1, <3>1
      <3>2. CASE i # Len(lines) + 1
        <4>1. i \in 1..Len(lines)
          BY <2>1, <3>2
        <4> QED BY <2>1, <4>1 DEF AllPinned
      <3> QED BY <3>1, <3>2
    <2> QED BY <1>1, <2>2 DEF AppendLine
  <1>2. CASE ~nl
    <2>1. Len(lines) \in 1..Len(lines) /\ TornLine \in AnchorLine /\ ~TornLine.whole
      BY <1>2, EmptySeq, LenProperties DEF TornLine, AnchorLine, NoHash
    <2>2. /\ Len([lines EXCEPT ![Len(lines)] = TornLine]) = Len(lines)
          /\ \A j \in 1..Len(lines) : [lines EXCEPT ![Len(lines)] = TornLine][j]
                                        = IF j = Len(lines) THEN TornLine ELSE lines[j]
      BY <2>1, ExceptSeq
    <2>3. AllPinned([lines EXCEPT ![Len(lines)] = TornLine], L)
      BY <2>1, <2>2 DEF AllPinned
    <2> QED BY <1>2, <2>3 DEF AppendLine
  <1> QED BY <1>1, <1>2

\* No record exists in the initial state, so all of them pin it.
LEMMA PinInit == Init => PinInv
  <1> SUFFICES ASSUME Init PROVE PinInv
    OBVIOUS
  <1>1. Len(anchorFile) = 0 /\ pc = "down"
    BY EmptySeq DEF Init
  <1> QED BY <1>1 DEF PinInv, AllPinned

\* Appending an entry to the current ledger keeps every record pinning it.
LEMMA AppendEntryPins ==
  ASSUME TypeOK, NEW L, GoodLedger(L), AppendEntry(L)
  PROVE  /\ mem'.next > mem'.base
         /\ AllPinned(anchorFile, L) => AllPinned(anchorFile, mem')
  <1>1. /\ issued + 1 \in Nat \ {0} /\ now \in Nat
        /\ mem' = LedgerAppend(L, issued + 1, now)
    BY DEF TypeOK, AppendEntry, SaveLedger
  <1>2. mem'.base = L.base /\ mem'.next = L.next + 1
    BY <1>1 DEF LedgerAppend
  <1>3. L.base \in Nat /\ L.next \in Nat /\ L.base <= L.next
    BY DEF GoodLedger, IsLedger
  <1> QED BY <1>1, <1>2, <1>3, AppendPins

\* A line written for a hash the ledgers hold keeps every record pinned.
LEMMA WriteAnchorLinePinned ==
  ASSUME TypeOK, NEW r \in AnchorLine, NEW L, WriteAnchorLine(r),
         AllPinned(anchorFile, L), Pins(r, L)
  PROVE  AllPinned(anchorFile', L)
  <1>1. CASE "anchor" \in writable
    BY <1>1, AppendLinePinned DEF WriteAnchorLine, TypeOK
  <1>2. CASE "anchor" \notin writable
    BY <1>2 DEF WriteAnchorLine
  <1> QED BY <1>1, <1>2

\* Every step keeps the records pinned, the one a rotation or the CLI is about to write included.
LEMMA PinStep == TypeOK /\ Chained /\ PinInv /\ [Next]_vars => PinInv'
  <1> SUFFICES ASSUME TypeOK, Chained, PinInv, [Next]_vars
               PROVE  PinInv'
    OBVIOUS
  <1>a. GoodLedger(mem) /\ GoodLedger(disk)
    BY DEF Chained
  <1>b. ASSUME UNCHANGED <<mem, disk, anchorFile, lostTail>>, pc # "down", pc' # "down",
               pc' \notin {"cliAnchor", "rotAnchor"}
        PROVE  PinInv'
    BY <1>b DEF PinInv, Current
  <1>c. ASSUME AppendEntry(mem), UNCHANGED <<anchorFile, lostTail>>, pc # "down",
               pc' \notin {"down", "cliAnchor", "rotAnchor"}
        PROVE  PinInv'
    <2>1. AllPinned(anchorFile, mem) => AllPinned(anchorFile, mem')
      BY <1>a, <1>c, AppendEntryPins
    <2> QED BY <1>c, <2>1 DEF PinInv, Current
  <1>d. ASSUME EndProcess, ~lostTail', pc # "down",
               AllPinned(anchorFile, mem) => AllPinned(anchorFile', mem)
        PROVE  AllPinned(anchorFile', Current')
    <2>1. ~lostTail /\ disk = mem /\ disk' = disk /\ pc' = "down"
      BY <1>d DEF EndProcess
    <2> QED BY <1>d, <2>1 DEF PinInv, Current
  <1>e. ASSUME EndProcess, pc # "down",
               ~lostTail' => AllPinned(anchorFile', Current')
        PROVE  PinInv'
    BY <1>e DEF PinInv, EndProcess
  <1>f. ASSUME pc = "anchor", ~HeadIsAnchored
        PROVE  mem.next > mem.base
    BY <1>a, <1>f DEF HeadIsAnchored, HeadHash, GoodLedger, IsLedger
  <1>1. CASE Boot
    BY <1>1 DEF Boot, PinInv, Current, envVars
  <1>2. CASE Stop
    <2>1. EndProcess /\ pc # "down" /\ anchorFile' = anchorFile
      BY <1>2 DEF Stop
    <2> QED BY <2>1, <1>d, <1>e
  <1>3. CASE ServeRequest
    BY <1>3, <1>c DEF ServeRequest, anchorVars
  <1>4. CASE AnchorTimer \/ AnchorHeadSkip
    BY <1>4, <1>b DEF AnchorTimer, AnchorHeadSkip, AfterAnchorHead, ledgerVars, anchorVars, envVars
  <1>5. CASE AnchorHead
    <2>1. /\ WriteAnchorLine(Record(HeadSeq(mem), HeadHash(mem)))
          /\ pc = "anchor" /\ pc' = "anchorLog" /\ UNCHANGED <<mem, lostTail>>
      BY <1>5 DEF AnchorHead, Anchor, ledgerVars, envVars
    <2>2. Pins(Record(HeadSeq(mem), HeadHash(mem)), mem)
      BY <1>5, <1>a, <1>f, HeadPins DEF AnchorHead
    <2>3. Record(HeadSeq(mem), HeadHash(mem)) \in AnchorLine
      BY <1>a, HeadType DEF GoodLedger
    <2>4. AllPinned(anchorFile, mem) => AllPinned(anchorFile', mem)
      BY <2>1, <2>2, <2>3, WriteAnchorLinePinned
    <2> QED BY <2>1, <2>4 DEF PinInv, Current
  <1>6. CASE AnchorHeadLog
    BY <1>6, <1>c DEF AnchorHeadLog, AfterAnchorHead, anchorVars, envVars
  <1>7. CASE RetentionTimer \/ RotateNothing \/ RotateArchive \/ Purge
    BY <1>7, <1>b DEF RetentionTimer, RotateNothing, RotateArchive, Purge,
                      ledgerVars, anchorVars, envVars
  <1>8. CASE Rotate
    <2>1. PICK cut \in (mem.base + 1)..mem.next :
             /\ SaveLedger(RotateOut(mem, cut))
             /\ closing' = [from |-> mem.base, to |-> cut - 1,
                            hash |-> mem.log[cut - 1].hash, closed |-> now, payload |-> TRUE]
      BY <1>8 DEF Rotate
    <2>2. /\ mem' = RotateOut(mem, cut) /\ pc = "rotate" /\ pc' = "rotAnchor"
          /\ UNCHANGED <<anchorFile, lostTail>>
      BY <1>8, <2>1 DEF Rotate, SaveLedger, anchorVars, envVars
    <2>3. AllPinned(anchorFile, mem) => AllPinned(anchorFile, mem')
      BY <1>a, <2>1, <2>2, RotatePins
    <2>4. /\ mem'.base = cut /\ mem'.carry = mem.log[cut - 1].hash
          /\ closing'.to = cut - 1 /\ closing'.hash = mem.log[cut - 1].hash
      BY <2>1, <2>2 DEF RotateOut
    <2>5. cut > 0
      BY <1>a DEF GoodLedger, IsLedger
    <2> QED BY <2>2, <2>3, <2>4, <2>5 DEF PinInv, Current
  <1>9. CASE RotateAnchor
    <2>1. /\ WriteAnchorLine(Record(closing.to, closing.hash))
          /\ pc = "rotAnchor" /\ pc' = "rotLog" /\ UNCHANGED <<mem, lostTail>>
      BY <1>9 DEF RotateAnchor, Anchor, ledgerVars, envVars
    <2>2. Pins(Record(closing.to, closing.hash), mem)
      BY <2>1, <1>a, CarryPins DEF PinInv
    <2>3. Record(closing.to, closing.hash) \in AnchorLine
      BY ClosingType DEF TypeOK
    <2>4. AllPinned(anchorFile, mem) => AllPinned(anchorFile', mem)
      BY <2>1, <2>2, <2>3, WriteAnchorLinePinned
    <2> QED BY <2>1, <2>4 DEF PinInv, Current
  <1>10. CASE RotateLog
    BY <1>10, <1>c DEF RotateLog, anchorVars, envVars
  <1>11. CASE CliAudit
    <2>1. /\ AppendEntry(disk) /\ pc = "down" /\ pc' = "cliAnchor"
          /\ UNCHANGED <<anchorFile, lostTail>>
      BY <1>11 DEF CliAudit, anchorVars
    <2>2. /\ mem'.next > mem'.base
          /\ AllPinned(anchorFile, disk) => AllPinned(anchorFile, mem')
      BY <1>a, <2>1, AppendEntryPins
    <2> QED BY <2>1, <2>2 DEF PinInv, Current
  <1>12. CASE CliAnchor
    <2>1. /\ WriteAnchorLine(Record(HeadSeq(mem), HeadHash(mem)))
          /\ EndProcess /\ pc = "cliAnchor"
      BY <1>12 DEF CliAnchor
    <2>2. Pins(Record(HeadSeq(mem), HeadHash(mem)), mem)
      BY <2>1, <1>a, HeadPins DEF PinInv
    <2>3. Record(HeadSeq(mem), HeadHash(mem)) \in AnchorLine
      BY <1>a, HeadType DEF GoodLedger
    <2>4. AllPinned(anchorFile, mem) => AllPinned(anchorFile', mem)
      BY <2>1, <2>2, <2>3, WriteAnchorLinePinned
    <2> QED BY <2>1, <2>4, <1>d, <1>e
  <1>13. CASE StopInAnchorWrite
    <2> DEFINE record == IF pc = "rotAnchor" THEN Record(closing.to, closing.hash)
                         ELSE Record(HeadSeq(mem), HeadHash(mem))
    <2>1. /\ EndProcess
          /\ (pc = "anchor" /\ ~HeadIsAnchored) \/ pc \in {"rotAnchor", "cliAnchor"}
      BY <1>13 DEF StopInAnchorWrite
    <2>2. PICK line \in {TornLine, record} : anchorFile' = AppendLine(anchorFile, anchorNl, line)
      BY <1>13 DEF StopInAnchorWrite
    <2>3. Pins(record, mem)
      <3>1. CASE pc = "rotAnchor"
        BY <3>1, <1>a, CarryPins DEF PinInv
      <3>2. CASE pc # "rotAnchor"
        BY <3>2, <2>1, <1>a, <1>f, HeadPins DEF PinInv
      <3> QED BY <3>1, <3>2
    <2>4. line \in AnchorLine /\ (line.whole => Pins(line, mem))
      <3>1. TornLine \in AnchorLine /\ ~TornLine.whole
        BY DEF TornLine, AnchorLine, NoHash
      <3>2. record \in AnchorLine
        BY <1>a, HeadType, ClosingType DEF TypeOK, GoodLedger
      <3> HIDE DEF record
      <3> QED BY <2>2, <2>3, <3>1, <3>2
    <2>5. AllPinned(anchorFile, mem) => AllPinned(anchorFile', mem)
      BY <2>2, <2>4, AppendLinePinned DEF TypeOK
    <2> QED BY <2>1, <2>5, <1>d, <1>e
  <1>14. CASE StopInArchiveWrite
    <2>1. EndProcess /\ pc # "down" /\ anchorFile' = anchorFile
      BY <1>14 DEF StopInArchiveWrite
    <2> QED BY <2>1, <1>d, <1>e
  <1>15. CASE Tick \/ \E f \in Files : FileFault(f)
    <2>1. UNCHANGED <<pc, mem, disk, anchorFile, lostTail, closing>>
      BY <1>15 DEF Tick, FileFault, ledgerVars, anchorVars, archiveVars, envVars
    <2> QED BY <2>1 DEF PinInv, Current
  <1>16. CASE UNCHANGED vars
    <2>1. UNCHANGED <<pc, mem, disk, anchorFile, lostTail, closing>>
      BY <1>16 DEF vars, ledgerVars, anchorVars, archiveVars, envVars
    <2> QED BY <2>1 DEF PinInv, Current
  <1> QED BY <1>1, <1>2, <1>3, <1>4, <1>5, <1>6, <1>7, <1>8, <1>9, <1>10, <1>11, <1>12,
             <1>13, <1>14, <1>15, <1>16 DEF Next

\* No anchor ever written disagrees with the chain: as long as no process died with
\* entries its file lacked, an anchored sequence number names an entry of the chain, and
\* while that entry is verifiable it has the anchored hash.  No schedule of anchorings,
\* rotations, CLI commands, torn lines and crashes anchors one sequence number twice with
\* different hashes.
THEOREM AnchorsAlwaysPin == Spec => []AnchorsPinChain
  <1>1. TypeOK /\ PinInv => AnchorsPinChain
    <2> SUFFICES ASSUME TypeOK, PinInv PROVE AnchorsPinChain
      OBVIOUS
    <2>1. DOMAIN anchorFile = 1..Len(anchorFile)
      BY LenProperties DEF TypeOK
    <2> QED BY <2>1 DEF PinInv, AllPinned, AnchorsPinChain
  <1>2. Spec => []PinInv
    BY ChainInvariant, PinInit, PinStep, PTL DEF Spec
  <1> QED BY <1>1, <1>2, TypeCorrect, PTL

-----------------------------------------------------------------------------
(* The health flag. *)

\* Every save that fails says so, and a process starts from what the file holds.
LEMMA HealthStep == TypeOK /\ HealthHonest /\ [Next]_vars => HealthHonest'
  <1> SUFFICES ASSUME TypeOK, HealthHonest, [Next]_vars
               PROVE  HealthHonest'
    OBVIOUS
  <1>1. ASSUME UNCHANGED <<mem, disk, ledgerHealthy>>, pc # "down" PROVE HealthHonest'
    BY <1>1 DEF HealthHonest
  <1>2. ASSUME NEW L, SaveLedger(L) PROVE HealthHonest'
    BY <1>2 DEF SaveLedger, HealthHonest
  <1>3. ASSUME pc' = "down" PROVE HealthHonest'
    BY <1>3 DEF HealthHonest
  <1>4. CASE Boot
    BY <1>4 DEF Boot, HealthHonest
  <1>5. CASE Stop \/ CliAnchor \/ StopInAnchorWrite \/ StopInArchiveWrite
    BY <1>5, <1>3 DEF Stop, CliAnchor, StopInAnchorWrite, StopInArchiveWrite, EndProcess
  <1>6. CASE ServeRequest \/ AnchorHeadLog \/ RotateLog \/ CliAudit
    BY <1>6, <1>2 DEF ServeRequest, AnchorHeadLog, RotateLog, CliAudit, AppendEntry
  <1>7. CASE Rotate
    BY <1>7, <1>2 DEF Rotate
  <1>8. CASE \/ AnchorTimer \/ AnchorHeadSkip \/ AnchorHead \/ RetentionTimer
             \/ RotateNothing \/ RotateAnchor \/ RotateArchive \/ Purge
    BY <1>8, <1>1 DEF AnchorTimer, AnchorHeadSkip, AnchorHead, RetentionTimer,
                      RotateNothing, RotateAnchor, RotateArchive, Purge, ledgerVars
  <1>9. CASE Tick \/ \E f \in Files : FileFault(f)
    BY <1>9 DEF Tick, FileFault, ledgerVars, HealthHonest
  <1>10. CASE UNCHANGED vars
    BY <1>10 DEF vars, ledgerVars, HealthHonest
  <1> QED BY <1>4, <1>5, <1>6, <1>7, <1>8, <1>9, <1>10 DEF Next

\* A ledger that says it is healthy is on the disk as it is in memory, through any series
\* of failed saves, recoveries and restarts: what /health reports, a crash would keep.
THEOREM HealthIsHonest == Spec => []HealthHonest
  <1>1. Init => HealthHonest
    BY DEF Init, HealthHonest
  <1> QED BY <1>1, HealthStep, TypeCorrect, PTL DEF Spec

-----------------------------------------------------------------------------
(* The archive. *)

Running == pc \notin {"down", "cliAnchor"}
Rotating == pc \in {"rotAnchor", "rotLog", "rotArchive"}

\* The sequence number after the last archived entry.
End(s) == IF s = <<>> THEN 0 ELSE Latest(s).to + 1

\* The segments follow each other without gap or overlap, from the first entry on.
Tiles(s) == \A i \in 1..Len(s) : s[i].from = (IF i = 1 THEN 0 ELSE s[i - 1].to + 1)

\* The segments are what left the ledger L.
Covers(s, L) ==
    /\ Tiles(s)
    /\ L.base = End(s)
    /\ s # <<>> => Latest(s).hash = L.carry

\* ArchiveTiles speaks of a node between its timers; this follows the archive through a
\* stop (its file must cover the ledger's file) and through a rotation (the segment taken
\* out is the one that is missing between the archive and the ledger).
TileInv ==
    /\ Rotating => closing.payload
    /\ ~lostTail /\ ~lostSegment =>
        /\ pc = "down" => Covers(segFile, disk)
        /\ pc = "cliAnchor" => Covers(segFile, mem)
        /\ Running /\ ~Rotating => Covers(segs, mem)
        /\ Rotating => /\ Tiles(segs)
                       /\ closing.from = End(segs)
                       /\ mem.base = closing.to + 1 /\ mem.carry = closing.hash

\* A ledger that only grows at its head is covered by the same segments.
LEMMA AppendCovered ==
  ASSUME NEW L, NEW h, NEW t, NEW s, Covers(s, L)
  PROVE  Covers(s, LedgerAppend(L, h, t))
  BY DEF Covers, LedgerAppend

\* Archiving the segment that follows the last one covers the rotated ledger.
LEMMA ArchiveCovers ==
  ASSUME NEW s \in Seq(Segment), NEW c \in Segment, NEW L, Tiles(s), c.from = End(s),
         L.base = c.to + 1, L.carry = c.hash
  PROVE  Covers(Append(s, c), L)
  <1> DEFINE a == Append(s, c)
  <1>1. /\ Len(s) \in Nat /\ Len(a) = Len(s) + 1 /\ a[Len(s) + 1] = c
        /\ \A i \in 1..Len(s) : a[i] = s[i]
    BY AppendProperties, LenProperties
  <1>2. a # <<>>
    BY <1>1, EmptySeq
  <1> HIDE DEF a
  <1>3. Latest(a) = c
    BY <1>1 DEF Latest
  <1>4. Tiles(a)
    <2> SUFFICES ASSUME NEW i \in 1..(Len(s) + 1)
                 PROVE  a[i].from = (IF i = 1 THEN 0 ELSE a[i - 1].to + 1)
      BY <1>1 DEF Tiles
    <2>1. CASE i \in 1..Len(s)
      <3>1. i # 1 => i - 1 \in 1..Len(s)
        BY <1>1, <2>1
      <3> QED BY <1>1, <2>1, <3>1 DEF Tiles
    <2>2. CASE i = Len(s) + 1
      <3>1. CASE s = <<>>
        <4>1. Len(s) = 0
          BY <3>1, EmptySeq
        <4> QED BY <1>1, <2>2, <3>1, <4>1 DEF End
      <3>2. CASE s # <<>>
        <4>1. Len(s) # 0
          BY <3>2, EmptySeq
        <4>2. i # 1 /\ i - 1 = Len(s) /\ a[i - 1] = s[Len(s)]
          BY <1>1, <2>2, <4>1
        <4> QED BY <1>1, <2>2, <3>2, <4>2 DEF End, Latest
      <3> QED BY <3>1, <3>2
    <2> QED BY <1>1, <2>1, <2>2
  <1>5. Covers(a, L)
    BY <1>2, <1>3, <1>4 DEF Covers, End
  <1> QED BY <1>5 DEF a

\* Purging drops payloads; the segments' seals stay as they were.
LEMMA PurgedFacts ==
  ASSUME NEW s \in Seq(Segment)
  PROVE  /\ Len(Purged(s)) = Len(s) /\ Len(s) \in Nat
         /\ Purged(s) = <<>> <=> s = <<>>
         /\ \A i \in 1..Len(s) :
               /\ Purged(s)[i].from = s[i].from /\ Purged(s)[i].to = s[i].to
               /\ Purged(s)[i].hash = s[i].hash /\ Purged(s)[i].closed = s[i].closed
               /\ Purged(s)[i].payload => s[i].payload /\ ~IsExpired(s[i])
  <1>1. Len(s) \in Nat /\ DOMAIN s = 1..Len(s) /\ \A i \in 1..Len(s) : s[i] \in Segment
    BY LenProperties, ElementOfSeq
  <1>2. DOMAIN Purged(s) = 1..Len(s)
    BY <1>1 DEF Purged
  <1>3. \A i \in 1..Len(s) : Purged(s)[i] \in Segment
    BY <1>1 DEF Purged, Segment
  <1>4. Purged(s) \in Seq(Segment)
    <2>1. Purged(s) \in [1..Len(s) -> Segment]
      BY <1>1, <1>3 DEF Purged
    <2> QED BY <1>1, <2>1, SeqDef
  <1>5. Len(Purged(s)) = Len(s)
    BY <1>1, <1>2, <1>4, LenProperties
  <1>6. Purged(s) = <<>> <=> s = <<>>
    BY <1>1, <1>4, <1>5, EmptySeq
  <1>7. ASSUME NEW i \in 1..Len(s)
        PROVE  /\ Purged(s)[i].from = s[i].from /\ Purged(s)[i].to = s[i].to
               /\ Purged(s)[i].hash = s[i].hash /\ Purged(s)[i].closed = s[i].closed
               /\ Purged(s)[i].payload => s[i].payload /\ ~IsExpired(s[i])
    <2>1. Purged(s)[i] = IF IsExpired(s[i]) THEN [s[i] EXCEPT !.payload = FALSE] ELSE s[i]
      BY <1>1 DEF Purged
    <2>2. s[i] \in Segment
      BY <1>1
    <2> QED BY <2>1, <2>2 DEF Segment
  <1> QED BY <1>1, <1>5, <1>6, <1>7

\* So what covered the ledger still does.
LEMMA PurgedCovers ==
  ASSUME NEW s \in Seq(Segment), NEW L, Covers(s, L)
  PROVE  Covers(Purged(s), L)
  <1>1. /\ Len(Purged(s)) = Len(s) /\ Len(s) \in Nat
        /\ Purged(s) = <<>> <=> s = <<>>
        /\ \A i \in 1..Len(s) :
              /\ Purged(s)[i].from = s[i].from /\ Purged(s)[i].to = s[i].to
              /\ Purged(s)[i].hash = s[i].hash
    BY PurgedFacts
  <1> DEFINE p == Purged(s)
  <1> HIDE DEF p
  <1>2. Tiles(p)
    <2> SUFFICES ASSUME NEW i \in 1..Len(s)
                 PROVE  p[i].from = (IF i = 1 THEN 0 ELSE p[i - 1].to + 1)
      BY <1>1 DEF Tiles, p
    <2>1. i # 1 => i - 1 \in 1..Len(s)
      BY <1>1
    <2> QED BY <1>1, <2>1 DEF Tiles, Covers, p
  <1>3. s # <<>> => Len(s) \in 1..Len(s)
    BY <1>1, EmptySeq
  <1>4. s # <<>> => Latest(p).to = Latest(s).to /\ Latest(p).hash = Latest(s).hash
    BY <1>1, <1>3 DEF Latest, p
  <1>5. Covers(p, L)
    BY <1>1, <1>2, <1>4 DEF Covers, End, p
  <1> QED BY <1>5 DEF p

\* A new volume has an empty ledger and no segment.
LEMMA TileInit == Init => TileInv
  <1> SUFFICES ASSUME Init PROVE TileInv
    OBVIOUS
  <1>1. Len(segFile) = 0 /\ segFile = <<>> /\ pc = "down" /\ disk.base = 0
    BY EmptySeq DEF Init, EmptyLedger
  <1> QED BY <1>1 DEF TileInv, Covers, Tiles, End, Running, Rotating

\* Every step keeps the archive and the ledger adjacent.
LEMMA TileStep == TypeOK /\ TileInv /\ [Next]_vars => TileInv'
  <1> SUFFICES ASSUME TypeOK, TileInv, [Next]_vars
               PROVE  TileInv'
    OBVIOUS
  <1>a. segs \in Seq(Segment) /\ segFile \in Seq(Segment) /\ closing \in Segment
    BY DEF TypeOK
  <1>b. ASSUME UNCHANGED <<mem, segs, closing, lostTail, lostSegment>>,
               Running, Running', Rotating' <=> Rotating
        PROVE  TileInv'
    BY <1>b DEF TileInv, Covers, Tiles, Running
  <1>c. ASSUME AppendEntry(mem), UNCHANGED <<segs, closing, lostTail, lostSegment>>,
               Running, Running', Rotating' <=> Rotating
        PROVE  TileInv'
    <2>1. mem' = LedgerAppend(mem, issued + 1, now)
      BY <1>c DEF AppendEntry, SaveLedger
    <2>2. mem'.base = mem.base /\ mem'.carry = mem.carry
      BY <2>1 DEF LedgerAppend
    <2>3. \A s : Covers(s, mem) => Covers(s, mem')
      BY <2>2 DEF Covers
    <2> QED BY <1>c, <2>2, <2>3 DEF TileInv, Running
  <1>d. ASSUME EndProcess, pc # "down",
               segFile' = segFile \/ Running
        PROVE  TileInv'
    <2>1. /\ pc' = "down" /\ disk' = disk
          /\ lostTail' = (lostTail \/ disk # mem)
          /\ lostSegment' = (lostSegment \/ closing # NoSegment
                                         \/ (pc # "cliAnchor" /\ segs # segFile'))
      BY <1>d DEF EndProcess
    <2>2. Rotating => closing # NoSegment
      BY <1>a DEF TileInv, NoSegment
    <2>3. ASSUME ~lostTail', ~lostSegment' PROVE Covers(segFile', disk')
      <3>1. ~lostTail /\ ~lostSegment /\ disk = mem /\ ~Rotating
        BY <2>1, <2>2, <2>3
      <3>2. CASE pc = "cliAnchor"
        BY <1>d, <2>1, <3>1, <3>2 DEF TileInv, Running
      <3>3. CASE pc # "cliAnchor"
        <4>1. Running /\ segFile' = segs
          BY <1>d, <2>1, <2>3, <3>3 DEF Running
        <4> QED BY <2>1, <3>1, <4>1 DEF TileInv
      <3> QED BY <3>2, <3>3
    <2> QED BY <2>1, <2>3 DEF TileInv, Rotating, Running
  <1>1. CASE Boot
    <2>1. /\ pc = "down" /\ pc' = "anchor" /\ mem' = disk /\ segs' = segFile
          /\ UNCHANGED <<lostTail, lostSegment>>
      BY <1>1 DEF Boot, envVars
    <2> QED BY <2>1 DEF TileInv, Rotating, Running
  <1>2. CASE Stop
    BY <1>2, <1>d DEF Stop
  <1>3. CASE ServeRequest
    BY <1>3, <1>c DEF ServeRequest, archiveVars, Running, Rotating
  <1>4. CASE AnchorTimer \/ AnchorHeadSkip \/ AnchorHead \/ RetentionTimer \/ RotateNothing
    BY <1>4, <1>b DEF AnchorTimer, AnchorHeadSkip, AnchorHead, RetentionTimer, RotateNothing,
       AfterAnchorHead, ledgerVars, archiveVars, envVars, Running, Rotating
  <1>5. CASE AnchorHeadLog
    BY <1>5, <1>c DEF AnchorHeadLog, AfterAnchorHead, archiveVars, envVars, Running, Rotating
  <1>6. CASE Rotate
    <2>1. PICK cut \in (mem.base + 1)..mem.next :
             /\ SaveLedger(RotateOut(mem, cut))
             /\ closing' = [from |-> mem.base, to |-> cut - 1,
                            hash |-> mem.log[cut - 1].hash, closed |-> now, payload |-> TRUE]
      BY <1>6 DEF Rotate
    <2>2. /\ mem' = RotateOut(mem, cut) /\ pc = "rotate" /\ pc' = "rotAnchor"
          /\ UNCHANGED <<segs, lostTail, lostSegment>>
      BY <1>6, <2>1 DEF Rotate, SaveLedger, envVars
    <2>3. /\ mem'.base = cut /\ mem'.carry = mem.log[cut - 1].hash
          /\ closing'.from = mem.base /\ closing'.to = cut - 1
          /\ closing'.hash = mem.log[cut - 1].hash /\ closing'.payload = TRUE
      BY <2>1, <2>2 DEF RotateOut
    <2>4. cut \in Int
      BY DEF TypeOK, IsLedger
    <2>5. ~lostTail /\ ~lostSegment => Tiles(segs) /\ mem.base = End(segs)
      BY <2>2 DEF TileInv, Covers, Running, Rotating
    <2> QED BY <2>2, <2>3, <2>4, <2>5 DEF TileInv, Running, Rotating
  <1>7. CASE RotateAnchor
    BY <1>7, <1>b DEF RotateAnchor, ledgerVars, archiveVars, envVars, Running, Rotating
  <1>8. CASE RotateLog
    BY <1>8, <1>c DEF RotateLog, archiveVars, envVars, Running, Rotating
  <1>9. CASE RotateArchive
    <2>1. /\ pc = "rotArchive" /\ pc' = "purge" /\ segs' = Append(segs, closing)
          /\ UNCHANGED <<mem, lostTail, lostSegment>>
      BY <1>9 DEF RotateArchive, SaveArchive, ledgerVars, envVars
    <2>2. ~lostTail /\ ~lostSegment => Covers(segs', mem')
      BY <1>a, <2>1, ArchiveCovers DEF TileInv, Rotating
    <2> QED BY <2>1, <2>2 DEF TileInv, Running, Rotating
  <1>10. CASE Purge
    <2>1. /\ pc = "purge" /\ pc' = "idle" /\ UNCHANGED <<mem, lostTail, lostSegment>>
          /\ segs' = segs \/ segs' = Purged(segs)
      BY <1>10 DEF Purge, SaveArchive, ledgerVars, envVars
    <2>2. ~lostTail /\ ~lostSegment => Covers(segs, mem)
      BY <2>1 DEF TileInv, Running, Rotating
    <2>3. ~lostTail /\ ~lostSegment => Covers(segs', mem')
      BY <1>a, <2>1, <2>2, PurgedCovers
    <2> QED BY <2>1, <2>3 DEF TileInv, Running, Rotating
  <1>11. CASE CliAudit
    <2>1. /\ mem' = LedgerAppend(disk, issued + 1, now) /\ pc = "down" /\ pc' = "cliAnchor"
          /\ UNCHANGED <<segFile, lostTail, lostSegment>>
      BY <1>11 DEF CliAudit, AppendEntry, SaveLedger, archiveVars
    <2>2. Covers(segFile, disk) => Covers(segFile, mem')
      BY <2>1, AppendCovered
    <2> QED BY <2>1, <2>2 DEF TileInv, Running, Rotating
  <1>12. CASE CliAnchor
    BY <1>12, <1>d DEF CliAnchor
  <1>13. CASE StopInAnchorWrite
    BY <1>13, <1>d DEF StopInAnchorWrite
  <1>14. CASE StopInArchiveWrite
    BY <1>14, <1>d DEF StopInArchiveWrite, Running
  <1>15. CASE Tick \/ (\E f \in Files : FileFault(f)) \/ UNCHANGED vars
    <2>1. UNCHANGED <<pc, mem, disk, segs, segFile, closing, lostTail, lostSegment>>
      BY <1>15 DEF Tick, FileFault, vars, ledgerVars, archiveVars, envVars
    <2> QED BY <2>1 DEF TileInv, Covers, Tiles, Running, Rotating
  <1> QED BY <1>1, <1>2, <1>3, <1>4, <1>5, <1>6, <1>7, <1>8, <1>9, <1>10, <1>11, <1>12,
             <1>13, <1>14, <1>15 DEF Next

\* The archive and the hot ledger together hold every entry once and in order: no schedule
\* of rotations, purges, restarts, CLI commands and failed writes that loses no segment and
\* no unsaved entry leaves a gap or an overlap, and the ledger carries the hash of the last
\* archived entry.
THEOREM ArchiveAlwaysTiles == Spec => []ArchiveTiles
  <1>1. TypeOK /\ TileInv => ArchiveTiles
    <2> SUFFICES ASSUME TypeOK, TileInv, pc = "idle", ~lostTail, ~lostSegment
                 PROVE  /\ \A i \in DOMAIN segs :
                              segs[i].from = (IF i = 1 THEN 0 ELSE segs[i - 1].to + 1)
                        /\ mem.base = IF segs = <<>> THEN 0 ELSE Latest(segs).to + 1
                        /\ segs # <<>> => Latest(segs).hash = mem.carry
      BY DEF ArchiveTiles
    <2>1. Covers(segs, mem)
      BY DEF TileInv, Running, Rotating
    <2>2. DOMAIN segs = 1..Len(segs)
      BY LenProperties DEF TypeOK
    <2> QED BY <2>1, <2>2 DEF Covers, Tiles, End
  <1>2. Spec => []TileInv
    BY TypeCorrect, TileInit, TileStep, PTL DEF Spec
  <1> QED BY <1>1, <1>2, TypeCorrect, PTL

-----------------------------------------------------------------------------
(* Order and time. *)

\* The sequence numbers of the entries of L that are still in the hot ledger.
Hot(L) == L.base..(L.next - 1)

\* Along the chain hashes are new and times do not go back; h hashes were computed and t
\* is the time.
Ordered(L, h, t) ==
    /\ L.carry <= h
    /\ \A s \in Hot(L) : L.carry < L.log[s].hash /\ L.log[s].hash <= h /\ L.log[s].time <= t
    /\ \A s, q \in Hot(L) : s < q => L.log[s].hash < L.log[q].hash /\ L.log[s].time <= L.log[q].time

OrderInv == Ordered(mem, issued, now) /\ Ordered(disk, issued, now)

\* The facts about a ledger's numbers that the lemmas below keep needing.
LEMMA LedgerTypes ==
  ASSUME NEW L, IsLedger(L)
  PROVE  /\ L.base \in Nat /\ L.next \in Nat /\ L.base <= L.next /\ L.carry \in Nat
         /\ \A s \in Hot(L) : /\ s \in Nat /\ L.log[s] \in Entry
                              /\ L.log[s].hash \in Nat /\ L.log[s].time \in Nat
  <1>1. /\ L.base \in Nat /\ L.next \in Nat /\ L.base <= L.next /\ L.carry \in Nat
        /\ L.log \in [L.base..(L.next - 1) -> Entry]
    BY DEF IsLedger
  <1>2. \A s \in Hot(L) : s \in Nat /\ L.log[s] \in Entry
    BY <1>1 DEF Hot
  <1> QED BY <1>1, <1>2 DEF Entry

\* What an append leaves in the log.
LEMMA AppendLog ==
  ASSUME NEW L, IsLedger(L), NEW h, NEW t
  PROVE  /\ LedgerAppend(L, h, t).base = L.base
         /\ LedgerAppend(L, h, t).next = L.next + 1
         /\ LedgerAppend(L, h, t).carry = L.carry
         /\ Hot(LedgerAppend(L, h, t)) = Hot(L) \cup {L.next}
         /\ L.next \notin Hot(L)
         /\ LedgerAppend(L, h, t).log[L.next].hash = h
         /\ LedgerAppend(L, h, t).log[L.next].time = t
         /\ \A s \in Hot(L) : LedgerAppend(L, h, t).log[s] = L.log[s]
  <1> DEFINE M == LedgerAppend(L, h, t)
             e == [hash |-> h, prev |-> PrevHash(L), time |-> t]
  <1>1. /\ M.base = L.base /\ M.next = L.next + 1 /\ M.carry = L.carry
        /\ M.log = [s \in L.base..L.next |-> IF s = L.next THEN e ELSE L.log[s]]
    BY DEF LedgerAppend
  <1>2. e.hash = h /\ e.time = t
    OBVIOUS
  <1> HIDE DEF M, e
  <1>3. L.base \in Nat /\ L.next \in Nat /\ L.base <= L.next
    BY LedgerTypes
  <1>4. Hot(M) = Hot(L) \cup {L.next} /\ L.next \notin Hot(L)
    BY <1>1, <1>3 DEF Hot
  <1>5. M.log[L.next] = e /\ \A s \in Hot(L) : M.log[s] = L.log[s]
    BY <1>1, <1>3, <1>4 DEF Hot
  <1>6. /\ M.base = L.base /\ M.next = L.next + 1 /\ M.carry = L.carry
        /\ Hot(M) = Hot(L) \cup {L.next} /\ L.next \notin Hot(L)
        /\ M.log[L.next].hash = h /\ M.log[L.next].time = t
        /\ \A s \in Hot(L) : M.log[s] = L.log[s]
    BY <1>1, <1>2, <1>4, <1>5
  <1> QED BY <1>6 DEF M

\* What a rotation leaves in the log.
LEMMA RotateLogFacts ==
  ASSUME NEW L, IsLedger(L), NEW cut \in (L.base + 1)..L.next
  PROVE  /\ RotateOut(L, cut).base = cut /\ RotateOut(L, cut).next = L.next
         /\ RotateOut(L, cut).carry = L.log[cut - 1].hash
         /\ cut - 1 \in Hot(L) /\ cut \in Nat
         /\ \A s \in Hot(RotateOut(L, cut)) :
               s \in Hot(L) /\ s >= cut /\ RotateOut(L, cut).log[s] = L.log[s]
  <1> DEFINE M == RotateOut(L, cut)
  <1>1. /\ M.base = cut /\ M.next = L.next /\ M.carry = L.log[cut - 1].hash
        /\ M.log = [s \in cut..(L.next - 1) |-> L.log[s]]
    BY DEF RotateOut
  <1> HIDE DEF M
  <1>3. L.base \in Nat /\ L.next \in Nat /\ L.base <= L.next
    BY LedgerTypes
  <1>4. /\ cut - 1 \in Hot(L) /\ cut \in Nat
        /\ \A s \in Hot(M) : s \in Hot(L) /\ s >= cut /\ M.log[s] = L.log[s]
    BY <1>1, <1>3 DEF Hot
  <1> QED BY <1>1, <1>4 DEF M

\* A new entry, with a new hash and the present time, keeps the order.
LEMMA AppendOrdered ==
  ASSUME NEW L, IsLedger(L), NEW h \in Nat, NEW t \in Nat, Ordered(L, h, t)
  PROVE  Ordered(LedgerAppend(L, h + 1, t), h + 1, t)
  <1> DEFINE M == LedgerAppend(L, h + 1, t)
  <1>1. /\ M.base = L.base /\ M.next = L.next + 1 /\ M.carry = L.carry
        /\ Hot(M) = Hot(L) \cup {L.next} /\ L.next \notin Hot(L)
        /\ M.log[L.next].hash = h + 1 /\ M.log[L.next].time = t
        /\ \A s \in Hot(L) : M.log[s] = L.log[s]
    BY AppendLog
  <1>2. /\ L.base \in Nat /\ L.next \in Nat /\ L.base <= L.next /\ L.carry \in Nat
        /\ \A s \in Hot(L) : s \in Nat /\ L.log[s].hash \in Nat /\ L.log[s].time \in Nat
    BY LedgerTypes
  <1> HIDE DEF M
  <1>3. M.carry <= h + 1
    BY <1>1, <1>2 DEF Ordered
  <1>4. \A s \in Hot(M) : M.carry < M.log[s].hash /\ M.log[s].hash <= h + 1 /\ M.log[s].time <= t
    BY <1>1, <1>2 DEF Ordered
  <1>5. ASSUME NEW s \in Hot(M), NEW q \in Hot(M), s < q
        PROVE  M.log[s].hash < M.log[q].hash /\ M.log[s].time <= M.log[q].time
    <2>1. s \in Hot(L)
      BY <1>1, <1>2, <1>5 DEF Hot
    <2>2. CASE q \in Hot(L)
      BY <1>1, <1>5, <2>1, <2>2 DEF Ordered
    <2>3. CASE q = L.next
      BY <1>1, <1>2, <2>1, <2>3 DEF Ordered
    <2> QED BY <1>1, <2>2, <2>3
  <1>6. Ordered(M, h + 1, t)
    BY <1>3, <1>4, <1>5 DEF Ordered
  <1> QED BY <1>6 DEF M

\* The rest of an ordered ledger is ordered, after the hash of the last entry that left.
LEMMA RotateOrdered ==
  ASSUME NEW L, IsLedger(L), NEW cut \in (L.base + 1)..L.next, NEW h \in Nat, NEW t \in Nat,
         Ordered(L, h, t)
  PROVE  Ordered(RotateOut(L, cut), h, t)
  <1> DEFINE M == RotateOut(L, cut)
  <1>1. /\ M.base = cut /\ M.next = L.next /\ M.carry = L.log[cut - 1].hash
        /\ cut - 1 \in Hot(L) /\ cut \in Nat
        /\ \A s \in Hot(M) : s \in Hot(L) /\ s >= cut /\ M.log[s] = L.log[s]
    BY RotateLogFacts
  <1>2. \A s \in Hot(L) : s \in Nat
    BY LedgerTypes
  <1> HIDE DEF M
  <1>3. M.carry <= h
    BY <1>1 DEF Ordered
  <1>4. \A s \in Hot(M) : M.carry < M.log[s].hash /\ M.log[s].hash <= h /\ M.log[s].time <= t
    <2> SUFFICES ASSUME NEW s \in Hot(M)
                 PROVE  M.carry < M.log[s].hash /\ M.log[s].hash <= h /\ M.log[s].time <= t
      OBVIOUS
    <2>1. s \in Hot(L) /\ cut - 1 < s /\ M.log[s] = L.log[s]
      BY <1>1, <1>2
    <2> QED BY <1>1, <2>1 DEF Ordered
  <1>5. \A s, q \in Hot(M) :
           s < q => M.log[s].hash < M.log[q].hash /\ M.log[s].time <= M.log[q].time
    BY <1>1 DEF Ordered
  <1>6. Ordered(M, h, t)
    BY <1>3, <1>4, <1>5 DEF Ordered
  <1> QED BY <1>6 DEF M

\* An ordered ledger stays ordered as time passes and hashes are computed elsewhere.
LEMMA LaterOrdered ==
  ASSUME NEW L, IsLedger(L), NEW h \in Nat, NEW t \in Nat, Ordered(L, h, t),
         NEW h2 \in Nat, NEW t2 \in Nat, h <= h2, t <= t2
  PROVE  Ordered(L, h2, t2)
  <1>1. /\ L.carry \in Nat
        /\ \A s \in Hot(L) : L.log[s].hash \in Nat /\ L.log[s].time \in Nat
    BY LedgerTypes
  <1> QED BY <1>1 DEF Ordered

\* The empty ledger is ordered.
LEMMA OrderInit == Init => OrderInv
  <1> SUFFICES ASSUME Init PROVE OrderInv
    OBVIOUS
  <1>1. Hot(EmptyLedger) = {} /\ EmptyLedger.carry = 0
    BY DEF Hot, EmptyLedger, NoHash
  <1>2. mem = EmptyLedger /\ disk = EmptyLedger /\ issued = 0
    BY DEF Init
  <1> QED BY <1>1, <1>2 DEF OrderInv, Ordered

\* Appending to either copy keeps both ordered, the older one included.
LEMMA AppendEntryOrdered ==
  ASSUME TypeOK, OrderInv, NEW L \in {mem, disk}, AppendEntry(L), now' = now
  PROVE  OrderInv'
  <1>1. /\ IsLedger(L) /\ IsLedger(disk) /\ issued \in Nat /\ now \in Nat
        /\ Ordered(L, issued, now) /\ Ordered(disk, issued, now)
    BY DEF TypeOK, OrderInv
  <1>2. /\ issued' = issued + 1 /\ mem' = LedgerAppend(L, issued + 1, now)
        /\ disk' = mem' \/ disk' = disk
    BY DEF AppendEntry, SaveLedger
  <1>3. Ordered(mem', issued', now')
    BY <1>1, <1>2, AppendOrdered
  <1>4. Ordered(disk, issued', now')
    <2>1. issued' \in Nat /\ issued <= issued'
      BY <1>1, <1>2
    <2> QED BY <1>1, <2>1, LaterOrdered
  <1>5. Ordered(disk', issued', now')
    BY <1>2, <1>3, <1>4
  <1> QED BY <1>3, <1>5 DEF OrderInv

\* Every step keeps both copies of the ledger ordered.
LEMMA OrderStep == TypeOK /\ OrderInv /\ [Next]_vars => OrderInv'
  <1> SUFFICES ASSUME TypeOK, OrderInv, [Next]_vars
               PROVE  OrderInv'
    OBVIOUS
  <1>a. IsLedger(mem) /\ IsLedger(disk) /\ issued \in Nat /\ now \in Nat
    BY DEF TypeOK
  <1>b. ASSUME UNCHANGED <<mem, disk, issued, now>> PROVE OrderInv'
    BY <1>b DEF OrderInv, Ordered, Hot
  <1>c. ASSUME EndProcess PROVE OrderInv'
    <2>1. /\ mem' = EmptyLedger /\ UNCHANGED <<disk, issued, now>>
      BY <1>c DEF EndProcess
    <2>2. Hot(EmptyLedger) = {} /\ EmptyLedger.carry = 0
      BY DEF Hot, EmptyLedger, NoHash
    <2>3. Ordered(EmptyLedger, issued, now)
      BY <1>a, <2>2 DEF Ordered
    <2> QED BY <2>1, <2>3 DEF OrderInv, Ordered, Hot
  <1>1. CASE Boot
    <2>1. mem' = disk /\ UNCHANGED <<disk, issued, now>>
      BY <1>1 DEF Boot
    <2> QED BY <2>1 DEF OrderInv, Ordered, Hot
  <1>2. CASE Stop \/ CliAnchor \/ StopInAnchorWrite \/ StopInArchiveWrite
    BY <1>2, <1>c DEF Stop, CliAnchor, StopInAnchorWrite, StopInArchiveWrite
  <1>3. CASE ServeRequest \/ AnchorHeadLog \/ RotateLog \/ CliAudit
    BY <1>3, AppendEntryOrdered
       DEF ServeRequest, AnchorHeadLog, RotateLog, CliAudit, clockVars
  <1>4. CASE \/ AnchorTimer \/ AnchorHeadSkip \/ AnchorHead \/ RetentionTimer
             \/ RotateNothing \/ RotateAnchor \/ RotateArchive \/ Purge
             \/ \E f \in Files : FileFault(f)
             \/ UNCHANGED vars
    BY <1>4, <1>b DEF AnchorTimer, AnchorHeadSkip, AnchorHead, RetentionTimer, RotateNothing,
       RotateAnchor, RotateArchive, Purge, FileFault, vars, ledgerVars, clockVars
  <1>5. CASE Rotate
    <2>1. PICK cut \in (mem.base + 1)..mem.next : SaveLedger(RotateOut(mem, cut))
      BY <1>5 DEF Rotate
    <2>2. /\ mem' = RotateOut(mem, cut) /\ UNCHANGED <<issued, now>>
          /\ disk' = mem' \/ disk' = disk
      BY <1>5, <2>1 DEF Rotate, SaveLedger, clockVars
    <2>3. Ordered(mem', issued, now)
      BY <1>a, <2>2, RotateOrdered DEF OrderInv
    <2> QED BY <2>2, <2>3 DEF OrderInv
  <1>6. CASE Tick
    <2>1. UNCHANGED <<mem, disk, issued>> /\ now' = now + 1
      BY <1>6 DEF Tick, ledgerVars
    <2>2. Ordered(mem, issued, now') /\ Ordered(disk, issued, now')
      <3>1. now' \in Nat /\ now <= now' /\ issued <= issued
        BY <1>a, <2>1
      <3> QED BY <1>a, <3>1, LaterOrdered DEF OrderInv
    <2> QED BY <2>1, <2>2 DEF OrderInv
  <1> QED BY <1>1, <1>2, <1>3, <1>4, <1>5, <1>6 DEF Next

-----------------------------------------------------------------------------
(* The timers and the storage limits. *)

\* A timer of the running process is never late when it is looked at, and the retention
\* cycle takes no time: while it runs the next one is a whole period away.
ClockInv ==
    /\ Running => /\ now <= nextAnchor /\ nextAnchor <= now + AnchorEvery
                  /\ now <= nextRetention /\ nextRetention <= now + RetentionEvery
    /\ booting => Running /\ pc # "idle"
    /\ (booting \/ Rotating \/ pc \in {"rotate", "purge"}) => nextRetention = now + RetentionEvery

\* The first retention cycle of the process is done, and no other one runs.
Serving == pc = "idle" \/ (pc \in {"anchor", "anchorLog"} /\ ~booting)

\* What a retention cycle leaves is measured from the time of that cycle, one period
\* before the next one.
StorageInv ==
    /\ (Serving \/ Rotating \/ pc = "purge") =>
          \A s \in Hot(mem) : mem.log[s].time >= nextRetention - RetentionEvery - HotAge
    /\ Serving =>
          \A i \in 1..Len(segs) :
             segs[i].payload => segs[i].closed >= nextRetention - RetentionEvery - ArchiveAge

\* An archived segment knows when it was closed.
LEMMA ClosedType ==
  ASSUME NEW s \in Seq(Segment)
  PROVE  \A i \in 1..Len(s) : s[i].closed \in Nat
  <1>1. \A i \in 1..Len(s) : s[i] \in Segment
    BY ElementOfSeq
  <1> QED BY <1>1 DEF Segment

\* The timers of a process that is not running are not set.
LEMMA ClockInit == Init => ClockInv
  BY DEF Init, ClockInv, Running, Rotating

\* The timers keep their distance from the clock.
LEMMA ClockStep == TypeOK /\ ClockInv /\ [Next]_vars => ClockInv'
  <1> SUFFICES ASSUME TypeOK, ClockInv, [Next]_vars
               PROVE  ClockInv'
    OBVIOUS
  <1> USE ConstantsAreNaturals
  <1>a. now \in Nat /\ nextAnchor \in Nat /\ nextRetention \in Nat
    BY DEF TypeOK
  <1>b. ASSUME EndProcess PROVE ClockInv'
    BY <1>b DEF EndProcess, ClockInv, Running, Rotating
  <1>1. CASE Boot
    BY <1>a, <1>1 DEF Boot, ClockInv, Running, Rotating
  <1>2. CASE Stop \/ CliAnchor \/ StopInAnchorWrite \/ StopInArchiveWrite
    BY <1>2, <1>b DEF Stop, CliAnchor, StopInAnchorWrite, StopInArchiveWrite
  <1>3. CASE AnchorTimer
    BY <1>a, <1>3 DEF AnchorTimer, ClockInv, Running, Rotating
  <1>4. CASE RetentionTimer
    BY <1>a, <1>4 DEF RetentionTimer, ClockInv, Running, Rotating
  <1>5. CASE AnchorHeadSkip \/ AnchorHead \/ AnchorHeadLog
    BY <1>5 DEF AnchorHeadSkip, AnchorHead, AnchorHeadLog, AfterAnchorHead, clockVars,
                ClockInv, Running, Rotating
  <1>6. CASE RotateNothing \/ Rotate \/ RotateAnchor \/ RotateLog \/ RotateArchive
    BY <1>6 DEF RotateNothing, Rotate, RotateAnchor, RotateLog, RotateArchive, clockVars,
                ClockInv, Running, Rotating
  <1>7. CASE Purge
    BY <1>7 DEF Purge, clockVars, ClockInv, Running, Rotating
  <1>8. CASE CliAudit
    BY <1>8 DEF CliAudit, clockVars, ClockInv, Running, Rotating
  <1>9. CASE Tick
    BY <1>a, <1>9 DEF Tick, ClockInv, Running, Rotating
  <1>10. CASE ServeRequest \/ (\E f \in Files : FileFault(f)) \/ UNCHANGED vars
    BY <1>10 DEF ServeRequest, FileFault, vars, clockVars, ClockInv, Running, Rotating
  <1> QED BY <1>1, <1>2, <1>3, <1>4, <1>5, <1>6, <1>7, <1>8, <1>9, <1>10 DEF Next

\* A new volume holds no entry and no segment.
LEMMA StorageInit == Init => StorageInv
  BY DEF Init, StorageInv, Serving, Rotating

\* Rotation leaves no entry before its cut, purging no payload before its own, and what
\* is appended afterwards is younger.
LEMMA StorageStep == TypeOK /\ ClockInv /\ OrderInv /\ StorageInv /\ [Next]_vars => StorageInv'
  <1> SUFFICES ASSUME TypeOK, ClockInv, OrderInv, StorageInv, [Next]_vars
               PROVE  StorageInv'
    OBVIOUS
  <1> USE ConstantsAreNaturals
  <1>a. /\ now \in Nat /\ nextRetention \in Nat /\ issued \in Nat /\ IsLedger(mem)
        /\ segs \in Seq(Segment)
    BY DEF TypeOK
  <1> DEFINE young(L, t) == \A s \in Hot(L) : L.log[s].time >= t - RetentionEvery - HotAge
  <1>b. ASSUME pc' \notin {"idle", "purge"}, ~Rotating', ~Serving' PROVE StorageInv'
    BY <1>b DEF StorageInv
  <1>c. ASSUME UNCHANGED <<mem, segs, nextRetention>>, Serving' => Serving,
               Serving' \/ Rotating' \/ pc' = "purge" => Serving \/ Rotating \/ pc = "purge"
        PROVE  StorageInv'
    BY <1>c DEF StorageInv, Hot
  <1>d. ASSUME mem' = LedgerAppend(mem, issued + 1, now), Running,
               UNCHANGED <<segs, nextRetention>>, Serving' => Serving,
               Serving' \/ Rotating' \/ pc' = "purge" => Serving \/ Rotating \/ pc = "purge"
        PROVE  StorageInv'
    <2>1. /\ Hot(mem') = Hot(mem) \cup {mem.next} /\ mem'.log[mem.next].time = now
          /\ \A s \in Hot(mem) : mem'.log[s] = mem.log[s]
      BY <1>a, <1>d, AppendLog
    <2>2. now >= nextRetention - RetentionEvery - HotAge
      BY <1>a, <1>d DEF ClockInv
    <2>3. young(mem, nextRetention) => young(mem', nextRetention)
      BY <2>1, <2>2
    <2> QED BY <1>d, <2>3 DEF StorageInv
  <1>1. CASE Boot
    BY <1>1, <1>b DEF Boot, Rotating, Serving
  <1>2. CASE Stop \/ CliAnchor \/ StopInAnchorWrite \/ StopInArchiveWrite
    BY <1>2, <1>b DEF Stop, CliAnchor, StopInAnchorWrite, StopInArchiveWrite, EndProcess,
                      Rotating, Serving
  <1>3. CASE ServeRequest
    <2>1. /\ mem' = LedgerAppend(mem, issued + 1, now) /\ UNCHANGED <<segs, nextRetention>>
          /\ pc = "idle" /\ UNCHANGED <<pc, booting>>
      BY <1>3 DEF ServeRequest, AppendEntry, SaveLedger, archiveVars, clockVars
    <2> QED BY <2>1, <1>d DEF Running, Rotating, Serving
  <1>4. CASE AnchorHeadLog
    <2>1. /\ mem' = LedgerAppend(mem, issued + 1, now) /\ UNCHANGED <<segs, nextRetention>>
          /\ pc = "anchorLog" /\ pc' = AfterAnchorHead /\ UNCHANGED booting
      BY <1>4 DEF AnchorHeadLog, AppendEntry, SaveLedger, archiveVars, clockVars
    <2> QED BY <2>1, <1>d DEF AfterAnchorHead, Running, Rotating, Serving
  <1>5. CASE RotateLog
    <2>1. /\ mem' = LedgerAppend(mem, issued + 1, now) /\ UNCHANGED <<segs, nextRetention>>
          /\ pc = "rotLog" /\ pc' = "rotArchive"
      BY <1>5 DEF RotateLog, AppendEntry, SaveLedger, archiveVars, clockVars
    <2> QED BY <2>1, <1>d DEF Running, Rotating, Serving
  <1>6. CASE AnchorTimer \/ AnchorHeadSkip \/ AnchorHead \/ RotateAnchor
    BY <1>6, <1>c DEF AnchorTimer, AnchorHeadSkip, AnchorHead, RotateAnchor, AfterAnchorHead,
       ledgerVars, archiveVars, clockVars, Rotating, Serving
  <1>7. CASE RetentionTimer
    BY <1>7, <1>b DEF RetentionTimer, Rotating, Serving
  <1>8. CASE RotateNothing
    <2>1. /\ pc = "rotate" /\ pc' = "purge" /\ IsCut(mem, mem.base, now - HotAge)
          /\ UNCHANGED <<mem, segs, nextRetention>>
      BY <1>8 DEF RotateNothing, ledgerVars, archiveVars, clockVars
    <2>2. nextRetention - RetentionEvery - HotAge = now - HotAge
      BY <1>a, <2>1 DEF ClockInv
    <2>3. \A s \in Hot(mem) : mem.log[s].time >= now - HotAge
      <3>1. mem.base < mem.next => mem.base \in Hot(mem) /\ mem.log[mem.base].time >= now - HotAge
        BY <1>a, <2>1 DEF IsCut, Hot, IsLedger
      <3> SUFFICES ASSUME NEW s \in Hot(mem) PROVE mem.log[s].time >= now - HotAge
        OBVIOUS
      <3>2. /\ mem.base < mem.next /\ s \in Nat /\ mem.base \in Nat /\ s >= mem.base
            /\ mem.log[s].time \in Nat
        BY <1>a, LedgerTypes DEF Hot
      <3>3. mem.base \in Hot(mem) /\ mem.log[mem.base].time \in Nat
        BY <1>a, <3>1, <3>2, LedgerTypes
      <3>4. mem.base < s => mem.log[mem.base].time <= mem.log[s].time
        BY <3>3 DEF OrderInv, Ordered
      <3> QED BY <1>a, <3>1, <3>2, <3>3, <3>4
    <2>4. Hot(mem)' = Hot(mem)
      BY <2>1 DEF Hot
    <2> QED BY <2>1, <2>2, <2>3, <2>4 DEF StorageInv, Serving
  <1>9. CASE Rotate
    <2>1. PICK cut \in (mem.base + 1)..mem.next :
             IsCut(mem, cut, now - HotAge) /\ SaveLedger(RotateOut(mem, cut))
      BY <1>9 DEF Rotate
    <2>2. /\ mem' = RotateOut(mem, cut) /\ pc = "rotate" /\ pc' = "rotAnchor"
          /\ UNCHANGED nextRetention
      BY <1>9, <2>1 DEF Rotate, SaveLedger, clockVars
    <2>3. nextRetention - RetentionEvery - HotAge = now - HotAge
      BY <1>a, <2>2 DEF ClockInv
    <2>4. /\ cut \in Nat
          /\ \A s \in Hot(mem') : s \in Hot(mem) /\ s >= cut /\ mem'.log[s] = mem.log[s]
      BY <1>a, <2>2, RotateLogFacts
    <2>5. \A s \in Hot(mem') : mem'.log[s].time >= now - HotAge
      <3> SUFFICES ASSUME NEW s \in Hot(mem') PROVE mem'.log[s].time >= now - HotAge
        OBVIOUS
      <3>1. s \in Hot(mem) /\ s >= cut /\ mem'.log[s] = mem.log[s]
        BY <2>4
      <3>2. s \in Nat /\ mem.log[s].time \in Nat /\ mem.base \in Nat /\ mem.next \in Nat
        BY <1>a, <3>1, LedgerTypes
      <3>3. cut \in Hot(mem) /\ cut < mem.next
        BY <2>1, <2>4, <3>1, <3>2 DEF Hot
      <3>4. mem.log[cut].time \in Nat /\ mem.log[cut].time >= now - HotAge
        BY <1>a, <2>1, <3>3, LedgerTypes DEF IsCut
      <3>5. cut < s => mem.log[cut].time <= mem.log[s].time
        BY <3>1, <3>3 DEF OrderInv, Ordered
      <3> QED BY <1>a, <2>4, <3>1, <3>2, <3>4, <3>5
    <2> QED BY <2>2, <2>3, <2>5 DEF StorageInv, Serving
  <1>10. CASE RotateArchive
    <2>1. /\ pc = "rotArchive" /\ pc' = "purge" /\ UNCHANGED <<mem, nextRetention>>
      BY <1>10 DEF RotateArchive, ledgerVars, clockVars
    <2> QED BY <2>1 DEF StorageInv, Serving, Rotating, Hot
  <1>11. CASE Purge
    <2>1. /\ pc = "purge" /\ pc' = "idle" /\ UNCHANGED <<mem, nextRetention>>
          /\ \/ segs' = Purged(segs)
             \/ segs' = segs /\ \A i \in DOMAIN segs : ~IsExpired(segs[i])
      BY <1>11 DEF Purge, SaveArchive, ledgerVars, clockVars
    <2>2. nextRetention - RetentionEvery - ArchiveAge = now - ArchiveAge
      BY <1>a, <2>1 DEF ClockInv
    <2>3. \A i \in 1..Len(segs) : segs[i].closed \in Nat
      BY <1>a, ClosedType
    <2>4. Len(segs') = Len(segs) /\ \A i \in 1..Len(segs) :
             segs'[i].closed = segs[i].closed
             /\ (segs'[i].payload => segs[i].payload /\ ~IsExpired(segs[i]))
      <3>1. CASE segs' = Purged(segs)
        BY <1>a, <3>1, PurgedFacts
      <3>2. CASE segs' = segs /\ \A i \in DOMAIN segs : ~IsExpired(segs[i])
        <4>1. DOMAIN segs = 1..Len(segs)
          BY <1>a, LenProperties
        <4> QED BY <3>2, <4>1
      <3> QED BY <2>1, <3>1, <3>2
    <2>5. \A i \in 1..Len(segs') : segs'[i].payload => segs'[i].closed >= now - ArchiveAge
      BY <1>a, <2>3, <2>4 DEF IsExpired
    <2>6. \A s \in Hot(mem') : mem'.log[s].time >= nextRetention' - RetentionEvery - HotAge
      BY <2>1 DEF StorageInv, Hot
    <2> QED BY <2>1, <2>2, <2>5, <2>6 DEF StorageInv
  <1>12. CASE CliAudit
    BY <1>12, <1>b DEF CliAudit, Rotating, Serving
  <1>13. CASE Tick
    BY <1>13, <1>c DEF Tick, ledgerVars, archiveVars, Rotating, Serving
  <1>14. CASE (\E f \in Files : FileFault(f)) \/ UNCHANGED vars
    BY <1>14, <1>c DEF FileFault, vars, ledgerVars, archiveVars, clockVars, Rotating, Serving
  <1> QED BY <1>1, <1>2, <1>3, <1>4, <1>5, <1>6, <1>7, <1>8, <1>9, <1>10, <1>11, <1>12,
             <1>13, <1>14 DEF Next

\* The order of the chain and the timers hold together with the types.
LEMMA OrderAndClock == Spec => [](OrderInv /\ ClockInv)
  BY TypeCorrect, OrderInit, OrderStep, ClockInit, ClockStep, PTL DEF Spec

\* Personal data is kept no longer than the policy says, plus one retention period: neither
\* restarts, which start the timers anew, nor failed writes, which leave old entries in the
\* file that the next boot loads, keep an entry hot or a payload archived any longer in a
\* node that serves.
THEOREM StorageAlwaysLimited == Spec => []StorageLimited
  <1>1. TypeOK /\ ClockInv /\ StorageInv => StorageLimited
    <2> SUFFICES ASSUME TypeOK, ClockInv, StorageInv, pc = "idle"
                 PROVE  /\ \A s \in DOMAIN mem.log :
                              mem.log[s].time >= now - HotAge - RetentionEvery
                        /\ \A i \in DOMAIN segs : segs[i].payload =>
                              segs[i].closed >= now - ArchiveAge - RetentionEvery
      BY DEF StorageLimited
    <2> USE ConstantsAreNaturals
    <2>1. /\ now \in Nat /\ nextRetention \in Nat /\ now <= nextRetention
          /\ IsLedger(mem) /\ segs \in Seq(Segment)
      BY DEF TypeOK, ClockInv, Running
    <2>2. DOMAIN mem.log = Hot(mem) /\ DOMAIN segs = 1..Len(segs)
      BY <2>1, LenProperties DEF IsLedger, Hot
    <2>3. /\ \A s \in Hot(mem) : mem.log[s].time \in Nat
          /\ \A i \in 1..Len(segs) : segs[i].closed \in Nat
      BY <2>1, LedgerTypes, ClosedType
    <2>4. ASSUME NEW s \in Hot(mem) PROVE mem.log[s].time >= now - HotAge - RetentionEvery
      <3>1. mem.log[s].time >= nextRetention - RetentionEvery - HotAge
        BY DEF StorageInv, Serving
      <3> QED BY <2>1, <2>3, <3>1
    <2>5. ASSUME NEW i \in 1..Len(segs), segs[i].payload
          PROVE  segs[i].closed >= now - ArchiveAge - RetentionEvery
      <3>1. segs[i].closed >= nextRetention - RetentionEvery - ArchiveAge
        BY <2>5 DEF StorageInv, Serving
      <3> QED BY <2>1, <2>3, <3>1
    <2> QED BY <2>2, <2>4, <2>5
  <1>2. Spec => []StorageInv
    BY TypeCorrect, OrderAndClock, StorageInit, StorageStep, PTL DEF Spec
  <1> QED BY <1>1, <1>2, TypeCorrect, OrderAndClock, PTL

-----------------------------------------------------------------------------
(* Restarting. *)

\* As long as no anchor line was lost, the process knows every line of the file.
LinesInv == ~lostAnchor =>
    /\ anchorNl /\ \A i \in 1..Len(anchorFile) : anchorFile[i].whole
    /\ Running => anchors = anchorFile

\* Every hot entry after the latest anchor is younger than one anchor period.
FreshTail ==
    \A s \in Hot(mem) : s > Latest(anchorFile).seq => mem.log[s].time >= nextAnchor - AnchorEvery

\* RestartAccepted is a statement about a stopped node.  What makes it true is that the
\* latest anchor never falls behind the rotation: when a rotation begins, what it may take
\* is anchored, because the entries after the latest anchor are too young; and after a
\* rotation, whose own anchor may be older than the one before it, the anchor timer fires
\* before the next rotation does.
ReachInv == ~lostTail /\ ~lostAnchor /\ anchorFile # <<>> =>
    /\ Latest(anchorFile).seq >= Current.base - 1
    /\ (Running /\ pc # "anchor") =>
          \/ FreshTail
          \/ pc \notin {"anchorLog", "rotate", "rotAnchor"} /\ nextAnchor < nextRetention

\* A line written without loss is the last line of a file of whole lines.
LEMMA WrittenLine ==
  ASSUME TypeOK, LinesInv, NEW r \in AnchorLine, r.whole, WriteAnchorLine(r), ~lostAnchor'
  PROVE  /\ ~lostAnchor /\ anchorNl'
         /\ anchorFile' = Append(anchorFile, r) /\ anchorFile' # <<>>
         /\ Latest(anchorFile') = r
         /\ \A i \in 1..Len(anchorFile') : anchorFile'[i].whole
  <1>1. anchorFile \in Seq(AnchorLine)
    BY DEF TypeOK
  <1>2. "anchor" \in writable /\ ~lostAnchor /\ anchorNl /\ anchorNl' = TRUE
    BY DEF WriteAnchorLine
  <1>3. anchorFile' = Append(anchorFile, r)
    BY <1>2 DEF WriteAnchorLine, AppendLine
  <1>4. /\ Len(anchorFile) \in Nat /\ Len(anchorFile') = Len(anchorFile) + 1
        /\ anchorFile'[Len(anchorFile) + 1] = r
        /\ \A i \in 1..Len(anchorFile) : anchorFile'[i] = anchorFile[i]
        /\ anchorFile' \in Seq(AnchorLine)
    BY <1>1, <1>3, AppendProperties, LenProperties
  <1>5. anchorFile' # <<>> /\ Latest(anchorFile') = r
    BY <1>4, EmptySeq DEF Latest
  <1>6. ASSUME NEW i \in 1..Len(anchorFile') PROVE anchorFile'[i].whole
    <2>1. CASE i = Len(anchorFile) + 1
      BY <1>4, <2>1
    <2>2. CASE i # Len(anchorFile) + 1
      <3>1. i \in 1..Len(anchorFile)
        BY <1>4, <2>2
      <3> QED BY <1>2, <1>4, <3>1 DEF LinesInv
    <2> QED BY <2>1, <2>2
  <1> QED BY <1>2, <1>3, <1>5, <1>6

\* The records of the model are whole lines.
LEMMA RecordFacts ==
  ASSUME NEW q, NEW h
  PROVE  Record(q, h).whole /\ Record(q, h).seq = q /\ Record(q, h).hash = h
  BY DEF Record

\* A new anchor file has no line.
LEMMA LinesInit == Init => LinesInv
  <1> SUFFICES ASSUME Init PROVE LinesInv
    OBVIOUS
  <1>1. anchorNl /\ Len(anchorFile) = 0 /\ pc = "down"
    BY EmptySeq DEF Init
  <1> QED BY <1>1 DEF LinesInv, Running

\* Every step that loses no anchor line leaves the process with what the file has.
LEMMA LinesStep == TypeOK /\ LinesInv /\ [Next]_vars => LinesInv'
  <1> SUFFICES ASSUME TypeOK, LinesInv, [Next]_vars
               PROVE  LinesInv'
    OBVIOUS
  <1>a. ASSUME UNCHANGED <<anchors, anchorFile, anchorNl, lostAnchor>>, Running' => Running
        PROVE  LinesInv'
    BY <1>a DEF LinesInv
  <1>b. ASSUME NEW r \in AnchorLine, r.whole, Anchor(r), Running, Running'
        PROVE  LinesInv'
    <2> SUFFICES ASSUME ~lostAnchor'
                 PROVE  /\ anchorNl' /\ \A i \in 1..Len(anchorFile') : anchorFile'[i].whole
                        /\ anchors' = anchorFile'
      BY DEF LinesInv
    <2>1. /\ ~lostAnchor /\ anchorNl' /\ anchorFile' = Append(anchorFile, r)
          /\ \A i \in 1..Len(anchorFile') : anchorFile'[i].whole
      BY <1>b, WrittenLine DEF Anchor
    <2>2. anchors' = Append(anchors, r) /\ anchors = anchorFile
      BY <1>b, <2>1 DEF Anchor, LinesInv
    <2> QED BY <2>1, <2>2
  <1>1. CASE Boot
    <2>1. /\ UNCHANGED <<anchorFile, anchorNl, lostAnchor>> /\ anchors' = ReadAll(anchorFile)
      BY <1>1 DEF Boot
    <2>2. ~lostAnchor => anchors' = anchorFile
      BY <2>1, ReadAllIsPrefix DEF TypeOK, LinesInv
    <2> QED BY <2>1, <2>2 DEF LinesInv
  <1>2. CASE Stop \/ StopInArchiveWrite
    <2>1. UNCHANGED <<anchorFile, anchorNl, lostAnchor>> /\ pc' = "down"
      BY <1>2 DEF Stop, StopInArchiveWrite, EndProcess
    <2> QED BY <2>1 DEF LinesInv, Running
  <1>3. CASE ServeRequest \/ AnchorTimer \/ AnchorHeadSkip \/ AnchorHeadLog
    BY <1>3, <1>a DEF ServeRequest, AnchorTimer, AnchorHeadSkip, AnchorHeadLog,
                      anchorVars, Running
  <1>4. CASE RetentionTimer \/ RotateNothing \/ Rotate \/ RotateLog \/ RotateArchive \/ Purge
    BY <1>4, <1>a DEF RetentionTimer, RotateNothing, Rotate, RotateLog, RotateArchive, Purge,
                      anchorVars, Running
  <1>5. CASE AnchorHead
    <2>1. Record(HeadSeq(mem), HeadHash(mem)) \in AnchorLine
      BY HeadType DEF TypeOK
    <2> QED BY <1>5, <1>b, <2>1, RecordFacts DEF AnchorHead, Running
  <1>6. CASE RotateAnchor
    <2>1. Record(closing.to, closing.hash) \in AnchorLine
      BY ClosingType DEF TypeOK
    <2> QED BY <1>6, <1>b, <2>1, RecordFacts DEF RotateAnchor, Running
  <1>7. CASE CliAudit
    <2>1. UNCHANGED <<anchors, anchorFile, anchorNl, lostAnchor>> /\ pc' = "cliAnchor"
      BY <1>7 DEF CliAudit, anchorVars
    <2> QED BY <2>1 DEF LinesInv, Running
  <1>8. CASE CliAnchor
    <2>1. /\ WriteAnchorLine(Record(HeadSeq(mem), HeadHash(mem))) /\ pc' = "down"
          /\ Record(HeadSeq(mem), HeadHash(mem)) \in AnchorLine
      BY <1>8, HeadType DEF CliAnchor, EndProcess, TypeOK
    <2>2. ~lostAnchor' => anchorNl' /\ \A i \in 1..Len(anchorFile') : anchorFile'[i].whole
      BY <2>1, WrittenLine, RecordFacts
    <2> QED BY <2>1, <2>2 DEF LinesInv, Running
  <1>9. CASE StopInAnchorWrite
    BY <1>9 DEF StopInAnchorWrite, LinesInv
  <1>10. CASE Tick \/ (\E f \in Files : FileFault(f)) \/ UNCHANGED vars
    BY <1>10, <1>a DEF Tick, FileFault, vars, anchorVars, Running
  <1> QED BY <1>1, <1>2, <1>3, <1>4, <1>5, <1>6, <1>7, <1>8, <1>9, <1>10 DEF Next

\* An anchor that has the head's hash is the head's: no other entry has it, nor is it the
\* carried hash.
LEMMA SameHashSameEntry ==
  ASSUME NEW L, GoodLedger(L), NEW h, NEW t, Ordered(L, h, t), NEW r, Pins(r, L),
         r.seq >= L.base - 1, r.hash = HeadHash(L), HeadHash(L) # NoHash
  PROVE  r.seq = L.next - 1
  <1>1. /\ L.base \in Nat /\ L.next \in Nat /\ L.base <= L.next /\ L.carry \in Nat
        /\ \A s \in Hot(L) : s \in Nat /\ L.log[s].hash \in Nat
        /\ L.carry = NoHash <=> L.base = 0
    BY LedgerTypes DEF GoodLedger
  <1>2. L.next - 1 \in Hot(L) /\ HeadHash(L) = L.log[L.next - 1].hash
    BY <1>1 DEF HeadHash, Hot
  <1>3. r.seq \in Nat /\ r.seq < L.next /\ HashAt(L, r.seq) = r.hash
    BY DEF Pins
  <1>4. CASE r.seq = L.base - 1
    <2>1. L.carry # NoHash
      BY <1>1, <1>3, <1>4
    <2>2. r.hash = L.carry
      BY <1>3, <1>4, <2>1 DEF HashAt
    <2> QED BY <1>1, <1>2, <2>2 DEF Ordered
  <1>5. CASE r.seq # L.base - 1
    <2>1. r.seq \in Hot(L)
      BY <1>1, <1>3, <1>5 DEF Hot
    <2>2. r.hash = L.log[r.seq].hash
      BY <1>3, <1>5, <2>1 DEF HashAt, Hot
    <2>3. r.seq < L.next - 1 => L.log[r.seq].hash < L.log[L.next - 1].hash
      BY <1>2, <2>1 DEF Ordered
    <2> QED BY <1>1, <1>2, <1>3, <2>1, <2>2, <2>3
  <1> QED BY <1>4, <1>5

\* No anchor exists in the initial state.
LEMMA ReachInit == Init => ReachInv
  BY DEF Init, ReachInv

\* What ReachInv asks when the latest anchor of the file may be relied on.
Relied == ~lostTail /\ ~lostAnchor /\ anchorFile # <<>>

\* An entry appended now is within one anchor period of the next anchor.
LEMMA AppendFresh ==
  ASSUME TypeOK, ClockInv, Running, AppendEntry(mem), UNCHANGED <<anchorFile, nextAnchor>>
  PROVE  /\ FreshTail => FreshTail'
         /\ mem'.base = mem.base
  <1> USE ConstantsAreNaturals
  <1>1. mem' = LedgerAppend(mem, issued + 1, now) /\ IsLedger(mem)
    BY DEF AppendEntry, SaveLedger, TypeOK
  <1>2. /\ mem'.base = mem.base
        /\ Hot(mem') = Hot(mem) \cup {mem.next} /\ mem'.log[mem.next].time = now
        /\ \A s \in Hot(mem) : mem'.log[s] = mem.log[s]
    BY <1>1, AppendLog
  <1>3. now >= nextAnchor - AnchorEvery
    BY DEF TypeOK, ClockInv
  <1> QED BY <1>2, <1>3 DEF FreshTail

\* Right after the head is anchored no hot entry follows the latest anchor.
LEMMA HeadFresh ==
  ASSUME IsLedger(mem), Latest(anchorFile).seq = mem.next - 1
  PROVE  FreshTail /\ Latest(anchorFile).seq >= mem.base - 1
  <1>1. mem.base \in Nat /\ mem.next \in Nat /\ mem.base <= mem.next
    BY LedgerTypes
  <1> QED BY <1>1 DEF FreshTail, Hot

\* Every step keeps the latest anchor within reach of the hot ledger.
LEMMA ReachStep ==
  TypeOK /\ Chained /\ PinInv /\ OrderInv /\ ClockInv /\ LinesInv /\ ReachInv /\ [Next]_vars
    => ReachInv'
  <1> SUFFICES ASSUME TypeOK, Chained, PinInv, OrderInv, ClockInv, LinesInv, ReachInv,
                      [Next]_vars
               PROVE  ReachInv'
    OBVIOUS
  <1> USE ConstantsAreNaturals, Cadences
  <1>a. /\ now \in Nat /\ nextAnchor \in Nat /\ nextRetention \in Nat /\ issued \in Nat
        /\ IsLedger(mem) /\ IsLedger(disk) /\ anchorFile \in Seq(AnchorLine)
    BY DEF TypeOK
  <1>b. ASSUME UNCHANGED <<mem, anchorFile, lostTail, lostAnchor, nextAnchor, nextRetention>>,
               Running, Running', pc # "anchor",
               pc' \in {"anchorLog", "rotate", "rotAnchor"} =>
                  pc \in {"anchorLog", "rotate", "rotAnchor"}
        PROVE  ReachInv'
    BY <1>b DEF ReachInv, FreshTail, Hot, Current, Running
  <1>c. ASSUME AppendEntry(mem), Running, Running', pc # "anchor",
               UNCHANGED <<anchorFile, lostTail, lostAnchor, nextAnchor, nextRetention>>,
               pc' \in {"anchorLog", "rotate", "rotAnchor"} =>
                  pc \in {"anchorLog", "rotate", "rotAnchor"}
        PROVE  ReachInv'
    <2>1. (FreshTail => FreshTail') /\ mem'.base = mem.base
      BY <1>c, AppendFresh
    <2> QED BY <1>c, <2>1 DEF ReachInv, Current, Running
  <1>d. ASSUME EndProcess, pc # "down", UNCHANGED <<anchorFile, lostAnchor>>
        PROVE  ReachInv'
    <2>1. /\ pc' = "down" /\ disk' = disk /\ lostTail' = (lostTail \/ disk # mem)
      BY <1>d DEF EndProcess
    <2> QED BY <1>d, <2>1 DEF ReachInv, Current, Running
  <1>1. CASE Boot
    <2>1. /\ pc = "down" /\ pc' = "anchor" /\ mem' = disk
          /\ UNCHANGED <<anchorFile, lostTail, lostAnchor>>
      BY <1>1 DEF Boot, envVars
    <2> QED BY <2>1 DEF ReachInv, Current, Running
  <1>2. CASE Stop \/ StopInArchiveWrite
    BY <1>2, <1>d DEF Stop, StopInArchiveWrite
  <1>3. CASE ServeRequest
    BY <1>3, <1>c DEF ServeRequest, anchorVars, clockVars, Running
  <1>4. CASE AnchorTimer
    <2>1. /\ pc = "idle" /\ pc' = "anchor"
          /\ UNCHANGED <<mem, anchorFile, lostTail, lostAnchor>>
      BY <1>4 DEF AnchorTimer, ledgerVars, anchorVars, envVars
    <2> QED BY <2>1 DEF ReachInv, Current, Running
  <1>5. CASE AnchorHeadSkip
    <2>1. /\ pc = "anchor" /\ pc' \in {"rotate", "idle"} /\ HeadIsAnchored
          /\ UNCHANGED <<mem, anchorFile, lostTail, lostAnchor, nextAnchor>>
      BY <1>5 DEF AnchorHeadSkip, AfterAnchorHead, ledgerVars, anchorVars, clockVars, envVars
    <2>2. ASSUME Relied PROVE FreshTail /\ Latest(anchorFile).seq >= mem.base - 1
      <3>1. Latest(anchorFile).seq >= mem.base - 1
        BY <2>1, <2>2 DEF ReachInv, Relied, Current
      <3>2. CASE HeadHash(mem) = NoHash
        <4>1. mem.next = mem.base
          <5>1. /\ mem.base \in Nat /\ mem.next \in Nat /\ mem.base <= mem.next
                /\ \A s \in mem.base..(mem.next - 1) : mem.log[s].hash # NoHash
            BY <1>a, LedgerTypes DEF Chained, GoodLedger
          <5>2. mem.next # mem.base => mem.next - 1 \in mem.base..(mem.next - 1)
            BY <5>1
          <5> QED BY <3>2, <5>1, <5>2 DEF HeadHash
        <4>2. Hot(mem) = {}
          BY <1>a, <4>1 DEF Hot, IsLedger
        <4> QED BY <3>1, <4>2 DEF FreshTail
      <3>3. CASE HeadHash(mem) # NoHash
        <4> DEFINE r == Latest(anchorFile)
        <4>1. anchors = anchorFile
          BY <2>1, <2>2 DEF Relied, LinesInv, Running
        <4>2. r.hash = HeadHash(mem)
          BY <2>1, <3>3, <4>1 DEF HeadIsAnchored
        <4>3. Len(anchorFile) \in 1..Len(anchorFile)
          BY <1>a, <2>2, EmptySeq, LenProperties DEF Relied
        <4>4. Pins(r, mem)
          BY <2>1, <2>2, <4>3 DEF Relied, PinInv, AllPinned, LinesInv, Latest, Current
        <4> HIDE DEF r
        <4>5. r.seq = mem.next - 1
          BY <3>1, <3>3, <4>2, <4>4, SameHashSameEntry DEF r, Chained, OrderInv
        <4>6. Latest(anchorFile).seq = mem.next - 1
          BY <4>5 DEF r
        <4> QED BY <1>a, <4>6, HeadFresh
      <3> QED BY <3>2, <3>3
    <2> QED BY <2>1, <2>2 DEF ReachInv, Relied, FreshTail, Hot, Current
  <1>6. CASE AnchorHead
    <2>1. /\ WriteAnchorLine(Record(HeadSeq(mem), HeadHash(mem)))
          /\ pc' = "anchorLog" /\ UNCHANGED <<mem, lostTail>>
          /\ Record(HeadSeq(mem), HeadHash(mem)) \in AnchorLine
      BY <1>a, <1>6, HeadType DEF AnchorHead, Anchor, ledgerVars, envVars
    <2>2. ASSUME ~lostAnchor' PROVE Latest(anchorFile').seq = mem.next - 1
      <3>1. Latest(anchorFile') = Record(HeadSeq(mem), HeadHash(mem))
        BY <2>1, <2>2, WrittenLine, RecordFacts
      <3> QED BY <3>1, RecordFacts DEF HeadSeq
    <2>3. ASSUME ~lostAnchor' PROVE FreshTail' /\ Latest(anchorFile').seq >= mem'.base - 1
      <3>1. mem.base \in Nat /\ mem.next \in Nat /\ mem.base <= mem.next
        BY <1>a, LedgerTypes
      <3>2. \A s \in Hot(mem') : ~(s > mem.next - 1)
        BY <2>1, <3>1 DEF Hot
      <3> QED BY <2>1, <2>2, <2>3, <3>1, <3>2 DEF FreshTail
    <2> QED BY <2>1, <2>3 DEF ReachInv, Current
  <1>7. CASE AnchorHeadLog
    <2>1. /\ AppendEntry(mem) /\ pc = "anchorLog" /\ pc' \in {"rotate", "idle"}
          /\ UNCHANGED <<anchorFile, lostTail, lostAnchor, nextAnchor, nextRetention>>
      BY <1>7 DEF AnchorHeadLog, AfterAnchorHead, anchorVars, clockVars, envVars
    <2> QED BY <2>1, <1>c DEF Running
  <1>8. CASE RetentionTimer
    <2>1. /\ pc = "idle" /\ pc' = "rotate" /\ now >= nextRetention
          /\ UNCHANGED <<mem, anchorFile, lostTail, lostAnchor, nextAnchor>>
      BY <1>8 DEF RetentionTimer, ledgerVars, anchorVars, envVars
    <2>2. ~(nextAnchor < nextRetention)
      BY <1>a, <2>1 DEF ClockInv, Running
    <2> QED BY <2>1, <2>2 DEF ReachInv, FreshTail, Hot, Current, Running
  <1>9. CASE RotateNothing
    BY <1>9, <1>b DEF RotateNothing, ledgerVars, anchorVars, clockVars, envVars, Running
  <1>10. CASE Rotate
    <2>1. PICK cut \in (mem.base + 1)..mem.next :
             IsCut(mem, cut, now - HotAge) /\ SaveLedger(RotateOut(mem, cut))
      BY <1>10 DEF Rotate
    <2>2. /\ mem' = RotateOut(mem, cut) /\ pc = "rotate" /\ pc' = "rotAnchor"
          /\ UNCHANGED <<anchorFile, lostTail, lostAnchor, nextAnchor>>
      BY <1>10, <2>1 DEF Rotate, SaveLedger, anchorVars, clockVars, envVars
    <2>3. /\ mem'.base = cut /\ cut - 1 \in Hot(mem) /\ cut \in Nat
          /\ \A s \in Hot(mem') : s \in Hot(mem) /\ mem'.log[s] = mem.log[s]
      BY <1>a, <2>2, RotateLogFacts
    <2>4. ASSUME Relied PROVE FreshTail' /\ Latest(anchorFile).seq >= cut - 1
      <3>1. FreshTail
        BY <2>2, <2>4 DEF ReachInv, Relied, Running
      <3>2. FreshTail'
        BY <2>2, <2>3, <3>1 DEF FreshTail
      <3>3. mem.log[cut - 1].time \in Nat /\ mem.log[cut - 1].time < now - HotAge
        <4>1. cut - 1 \in mem.base..(cut - 1)
          BY <2>3 DEF Hot
        <4>2. mem.log[cut - 1].time \in Nat
          BY <1>a, <2>3, LedgerTypes
        <4> QED BY <2>1, <4>1, <4>2 DEF IsCut
      <3>4. now <= nextAnchor
        BY <2>2 DEF ClockInv, Running
      <3>5. ~(mem.log[cut - 1].time >= nextAnchor - AnchorEvery)
        BY <1>a, <3>3, <3>4
      <3>6. ~(cut - 1 > Latest(anchorFile).seq)
        BY <2>3, <3>1, <3>5 DEF FreshTail
      <3>7. Latest(anchorFile).seq \in Int
        <4>1. Len(anchorFile) \in 1..Len(anchorFile)
          BY <1>a, <2>4, EmptySeq, LenProperties DEF Relied
        <4>2. Latest(anchorFile) \in AnchorLine
          BY <1>a, <4>1, ElementOfSeq DEF Latest
        <4> QED BY <4>2 DEF AnchorLine
      <3> QED BY <2>3, <3>2, <3>6, <3>7
    <2> QED BY <2>2, <2>3, <2>4 DEF ReachInv, Relied, Current
  <1>11. CASE RotateAnchor
    <2>1. /\ WriteAnchorLine(Record(closing.to, closing.hash))
          /\ pc = "rotAnchor" /\ pc' = "rotLog"
          /\ UNCHANGED <<mem, lostTail, nextAnchor, nextRetention>>
          /\ Record(closing.to, closing.hash) \in AnchorLine
      BY <1>11, ClosingType DEF RotateAnchor, Anchor, ledgerVars, clockVars, envVars, TypeOK
    <2>2. ASSUME ~lostAnchor' PROVE Latest(anchorFile').seq = mem.base - 1
      <3>1. Latest(anchorFile') = Record(closing.to, closing.hash)
        BY <2>1, <2>2, WrittenLine, RecordFacts
      <3> QED BY <2>1, <3>1, RecordFacts DEF PinInv
    <2>3. nextAnchor < nextRetention
      BY <1>a, <2>1 DEF ClockInv, Running, Rotating
    <2>4. mem.base \in Nat
      BY <1>a, LedgerTypes
    <2> QED BY <2>1, <2>2, <2>3, <2>4 DEF ReachInv, Current
  <1>12. CASE RotateLog
    BY <1>12, <1>c DEF RotateLog, anchorVars, clockVars, envVars, Running
  <1>13. CASE RotateArchive \/ Purge
    BY <1>13, <1>b DEF RotateArchive, Purge, ledgerVars, anchorVars, clockVars, envVars, Running
  <1>14. CASE CliAudit
    <2>1. /\ mem' = LedgerAppend(disk, issued + 1, now) /\ pc = "down" /\ pc' = "cliAnchor"
          /\ UNCHANGED <<anchorFile, lostTail, lostAnchor>>
      BY <1>14 DEF CliAudit, AppendEntry, SaveLedger, anchorVars
    <2>2. mem'.base = disk.base
      BY <2>1 DEF LedgerAppend
    <2> QED BY <2>1, <2>2 DEF ReachInv, Current, Running
  <1>15. CASE CliAnchor
    <2>1. /\ WriteAnchorLine(Record(HeadSeq(mem), HeadHash(mem))) /\ pc = "cliAnchor"
          /\ pc' = "down" /\ disk' = disk /\ lostTail' = (lostTail \/ disk # mem)
          /\ Record(HeadSeq(mem), HeadHash(mem)) \in AnchorLine
      BY <1>a, <1>15, HeadType DEF CliAnchor, EndProcess
    <2>2. ASSUME ~lostAnchor' PROVE Latest(anchorFile').seq = mem.next - 1
      <3>1. Latest(anchorFile') = Record(HeadSeq(mem), HeadHash(mem))
        BY <2>1, <2>2, WrittenLine, RecordFacts
      <3> QED BY <3>1, RecordFacts DEF HeadSeq
    <2>3. mem.base \in Nat /\ mem.next \in Nat /\ mem.base <= mem.next
      BY <1>a, LedgerTypes
    <2>4. ~Running' /\ Current' = disk
      BY <2>1 DEF Current, Running
    <2>5. ~lostTail' => disk = mem
      BY <2>1
    <2>6. Relied' => Latest(anchorFile').seq >= Current'.base - 1
      BY <2>2, <2>3, <2>4, <2>5 DEF Relied
    <2> QED BY <2>4, <2>6 DEF ReachInv, Relied
  <1>16. CASE StopInAnchorWrite
    BY <1>16 DEF StopInAnchorWrite, ReachInv
  <1>17. CASE Tick \/ (\E f \in Files : FileFault(f)) \/ UNCHANGED vars
    <2>1. UNCHANGED <<pc, mem, disk, anchorFile, lostTail, lostAnchor, nextAnchor, nextRetention>>
      BY <1>17 DEF Tick, FileFault, vars, ledgerVars, anchorVars, clockVars, envVars
    <2> QED BY <2>1 DEF ReachInv, FreshTail, Hot, Current, Running
  <1> QED BY <1>1, <1>2, <1>3, <1>4, <1>5, <1>6, <1>7, <1>8, <1>9, <1>10, <1>11, <1>12,
             <1>13, <1>14, <1>15, <1>16, <1>17 DEF Next

\* A node that can be stopped can be started: whatever write a stop interrupts, and after
\* any schedule of traffic, timers, rotations and CLI commands, the restore verification of
\* the next boot accepts the files, if no write failed or was torn and an anchor exists.  It
\* holds for every pair of cadences and every hot age that Cadences allows, and for no
\* other reason than those: with either half of Cadences dropped a rotation can overtake
\* the latest anchor.
THEOREM RestartAlwaysAccepted == Spec => []RestartAccepted
  <1>1. TypeOK /\ Chained /\ PinInv /\ LinesInv /\ ReachInv => RestartAccepted
    <2> SUFFICES ASSUME TypeOK, Chained, PinInv, LinesInv, ReachInv,
                        pc = "down", Relied
                 PROVE  VerifyAfterRestore(disk, ReadAll(anchorFile))
      BY DEF RestartAccepted, Relied
    <2>1. anchorFile \in Seq(AnchorLine) /\ anchorFile # <<>> /\ Current = disk
      BY DEF TypeOK, Relied, Current
    <2>2. ReadAll(anchorFile) = anchorFile
      BY <2>1, ReadAllIsPrefix DEF LinesInv, Relied
    <2>3. Len(anchorFile) \in 1..Len(anchorFile)
      BY <2>1, EmptySeq, LenProperties
    <2>4. Pins(Latest(anchorFile), disk)
      BY <2>1, <2>3 DEF Relied, PinInv, AllPinned, LinesInv, Latest
    <2>5. Latest(anchorFile).seq >= disk.base - 1
      BY <2>1 DEF ReachInv, Relied
    <2>6. HashAt(disk, Latest(anchorFile).seq) = Latest(anchorFile).hash
      BY <2>4, <2>5 DEF Pins
    <2> QED BY <2>1, <2>2, <2>6 DEF VerifyAfterRestore, Chained, GoodLedger
  <1>2. Spec => []PinInv
    BY ChainInvariant, PinInit, PinStep, PTL DEF Spec
  <1>3. Spec => []LinesInv
    BY TypeCorrect, LinesInit, LinesStep, PTL DEF Spec
  <1>4. Spec => []ReachInv
    BY ChainInvariant, OrderAndClock, <1>2, <1>3, ReachInit, ReachStep, PTL DEF Spec
  <1> QED BY <1>1, <1>2, <1>3, <1>4, ChainInvariant, PTL

=============================================================================
