------------------------ MODULE IntentLifecycleProofs ------------------------
(***************************************************************************)
(* Theorems about the life of an intent, for every set of buyers, every    *)
(* lifetime and every number of intents, stops and faults: type            *)
(* correctness, the agreement of the store with the ledger, and the        *)
(* refinement of the contract (IntentContract), step by step.              *)
(***************************************************************************)
EXTENDS IntentLifecycle, FiniteSetTheorems, SequenceTheorems, WellFoundedInduction, TLAPS

\* What is recorded is about intents that were created.
IdInv ==
    /\ Len(owner) \in 0..MaxIntents /\ purged \subseteq 1..Len(owner)
    /\ \A n \in DOMAIN log : log[n].id \in 1..Len(owner)
    /\ \A n \in DOMAIN logFile : logFile[n].id \in 1..Len(owner)
    /\ \A n \in DOMAIN handed : handed[n] \in 1..Len(owner)

\* The ledger's file lags behind the running process, and never differs from it.
LagInv == pc # "down" => \A n \in DOMAIN logFile : n \in DOMAIN log /\ log[n] = logFile[n]

\* Where a handler is between two writes: a new intent is the last one and not recorded yet,
\* or recorded once and not handed over; one that ends has left the store.
Last == Len(owner)
WorkInv ==
    /\ pc \in {"createLog", "handoff"} =>
          /\ work = {Last} /\ Last \in DOMAIN store /\ Last \notin purged
          /\ \A n \in DOMAIN handed : handed[n] # Last
    /\ pc = "createLog" => \A n \in DOMAIN log : log[n].id # Last
    /\ pc = "handoff" => \E m \in DOMAIN log : /\ log[m] = [kind |-> "created", id |-> Last]
                                               /\ \A n \in DOMAIN log : log[n].id = Last => n = m
    /\ pc \in {"revokeLog", "sweepLog"} => work \cap DOMAIN store = {}
    /\ pc = "revokeLog" => \E i \in work : work = {i}

\* The intents that have no terminal event yet: as long as no write is lost, the ones in the
\* store and the ones whose event comes next.
Ending == IF pc \in {"revokeLog", "sweepLog"} THEN work ELSE {}
EndInv ==
    ~(lostStore \/ lostLog) =>
        \A i \in DOMAIN CurrentStore \cup Ending : Logged({"revoked", "expired"}, i) = {}

\* The two records agree, up to the event that comes next.
Recorded == (Created \ Ended) \ purged
MatchInv ==
    ~(lostStore \/ lostLog \/ cut) =>
        CASE pc = "createLog" -> DOMAIN store = Recorded \cup work
          [] pc \in {"revokeLog", "sweepLog"} -> work \subseteq Recorded /\ DOMAIN store = Recorded \ work
          [] OTHER -> DOMAIN CurrentStore = Recorded

IntentInv == TypeOK /\ IdInv /\ LagInv /\ WorkInv /\ EndInv /\ MatchInv

-----------------------------------------------------------------------------
(* The helpers of the model. *)

\* The sweep's next intent is one of its work.
LEMMA LeastFacts ==
    ASSUME NEW S, S \subseteq Nat, S # {}
    PROVE  Least(S) \in S
  <1>1. PICK x \in S : \A y \in S : ~(<<y, x>> \in OpToRel(<, Nat))
    BY NatLessThanWellFounded, WFMin
  <1>2. \A y \in S : ~(y < x)
    BY <1>1 DEF OpToRel
  <1>3. \A y \in S : x <= y
    BY <1>2
  <1> QED BY <1>3 DEF Least

\* The least of one id is that id.
LEMMA LeastOne == \A i \in Nat : Least({i}) = i
  BY DEF Least

\* Taking ids out of a store leaves the other intents as they were.
LEMMA WithoutFacts ==
    ASSUME NEW s, NEW ids
    PROVE  DOMAIN Without(s, ids) = DOMAIN s \ ids /\ \A i \in DOMAIN s \ ids : Without(s, ids)[i] = s[i]
  BY DEF Without

\* A save leaves the file with the new store or, when it failed, with the old one.
LEMMA SavedStore ==
    ASSUME NEW s, SaveStore(s)
    PROVE  store' = s /\ storeFile' \in {s, storeFile}
  BY DEF SaveStore

\* A new event is the last of the log, and the file's log follows or stays.
LEMMA AppendFacts ==
    ASSUME TypeOK, NEW kind \in {"created", "revoked", "expired"}, NEW i \in Id, AppendEvent(kind, i)
    PROVE  /\ log' \in Seq(Event) /\ DOMAIN log' = DOMAIN log \cup {Len(log) + 1}
           /\ Len(log) + 1 \notin DOMAIN log /\ log'[Len(log) + 1] = [kind |-> kind, id |-> i]
           /\ \A n \in DOMAIN log : log'[n] = log[n]
           /\ logFile' \in {log', logFile}
  <1>1. log \in Seq(Event) /\ [kind |-> kind, id |-> i] \in Event
    BY DEF TypeOK, Event
  <1>2. log' = Append(log, [kind |-> kind, id |-> i]) /\ logFile' \in {log', logFile}
    BY DEF AppendEvent
  <1>3. /\ log' \in Seq(Event) /\ DOMAIN log = 1..Len(log) /\ DOMAIN log' = 1..(Len(log) + 1) /\ Len(log) \in Nat
        /\ log'[Len(log) + 1] = [kind |-> kind, id |-> i]
        /\ \A n \in 1..Len(log) : log'[n] = log[n]
    BY <1>1, <1>2, AppendProperties, LenProperties
  <1>4. 1..(Len(log) + 1) = 1..Len(log) \cup {Len(log) + 1} /\ Len(log) + 1 \notin 1..Len(log)
    BY <1>3
  <1> QED BY <1>2, <1>3, <1>4

\* A handoff adds at most one line, at the end of the file.
LEMMA EmitFacts ==
    ASSUME TypeOK, NEW i \in Id, Emit(i)
    PROVE  \/ handed' = handed
           \/ /\ handed' \in Seq(Id) /\ DOMAIN handed' = DOMAIN handed \cup {Len(handed) + 1}
              /\ Len(handed) + 1 \notin DOMAIN handed /\ handed'[Len(handed) + 1] = i
              /\ \A n \in DOMAIN handed : handed'[n] = handed[n]
  <1>1. handed \in Seq(Id)
    BY DEF TypeOK
  <1>2. handed' = handed \/ handed' = Append(handed, i)
    BY DEF Emit
  <1>3. CASE handed' = Append(handed, i)
    <2>1. /\ handed' \in Seq(Id) /\ DOMAIN handed = 1..Len(handed) /\ DOMAIN handed' = 1..(Len(handed) + 1)
          /\ Len(handed) \in Nat /\ handed'[Len(handed) + 1] = i
          /\ \A n \in 1..Len(handed) : handed'[n] = handed[n]
      BY <1>1, <1>3, AppendProperties, LenProperties
    <2>2. 1..(Len(handed) + 1) = 1..Len(handed) \cup {Len(handed) + 1} /\ Len(handed) + 1 \notin 1..Len(handed)
      BY <2>1
    <2> QED BY <2>1, <2>2
  <1> QED BY <1>2, <1>3

-----------------------------------------------------------------------------
(* What each step does. *)

\* What creating an intent changes: a new id with a fresh expiry, to be logged next.
LEMMA CreateFacts ==
    ASSUME TypeOK, IdInv, NEW b \in Buyer, CreateIntent(b)
    PROVE  /\ owner' \in Seq(Buyer) /\ Len(owner') = Len(owner) + 1 /\ Len(owner') \in 1..MaxIntents
           /\ DOMAIN store' = DOMAIN store \cup {Len(owner')} /\ Len(owner') \notin DOMAIN store
           /\ store'[Len(owner')] \in 0..TTL /\ (\A i \in DOMAIN store : store'[i] = store[i])
           /\ storeFile' \in {store', storeFile} /\ work' = {Len(owner')}
           /\ pc = "idle" /\ pc' = "createLog"
           /\ UNCHANGED <<log, logFile, handed, price, sweepIn, envVars>>
  <1> USE IntentConstants
  <1>1. owner \in Seq(Buyer) /\ Len(owner) \in Nat /\ Len(owner) < MaxIntents
    BY LenProperties DEF TypeOK, CreateIntent
  <1>2. owner' = Append(owner, b)
    BY DEF CreateIntent
  <1>3. owner' \in Seq(Buyer) /\ Len(owner') = Len(owner) + 1
    BY <1>1, <1>2, AppendProperties
  <1>4. SaveStore([j \in DOMAIN store \cup {Len(owner) + 1} |-> IF j = Len(owner) + 1 THEN Expiry ELSE store[j]])
    BY DEF CreateIntent
  <1>5. /\ store' = [j \in DOMAIN store \cup {Len(owner) + 1} |-> IF j = Len(owner) + 1 THEN Expiry ELSE store[j]]
        /\ storeFile' \in {store', storeFile}
    BY <1>4, SavedStore
  <1>6. Len(owner) + 1 \notin DOMAIN store
    BY <1>1 DEF TypeOK, IsStore
  <1>7. Expiry \in 0..TTL
    BY DEF Expiry, TypeOK, CreateIntent, HasFirmPrice
  <1>8. /\ DOMAIN store' = DOMAIN store \cup {Len(owner) + 1} /\ store'[Len(owner) + 1] = Expiry
        /\ \A i \in DOMAIN store : store'[i] = store[i]
    BY <1>5, <1>6
  <1>9. work' = {Len(owner) + 1}
    BY DEF CreateIntent
  <1>10. pc = "idle" /\ pc' = "createLog" /\ UNCHANGED <<log, logFile, handed, price, sweepIn, envVars>>
    BY DEF CreateIntent, logVars
  <1>11. Len(owner') \in 1..MaxIntents
    BY <1>1, <1>3
  <1> QED BY <1>3, <1>5, <1>6, <1>7, <1>8, <1>9, <1>10, <1>11

\* RevokeIntent and a Sweep that finds lapsed intents: they leave the store at once.
LEMMA EvictFacts ==
    ASSUME TypeOK,
           \/ \E b \in Buyer, i \in Id : RevokeIntent(i, b)
           \/ Sweep /\ work' # {}
    PROVE  /\ work' # {} /\ work' \subseteq DOMAIN store /\ DOMAIN store' = DOMAIN store \ work'
           /\ \A i \in DOMAIN store' : store'[i] = store[i]
           /\ storeFile' \in {store', storeFile} /\ sweepIn' \in {sweepIn, SweepEvery}
           /\ pc \in {"idle", "sweep"} /\ pc' \in {"revokeLog", "sweepLog"}
           /\ pc' = "revokeLog" => \E i \in work' : work' = {i}
           /\ UNCHANGED <<log, logFile, handed, owner, price, envVars>>
  <1>1. ASSUME NEW b \in Buyer, NEW i \in Id, RevokeIntent(i, b)
        PROVE  /\ work' = {i} /\ i \in DOMAIN store /\ SaveStore(Without(store, {i})) /\ sweepIn' = sweepIn
               /\ pc = "idle" /\ pc' = "revokeLog" /\ UNCHANGED <<log, logFile, handed, owner, price, envVars>>
    BY <1>1 DEF RevokeIntent, MayRevoke, logVars
  <1>2. ASSUME Sweep, work' # {}
        PROVE  /\ work' = Lapsed(store) /\ SaveStore(Without(store, work')) /\ sweepIn' = SweepEvery
               /\ pc \in {"idle", "sweep"} /\ pc' = "sweepLog" /\ UNCHANGED <<log, logFile, handed, owner, price, envVars>>
    BY <1>2 DEF Sweep, logVars
  <1>3. Lapsed(store) \subseteq DOMAIN store
    BY DEF Lapsed
  <1>4. /\ work' # {} /\ work' \subseteq DOMAIN store /\ SaveStore(Without(store, work'))
        /\ sweepIn' \in {sweepIn, SweepEvery} /\ pc \in {"idle", "sweep"} /\ pc' \in {"revokeLog", "sweepLog"}
        /\ pc' = "revokeLog" => \E i \in work' : work' = {i}
        /\ UNCHANGED <<log, logFile, handed, owner, price, envVars>>
    BY <1>1, <1>2, <1>3
  <1>5. store' = Without(store, work') /\ storeFile' \in {store', storeFile}
    BY <1>4, SavedStore
  <1>6. DOMAIN store' = DOMAIN store \ work' /\ \A i \in DOMAIN store' : store'[i] = store[i]
    <2>1. /\ DOMAIN Without(store, work') = DOMAIN store \ work'
          /\ \A i \in DOMAIN store \ work' : Without(store, work')[i] = store[i]
      BY WithoutFacts
    <2> QED BY <1>5, <2>1
  <1> QED BY <1>4, <1>5, <1>6

\* A sweep that finds nothing.
LEMMA IdleSweep ==
    ASSUME Sweep, work' = {}
    PROVE  /\ pc \in {"idle", "sweep"} /\ pc' = "idle" /\ sweepIn' = SweepEvery
           /\ UNCHANGED <<store, storeFile, log, logFile, handed, owner, price, envVars>>
  BY DEF Sweep, storeVars, logVars

\* What the erasure command's purge changes: the buyer's intents leave the file of a stopped
\* node.
LEMMA PurgeFacts ==
    ASSUME NEW b \in Buyer, PurgeBuyer(b)
    PROVE  /\ pc = "down" /\ purged' \ purged \subseteq DOMAIN storeFile
           /\ \E ids \in SUBSET DOMAIN storeFile :
                 /\ ids # {} /\ purged' = purged \cup ids /\ DOMAIN storeFile' = DOMAIN storeFile \ ids
                 /\ \A i \in DOMAIN storeFile' : storeFile'[i] = storeFile[i]
           /\ UNCHANGED <<pc, work, store, log, logFile, handed, owner, price, sweepIn, writable, faults,
                          crashes, lostStore, lostLog, cut>>
  <1> DEFINE ids == {i \in DOMAIN storeFile : owner[i] = b}
  <1>1. ids # {} /\ storeFile' = Without(storeFile, ids) /\ purged' = purged \cup ids
    BY DEF PurgeBuyer
  <1>2. ids \in SUBSET DOMAIN storeFile
    OBVIOUS
  <1> HIDE DEF ids
  <1>3. DOMAIN storeFile' = DOMAIN storeFile \ ids /\ \A i \in DOMAIN storeFile' : storeFile'[i] = storeFile[i]
    BY <1>1, WithoutFacts
  <1>4. /\ pc = "down" /\ UNCHANGED <<pc, work, store, log, logFile, handed, owner, price, sweepIn, writable,
                                      faults, crashes, lostStore, lostLog, cut>>
    BY DEF PurgeBuyer, logVars
  <1> QED BY <1>1, <1>2, <1>3, <1>4

\* Time passing ages the intents, the price and the sweep timer, and changes no set of ids.
LEMMA TickFacts ==
    ASSUME TypeOK, Tick
    PROVE  /\ DOMAIN store' = DOMAIN store /\ (\A i \in DOMAIN store : store'[i] \in 0..TTL)
           /\ DOMAIN storeFile' = DOMAIN storeFile /\ (\A i \in DOMAIN storeFile : storeFile'[i] \in 0..TTL)
           /\ price' \in 0..PriceLife /\ sweepIn' \in 0..SweepEvery
           /\ UNCHANGED <<pc, work, log, logFile, handed, owner, envVars>>
  <1> USE IntentConstants
  <1>1. \A n \in Nat : \A m \in 0..n : Less(m) \in 0..n
    BY DEF Less
  <1>2. /\ \A i \in DOMAIN store : store[i] \in 0..TTL
        /\ \A i \in DOMAIN storeFile : storeFile[i] \in 0..TTL
        /\ price \in 0..PriceLife /\ sweepIn \in 0..SweepEvery
    BY DEF TypeOK, IsStore
  <1>3. /\ store' = [i \in DOMAIN store |-> Less(store[i])]
        /\ storeFile' = [i \in DOMAIN storeFile |-> Less(storeFile[i])]
        /\ price' = Less(price) /\ sweepIn' = Less(sweepIn)
        /\ UNCHANGED <<pc, work, log, logFile, handed, owner, envVars>>
    BY DEF Tick, logVars
  <1> QED BY <1>1, <1>2, <1>3

\* CreateLog: the opening of the intent that is being created.
LEMMA CreateLogFacts ==
    ASSUME TypeOK, IdInv, WorkInv, CreateLog
    PROVE  /\ pc = "createLog" /\ pc' = "handoff" /\ Last \in Id /\ Last \in Nat /\ work = {Last}
           /\ AppendEvent("created", Last)
           /\ UNCHANGED <<work, store, storeFile, handed, owner, price, sweepIn, envVars>>
  <1>1. /\ pc = "createLog" /\ AppendEvent("created", Least(work)) /\ pc' = "handoff"
        /\ UNCHANGED <<work, store, storeFile, handed, owner, price, sweepIn, envVars>>
    BY DEF CreateLog, storeVars
  <1>2. work = {Last}
    BY <1>1 DEF WorkInv
  <1>3. Last \in 1..Len(owner) /\ Len(owner) \in 0..MaxIntents
    BY <1>2 DEF TypeOK, IdInv
  <1>4. Last \in Id /\ Last \in Nat
    BY <1>3, IntentConstants DEF Id
  <1>5. Least(work) = Last
    BY <1>2, <1>4, LeastOne
  <1> QED BY <1>1, <1>2, <1>4, <1>5

\* Handoff: at most one more line, for that intent.
LEMMA HandoffFacts ==
    ASSUME TypeOK, IdInv, WorkInv, Handoff
    PROVE  /\ pc = "handoff" /\ pc' = "idle" /\ work = {Last} /\ work' = {} /\ Last \in Id /\ Last \in Nat
           /\ Emit(Last)
           /\ UNCHANGED <<store, storeFile, log, logFile, owner, price, sweepIn, envVars>>
  <1>1. /\ pc = "handoff" /\ Emit(Least(work)) /\ pc' = "idle" /\ work' = {}
        /\ UNCHANGED <<store, storeFile, log, logFile, owner, price, sweepIn, envVars>>
    BY DEF Handoff, storeVars, logVars
  <1>2. work = {Last}
    BY <1>1 DEF WorkInv
  <1>3. Last \in 1..Len(owner) /\ Len(owner) \in 0..MaxIntents
    BY <1>2 DEF TypeOK, IdInv
  <1>4. Last \in Id /\ Last \in Nat
    BY <1>3, IntentConstants DEF Id
  <1>5. Least(work) = Last
    BY <1>2, <1>4, LeastOne
  <1> QED BY <1>1, <1>2, <1>4, <1>5

\* RevokeLog and SweepLog: the end of one of the intents that left the store.
LEMMA EndLogFacts ==
    ASSUME TypeOK, IdInv, WorkInv, RevokeLog \/ SweepLog
    PROVE  /\ pc \in {"revokeLog", "sweepLog"} /\ Least(work) \in work /\ Least(work) \in Id
           /\ \E kind \in {"revoked", "expired"} : AppendEvent(kind, Least(work))
           /\ work' = work \ {Least(work)} /\ pc' = IF work' = {} THEN "idle" ELSE "sweepLog"
           /\ UNCHANGED <<store, storeFile, handed, owner, price, sweepIn, envVars>>
  <1>1. pc \in {"revokeLog", "sweepLog"}
    BY DEF RevokeLog, SweepLog
  <1>2. work # {} /\ work \subseteq 1..Len(owner) /\ Len(owner) \in 0..MaxIntents
    BY <1>1 DEF TypeOK, IdInv
  <1>3. work \subseteq Nat /\ work \subseteq Id
    BY <1>2, IntentConstants DEF Id
  <1>4. Least(work) \in work
    BY <1>2, <1>3, LeastFacts
  <1>5. CASE RevokeLog
    <2>1. /\ pc = "revokeLog" /\ AppendEvent("revoked", Least(work)) /\ work' = {} /\ pc' = "idle"
          /\ UNCHANGED <<store, storeFile, handed, owner, price, sweepIn, envVars>>
      BY <1>5 DEF RevokeLog, storeVars
    <2>2. work = {Least(work)}
      BY <2>1, <1>4 DEF WorkInv
    <2> QED BY <2>1, <2>2, <1>3, <1>4
  <1>6. CASE SweepLog
    BY <1>3, <1>4, <1>6 DEF SweepLog, storeVars
  <1> QED BY <1>5, <1>6

\* What a boot changes.
LEMMA BootFacts ==
    ASSUME Boot
    PROVE  /\ pc = "down" /\ pc' = "sweep" /\ store' = storeFile /\ log' = logFile /\ price' = PriceLife
           /\ UNCHANGED <<work, storeFile, logFile, handed, owner, sweepIn, envVars>>
  BY DEF Boot

\* What the end of a process changes, and which histories record what it lost.
LEMMA StopFacts ==
    ASSUME Stop
    PROVE  /\ pc # "down" /\ pc' = "down" /\ work' = {} /\ store' = NoIntents /\ log' = <<>>
           /\ price' = 0 /\ sweepIn' = 0 /\ crashes' = crashes + 1
           /\ lostStore' = (lostStore \/ store # storeFile) /\ lostLog' = (lostLog \/ log # logFile)
           /\ cut' = (cut \/ pc \in {"createLog", "revokeLog", "sweepLog"})
           /\ UNCHANGED <<storeFile, logFile, handed, owner, writable, faults, purged>>
  BY DEF Stop

-----------------------------------------------------------------------------
(* The ledger's view of an intent. *)

\* Nothing is recorded or forgotten when the current ledger stays.
LEMMA SameLedger ==
    ASSUME CurrentLog' = CurrentLog
    PROVE  /\ \A kinds, i : Logged(kinds, i)' = Logged(kinds, i)
           /\ Created' = Created /\ Ended' = Ended
  BY DEF Logged, Created, Ended

\* A new event is one more event of its kind about its intent, and about no other.
LEMMA OneMoreEvent ==
    ASSUME TypeOK, NEW kind \in {"created", "revoked", "expired"}, NEW i \in Id, AppendEvent(kind, i),
           pc # "down", pc' # "down"
    PROVE  /\ Len(log) + 1 \notin DOMAIN log
           /\ \A kinds, j : Logged(kinds, j)' = IF j = i /\ kind \in kinds
                                                  THEN Logged(kinds, j) \cup {Len(log) + 1} ELSE Logged(kinds, j)
           /\ \A kinds, j : Logged(kinds, j) \subseteq DOMAIN log
           /\ Created' = IF kind = "created" THEN Created \cup {i} ELSE Created
           /\ Ended' = IF kind = "created" THEN Ended ELSE Ended \cup {i}
  <1>1. CurrentLog = log /\ CurrentLog' = log'
    BY DEF CurrentLog
  <1>2. /\ DOMAIN log' = DOMAIN log \cup {Len(log) + 1} /\ Len(log) + 1 \notin DOMAIN log
        /\ log'[Len(log) + 1].kind = kind /\ log'[Len(log) + 1].id = i
        /\ \A n \in DOMAIN log : log'[n] = log[n]
    <2>1. /\ DOMAIN log' = DOMAIN log \cup {Len(log) + 1} /\ Len(log) + 1 \notin DOMAIN log
          /\ log'[Len(log) + 1] = [kind |-> kind, id |-> i]
          /\ \A n \in DOMAIN log : log'[n] = log[n]
      BY AppendFacts
    <2> QED BY <2>1
  <1>3. ASSUME NEW kinds, NEW j
        PROVE  Logged(kinds, j)' = IF j = i /\ kind \in kinds
                                     THEN Logged(kinds, j) \cup {Len(log) + 1} ELSE Logged(kinds, j)
    BY <1>1, <1>2 DEF Logged
  <1>4. \A kinds, j : Logged(kinds, j) \subseteq DOMAIN log
    BY <1>1 DEF Logged
  <1>5. Created' = IF kind = "created" THEN Created \cup {i} ELSE Created
    BY <1>3 DEF Created
  <1>6. Ended' = IF kind = "created" THEN Ended ELSE Ended \cup {i}
    BY <1>3 DEF Ended
  <1> QED BY <1>2, <1>3, <1>4, <1>5, <1>6

-----------------------------------------------------------------------------
(* The invariant is inductive. *)

\* A new volume satisfies the invariant.
LEMMA IntentInit == Init => IntentInv
  <1> SUFFICES ASSUME Init PROVE IntentInv
    OBVIOUS
  <1> USE IntentConstants
  <1>1. /\ pc = "down" /\ work = {} /\ store = NoIntents /\ storeFile = NoIntents
        /\ log = <<>> /\ logFile = <<>> /\ handed = <<>> /\ owner = <<>> /\ purged = {}
    BY DEF Init
  <1>2. DOMAIN NoIntents = {} /\ Len(owner) = 0 /\ DOMAIN log = {} /\ DOMAIN logFile = {} /\ DOMAIN handed = {}
    BY <1>1 DEF NoIntents
  <1>3. TypeOK
    <2>1. IsStore(store) /\ IsStore(storeFile)
      BY <1>1, <1>2 DEF IsStore
    <2>2. lostStore \in BOOLEAN /\ lostLog \in BOOLEAN /\ cut \in BOOLEAN
      BY DEF Init
    <2>3. log \in Seq(Event) /\ logFile \in Seq(Event) /\ handed \in Seq(Id) /\ owner \in Seq(Buyer)
      BY <1>1
    <2>4. price \in 0..PriceLife /\ sweepIn \in 0..SweepEvery /\ writable \subseteq Files /\ crashes \in Nat /\ faults \in Nat
      BY DEF Init
    <2> QED BY <1>1, <2>1, <2>2, <2>3, <2>4 DEF TypeOK
  <1>4. IdInv /\ LagInv /\ WorkInv
    BY <1>1, <1>2 DEF IdInv, LagInv, WorkInv
  <1>5. CurrentLog = <<>> /\ DOMAIN CurrentStore = {} /\ Ending = {}
    BY <1>1, <1>2 DEF CurrentLog, CurrentStore, Ending
  <1>6. \A kinds, i : Logged(kinds, i) = {}
    BY <1>5 DEF Logged
  <1>7. Recorded = {}
    BY <1>6 DEF Recorded, Created
  <1>8. EndInv
    BY <1>5 DEF EndInv
  <1>9. MatchInv
    BY <1>1, <1>5, <1>7 DEF MatchInv
  <1> QED BY <1>3, <1>4, <1>8, <1>9 DEF IntentInv

\* Steps that move neither the handlers nor the records: the clock, a file's fault, stuttering.
LEMMA QuietStep ==
    ASSUME IntentInv, UNCHANGED <<pc, work, log, logFile, handed, owner, lostStore, lostLog, cut, purged>>,
           DOMAIN store' = DOMAIN store, DOMAIN storeFile' = DOMAIN storeFile
    PROVE  IdInv' /\ LagInv' /\ WorkInv' /\ EndInv' /\ MatchInv'
  <1>1. CurrentLog' = CurrentLog /\ DOMAIN CurrentStore' = DOMAIN CurrentStore /\ Ending' = Ending
    BY DEF CurrentLog, CurrentStore, Ending
  <1>2. (\A kinds, i : Logged(kinds, i)' = Logged(kinds, i)) /\ Recorded' = Recorded
    BY <1>1, SameLedger DEF Recorded
  <1>3. IdInv' /\ LagInv'
    BY DEF IntentInv, IdInv, LagInv
  <1>4. WorkInv'
    BY DEF IntentInv, WorkInv, Last
  <1>5. EndInv'
    BY <1>1, <1>2 DEF IntentInv, EndInv
  <1>6. MatchInv'
    BY <1>1, <1>2 DEF IntentInv, MatchInv
  <1> QED BY <1>3, <1>4, <1>5, <1>6

\* A boot keeps the invariant.
LEMMA BootStep == ASSUME IntentInv, Boot PROVE IntentInv'
  <1> USE BootFacts, IntentConstants
  <1>1. TypeOK'
    <2>1. IsStore(store)' /\ IsStore(storeFile)'
      BY DEF IntentInv, TypeOK, IsStore
    <2>2. (work = {})' /\ pc' = "sweep"
      BY DEF IntentInv, TypeOK
    <2>3. price' \in 0..PriceLife
      OBVIOUS
    <2> QED BY <2>1, <2>2, <2>3 DEF IntentInv, TypeOK, envVars
  <1>2. CurrentLog' = CurrentLog /\ DOMAIN CurrentStore' = DOMAIN CurrentStore /\ Ending' = {} /\ Ending = {}
    BY DEF CurrentLog, CurrentStore, Ending
  <1>3. (\A kinds, i : Logged(kinds, i)' = Logged(kinds, i)) /\ Recorded' = Recorded
    BY <1>2, SameLedger DEF Recorded, envVars
  <1>4. IdInv' /\ LagInv' /\ WorkInv'
    BY DEF IntentInv, IdInv, LagInv, WorkInv, envVars
  <1>5. EndInv'
    BY <1>2, <1>3 DEF IntentInv, EndInv, envVars
  <1>6. MatchInv'
    BY <1>2, <1>3 DEF IntentInv, MatchInv, envVars
  <1> QED BY <1>1, <1>4, <1>5, <1>6 DEF IntentInv

\* A stop between any two writes keeps the invariant.
LEMMA StopStep == ASSUME IntentInv, Stop PROVE IntentInv'
  <1> USE StopFacts, IntentConstants
  <1>0. DOMAIN store' = {} /\ DOMAIN log' = {}
    BY DEF NoIntents
  <1>1. TypeOK'
    <2>1. IsStore(store)' /\ IsStore(storeFile)'
      BY <1>0 DEF IntentInv, TypeOK, IsStore
    <2>2. lostStore' \in BOOLEAN /\ lostLog' \in BOOLEAN /\ cut' \in BOOLEAN
      BY Zenon DEF IntentInv, TypeOK
    <2>3. price' \in 0..PriceLife /\ sweepIn' \in 0..SweepEvery /\ crashes' \in Nat
      BY DEF IntentInv, TypeOK
    <2>4. log' \in Seq(Event)
      OBVIOUS
    <2>5. work' \subseteq 1..Len(owner') /\ (work' = {}) = (pc' \in {"down", "idle", "sweep"})
      OBVIOUS
    <2> QED BY <2>1, <2>2, <2>3, <2>4, <2>5 DEF IntentInv, TypeOK
  <1>2. Ending' = {}
    BY DEF Ending
  <1>3. IdInv' /\ LagInv' /\ WorkInv'
    BY <1>0 DEF IntentInv, IdInv, LagInv, WorkInv
  <1>4. ASSUME ~(lostStore' \/ lostLog')
        PROVE  /\ ~(lostStore \/ lostLog) /\ CurrentLog' = CurrentLog /\ CurrentStore' = CurrentStore
    BY <1>4 DEF CurrentLog, CurrentStore
  <1>5. EndInv'
    BY <1>2, <1>4, SameLedger DEF IntentInv, EndInv
  <1>6. ASSUME ~(lostStore' \/ lostLog' \/ cut')
        PROVE  DOMAIN CurrentStore' = Recorded'
    <2>1. /\ ~(lostStore \/ lostLog \/ cut) /\ CurrentLog' = CurrentLog /\ CurrentStore' = CurrentStore
          /\ pc \notin {"createLog", "revokeLog", "sweepLog"}
      BY <1>4, <1>6
    <2>2. DOMAIN CurrentStore = Recorded
      BY <2>1 DEF IntentInv, MatchInv
    <2>3. Recorded' = Recorded
      BY <2>1, SameLedger DEF Recorded
    <2> QED BY <2>1, <2>2, <2>3
  <1>7. MatchInv'
    BY <1>6 DEF MatchInv
  <1> QED BY <1>1, <1>3, <1>5, <1>7 DEF IntentInv

\* Creating an intent keeps the invariant.
LEMMA CreateStep == ASSUME IntentInv, NEW b \in Buyer, CreateIntent(b) PROVE IntentInv'
  <1> USE IntentConstants
  <1>a. TypeOK /\ IdInv /\ LagInv /\ WorkInv /\ EndInv /\ MatchInv
    BY DEF IntentInv
  <1>b. /\ owner' \in Seq(Buyer) /\ Len(owner') = Len(owner) + 1 /\ Len(owner') \in 1..MaxIntents
        /\ DOMAIN store' = DOMAIN store \cup {Len(owner')} /\ Len(owner') \notin DOMAIN store
        /\ store'[Len(owner')] \in 0..TTL /\ (\A i \in DOMAIN store : store'[i] = store[i])
        /\ storeFile' \in {store', storeFile} /\ work' = {Len(owner')}
        /\ pc = "idle" /\ pc' = "createLog"
        /\ UNCHANGED <<log, logFile, handed, price, sweepIn, envVars>>
    BY <1>a, CreateFacts
  <1>c. Len(owner) \in Nat /\ 1..Len(owner) \subseteq 1..Len(owner') /\ Len(owner') \notin 1..Len(owner)
    BY <1>a, <1>b DEF IdInv
  <1>1. TypeOK'
    <2>1. IsStore(store)' /\ IsStore(storeFile)'
      <3>1. /\ DOMAIN store \subseteq 1..Len(owner) /\ \A i \in DOMAIN store : store[i] \in 0..TTL
            /\ DOMAIN storeFile \subseteq 1..Len(owner) /\ \A i \in DOMAIN storeFile : storeFile[i] \in 0..TTL
        BY <1>a DEF TypeOK, IsStore
      <3>2. Len(owner') \in 1..Len(owner')
        BY <1>b
      <3>3. DOMAIN store' \subseteq 1..Len(owner') /\ \A i \in DOMAIN store' : store'[i] \in 0..TTL
        BY <1>b, <1>c, <3>1, <3>2
      <3>4. DOMAIN storeFile' \subseteq 1..Len(owner') /\ \A i \in DOMAIN storeFile' : storeFile'[i] \in 0..TTL
        BY <1>b, <1>c, <3>1, <3>3
      <3> QED BY <3>3, <3>4 DEF IsStore
    <2>2. work' \subseteq 1..Len(owner') /\ (work' = {}) = (pc' \in {"down", "idle", "sweep"})
      BY <1>b, <1>c
    <2> QED BY <1>a, <1>b, <2>1, <2>2 DEF TypeOK, envVars
  <1>2. CurrentLog' = CurrentLog /\ CurrentLog = log /\ CurrentStore = store /\ CurrentStore' = store' /\ Ending' = {}
    BY <1>b DEF CurrentLog, CurrentStore, Ending
  <1>3. (\A kinds, i : Logged(kinds, i)' = Logged(kinds, i)) /\ Recorded' = Recorded
    BY <1>b, <1>2, SameLedger DEF Recorded, envVars
  <1>4. IdInv'
    BY <1>a, <1>b, <1>c DEF IdInv, envVars
  <1>5. LagInv'
    BY <1>a, <1>b DEF LagInv
  <1>6. WorkInv'
    BY <1>a, <1>b, <1>c DEF WorkInv, Last, IdInv, envVars
  <1>7. EndInv'
    <2>1. \A kinds : Logged(kinds, Len(owner')) = {}
      BY <1>a, <1>2, <1>c DEF Logged, IdInv
    <2> QED BY <1>a, <1>b, <1>2, <1>3, <2>1 DEF EndInv, envVars
  <1>8. MatchInv'
    BY <1>a, <1>b, <1>2, <1>3 DEF MatchInv, envVars
  <1> QED BY <1>1, <1>4, <1>5, <1>6, <1>7, <1>8 DEF IntentInv

\* Taking an intent out of the store, by revocation or expiry, keeps the invariant.
LEMMA EvictStep ==
    ASSUME IntentInv,
           \/ \E b \in Buyer, i \in Id : RevokeIntent(i, b)
           \/ Sweep /\ work' # {}
    PROVE  IntentInv'
  <1> USE IntentConstants
  <1>a. TypeOK /\ IdInv /\ LagInv /\ WorkInv /\ EndInv /\ MatchInv
    BY DEF IntentInv
  <1>b. /\ work' # {} /\ work' \subseteq DOMAIN store /\ DOMAIN store' = DOMAIN store \ work'
        /\ \A i \in DOMAIN store' : store'[i] = store[i]
        /\ storeFile' \in {store', storeFile} /\ sweepIn' \in {sweepIn, SweepEvery}
        /\ pc \in {"idle", "sweep"} /\ pc' \in {"revokeLog", "sweepLog"}
        /\ pc' = "revokeLog" => \E i \in work' : work' = {i}
        /\ UNCHANGED <<log, logFile, handed, owner, price, envVars>>
    BY <1>a, EvictFacts
  <1>1. TypeOK'
    <2>1. IsStore(store)' /\ IsStore(storeFile)'
      BY <1>a, <1>b DEF TypeOK, IsStore
    <2>2. work' \subseteq 1..Len(owner') /\ (work' = {}) = (pc' \in {"down", "idle", "sweep"})
      BY <1>a, <1>b DEF TypeOK, IsStore
    <2>3. sweepIn' \in 0..SweepEvery
      BY <1>a, <1>b DEF TypeOK
    <2> QED BY <1>a, <1>b, <2>1, <2>2, <2>3 DEF TypeOK, envVars
  <1>2. CurrentLog' = CurrentLog /\ CurrentStore = store /\ CurrentStore' = store' /\ Ending' = work'
    BY <1>b DEF CurrentLog, CurrentStore, Ending
  <1>3. (\A kinds, i : Logged(kinds, i)' = Logged(kinds, i)) /\ Recorded' = Recorded
    BY <1>b, <1>2, SameLedger DEF Recorded, envVars
  <1>4. IdInv'
    BY <1>a, <1>b DEF IdInv, envVars
  <1>5. LagInv'
    BY <1>a, <1>b DEF LagInv
  <1>6. WorkInv'
    BY <1>b DEF WorkInv
  <1>7. EndInv'
    BY <1>a, <1>b, <1>2, <1>3 DEF EndInv, envVars
  <1>8. MatchInv'
    BY <1>a, <1>b, <1>2, <1>3 DEF MatchInv, envVars
  <1> QED BY <1>1, <1>4, <1>5, <1>6, <1>7, <1>8 DEF IntentInv

\* A sweep that finds nothing expired keeps the invariant.
LEMMA IdleSweepStep == ASSUME IntentInv, Sweep, work' = {} PROVE IntentInv'
  <1> USE IntentConstants
  <1>a. TypeOK /\ IdInv /\ LagInv /\ WorkInv /\ EndInv /\ MatchInv
    BY DEF IntentInv
  <1>b. /\ pc \in {"idle", "sweep"} /\ pc' = "idle" /\ sweepIn' = SweepEvery /\ work' = {}
        /\ UNCHANGED <<store, storeFile, log, logFile, handed, owner, price, envVars>>
    BY IdleSweep
  <1>1. TypeOK'
    <2>1. IsStore(store)' /\ IsStore(storeFile)'
      BY <1>a, <1>b DEF TypeOK, IsStore
    <2>2. sweepIn' \in 0..SweepEvery
      BY <1>b
    <2> QED BY <1>a, <1>b, <2>1, <2>2 DEF TypeOK, envVars
  <1>2. CurrentLog' = CurrentLog /\ CurrentStore' = CurrentStore /\ Ending' = {} /\ Ending = {}
    BY <1>b DEF CurrentLog, CurrentStore, Ending
  <1>3. (\A kinds, i : Logged(kinds, i)' = Logged(kinds, i)) /\ Recorded' = Recorded
    BY <1>b, <1>2, SameLedger DEF Recorded, envVars
  <1>4. IdInv' /\ LagInv' /\ WorkInv'
    BY <1>a, <1>b DEF IdInv, LagInv, WorkInv, envVars
  <1>5. EndInv'
    BY <1>a, <1>b, <1>2, <1>3 DEF EndInv, envVars
  <1>6. MatchInv'
    BY <1>a, <1>b, <1>2, <1>3 DEF MatchInv, envVars
  <1> QED BY <1>1, <1>4, <1>5, <1>6 DEF IntentInv

\* The handoff keeps the invariant.
LEMMA HandoffStep == ASSUME IntentInv, Handoff PROVE IntentInv'
  <1> USE IntentConstants
  <1>a. TypeOK /\ IdInv /\ LagInv /\ WorkInv /\ EndInv /\ MatchInv
    BY DEF IntentInv
  <1>b. /\ pc = "handoff" /\ pc' = "idle" /\ work = {Last} /\ work' = {} /\ Last \in Id /\ Last \in Nat
        /\ Emit(Last)
        /\ UNCHANGED <<store, storeFile, log, logFile, owner, price, sweepIn, envVars>>
    BY <1>a, HandoffFacts
  <1>c. \/ handed' = handed
        \/ /\ handed' \in Seq(Id) /\ DOMAIN handed' = DOMAIN handed \cup {Len(handed) + 1}
           /\ Len(handed) + 1 \notin DOMAIN handed /\ handed'[Len(handed) + 1] = Last
           /\ \A n \in DOMAIN handed : handed'[n] = handed[n]
    BY <1>a, <1>b, EmitFacts
  <1>1. TypeOK'
    <2>1. IsStore(store)' /\ IsStore(storeFile)'
      BY <1>a, <1>b DEF TypeOK, IsStore
    <2>2. handed' \in Seq(Id)
      BY <1>a, <1>c DEF TypeOK
    <2> QED BY <1>a, <1>b, <2>1, <2>2 DEF TypeOK, envVars
  <1>2. CurrentLog' = CurrentLog /\ CurrentStore' = CurrentStore /\ Ending' = {} /\ Ending = {}
    BY <1>b DEF CurrentLog, CurrentStore, Ending
  <1>3. (\A kinds, i : Logged(kinds, i)' = Logged(kinds, i)) /\ Recorded' = Recorded
    BY <1>b, <1>2, SameLedger DEF Recorded, envVars
  <1>4. IdInv'
    <2>1. Last \in 1..Len(owner)
      BY <1>a, <1>b DEF TypeOK
    <2>2. \A n \in DOMAIN handed' : handed'[n] \in 1..Len(owner)
      BY <1>a, <1>c, <2>1 DEF IdInv
    <2> QED BY <1>a, <1>b, <2>2 DEF IdInv, envVars
  <1>5. LagInv' /\ WorkInv'
    BY <1>a, <1>b DEF LagInv, WorkInv
  <1>6. EndInv'
    BY <1>a, <1>b, <1>2, <1>3 DEF EndInv, envVars
  <1>7. MatchInv'
    BY <1>a, <1>b, <1>2, <1>3 DEF MatchInv, envVars
  <1> QED BY <1>1, <1>4, <1>5, <1>6, <1>7 DEF IntentInv

\* Logging the created intent keeps the invariant.
LEMMA CreateLogStep == ASSUME IntentInv, CreateLog PROVE IntentInv'
  <1> USE IntentConstants
  <1>a. TypeOK /\ IdInv /\ LagInv /\ WorkInv /\ EndInv /\ MatchInv
    BY DEF IntentInv
  <1>b. /\ pc = "createLog" /\ pc' = "handoff" /\ Last \in Id /\ Last \in Nat /\ work = {Last}
        /\ AppendEvent("created", Last)
        /\ UNCHANGED <<work, store, storeFile, handed, owner, price, sweepIn, envVars>>
    BY <1>a, CreateLogFacts
  <1>c. /\ log' \in Seq(Event) /\ DOMAIN log' = DOMAIN log \cup {Len(log) + 1}
        /\ Len(log) + 1 \notin DOMAIN log /\ log'[Len(log) + 1] = [kind |-> "created", id |-> Last]
        /\ \A n \in DOMAIN log : log'[n] = log[n]
        /\ logFile' \in {log', logFile}
    BY <1>a, <1>b, AppendFacts
  <1>d. /\ \A kinds, j : Logged(kinds, j)' = IF j = Last /\ "created" \in kinds
                                               THEN Logged(kinds, j) \cup {Len(log) + 1} ELSE Logged(kinds, j)
        /\ Created' = Created \cup {Last} /\ Ended' = Ended
    <2>1. pc # "down" /\ pc' # "down"
      BY <1>b
    <2>2. /\ \A kinds, j : Logged(kinds, j)' = IF j = Last /\ "created" \in kinds
                                               THEN Logged(kinds, j) \cup {Len(log) + 1} ELSE Logged(kinds, j)
          /\ Created' = IF "created" = "created" THEN Created \cup {Last} ELSE Created
          /\ Ended' = IF "created" = "created" THEN Ended ELSE Ended \cup {Last}
      BY <1>a, <1>b, <2>1, OneMoreEvent
    <2> QED BY <2>2
  <1>1. TypeOK'
    <2>1. IsStore(store)' /\ IsStore(storeFile)'
      BY <1>a, <1>b DEF TypeOK, IsStore
    <2>2. log' \in Seq(Event) /\ logFile' \in Seq(Event)
      BY <1>a, <1>c DEF TypeOK
    <2> QED BY <1>a, <1>b, <2>1, <2>2 DEF TypeOK, envVars
  <1>2. CurrentStore = store /\ CurrentStore' = store /\ Ending' = {} /\ Ending = {}
    BY <1>b DEF CurrentStore, Ending
  <1>3. IdInv'
    <2>1. Last \in 1..Len(owner)
      BY <1>a, <1>b DEF TypeOK
    <2>2. \A n \in DOMAIN log' : log'[n].id \in 1..Len(owner)
      BY <1>a, <1>c, <2>1 DEF IdInv
    <2>3. \A n \in DOMAIN logFile' : logFile'[n].id \in 1..Len(owner)
      BY <1>a, <1>c, <2>2 DEF IdInv
    <2> QED BY <1>a, <1>b, <2>2, <2>3 DEF IdInv, envVars
  <1>4. LagInv'
    BY <1>a, <1>b, <1>c DEF LagInv
  <1>5. WorkInv'
    <2>1. \A n \in DOMAIN log : log[n].id # Last
      BY <1>a, <1>b DEF WorkInv
    <2>2. \A n \in DOMAIN log' : log'[n].id = Last => n = Len(log) + 1
      BY <1>c, <2>1
    <2>3. Last' = Last
      BY <1>b DEF Last
    <2>4. \E m \in DOMAIN log' : /\ log'[m] = [kind |-> "created", id |-> Last]
                                 /\ \A n \in DOMAIN log' : log'[n].id = Last => n = m
      BY <1>c, <2>2
    <2> QED BY <1>a, <1>b, <2>3, <2>4 DEF WorkInv, envVars
  <1>6. EndInv'
    BY <1>a, <1>b, <1>d, <1>2 DEF EndInv, envVars
  <1>7. MatchInv'
    <2>1. Last \notin Ended /\ Last \notin purged
      <3>1. Logged({"revoked", "expired"}, Last) = {}
        BY <1>a, <1>b DEF Logged, CurrentLog, WorkInv
      <3> QED BY <1>a, <1>b, <3>1 DEF Ended, WorkInv
    <2>2. Recorded' = Recorded \cup {Last}
      BY <1>b, <1>d, <2>1 DEF Recorded, envVars
    <2> QED BY <1>a, <1>b, <1>2, <2>2 DEF MatchInv, envVars
  <1> QED BY <1>1, <1>3, <1>4, <1>5, <1>6, <1>7 DEF IntentInv

\* Logging an intent's end keeps the invariant.
LEMMA EndLogStep == ASSUME IntentInv, RevokeLog \/ SweepLog PROVE IntentInv'
  <1> USE IntentConstants
  <1> DEFINE i == Least(work)
  <1>a. TypeOK /\ IdInv /\ LagInv /\ WorkInv /\ EndInv /\ MatchInv
    BY DEF IntentInv
  <1>b. /\ pc \in {"revokeLog", "sweepLog"} /\ i \in work /\ i \in Id
        /\ \E kind \in {"revoked", "expired"} : AppendEvent(kind, i)
        /\ work' = work \ {i} /\ pc' = IF work' = {} THEN "idle" ELSE "sweepLog"
        /\ UNCHANGED <<store, storeFile, handed, owner, price, sweepIn, envVars>>
    BY <1>a, EndLogFacts
  <1> HIDE DEF i
  <1>k. PICK kind \in {"revoked", "expired"} : AppendEvent(kind, i)
    BY <1>b
  <1>c. /\ log' \in Seq(Event) /\ DOMAIN log' = DOMAIN log \cup {Len(log) + 1}
        /\ Len(log) + 1 \notin DOMAIN log /\ log'[Len(log) + 1] = [kind |-> kind, id |-> i]
        /\ \A n \in DOMAIN log : log'[n] = log[n]
        /\ logFile' \in {log', logFile}
    BY <1>a, <1>b, <1>k, AppendFacts
  <1>d. /\ \A kinds, j : Logged(kinds, j)' = IF j = i /\ kind \in kinds
                                               THEN Logged(kinds, j) \cup {Len(log) + 1} ELSE Logged(kinds, j)
        /\ Created' = Created /\ Ended' = Ended \cup {i}
    <2>1. pc # "down" /\ pc' # "down" /\ kind \in {"created", "revoked", "expired"} /\ kind # "created"
      BY <1>b
    <2>2. /\ \A kinds, j : Logged(kinds, j)' = IF j = i /\ kind \in kinds
                                               THEN Logged(kinds, j) \cup {Len(log) + 1} ELSE Logged(kinds, j)
          /\ Created' = IF kind = "created" THEN Created \cup {i} ELSE Created
          /\ Ended' = IF kind = "created" THEN Ended ELSE Ended \cup {i}
      BY <1>a, <1>b, <1>k, <2>1, OneMoreEvent
    <2> QED BY <2>1, <2>2
  <1>1. TypeOK'
    <2>1. IsStore(store)' /\ IsStore(storeFile)'
      BY <1>a, <1>b DEF TypeOK, IsStore
    <2>2. log' \in Seq(Event) /\ logFile' \in Seq(Event)
      BY <1>a, <1>c DEF TypeOK
    <2>3. work' \subseteq 1..Len(owner') /\ (work' = {}) = (pc' \in {"down", "idle", "sweep"})
      BY <1>a, <1>b DEF TypeOK
    <2> QED BY <1>a, <1>b, <2>1, <2>2, <2>3 DEF TypeOK, envVars
  <1>2. CurrentStore = store /\ CurrentStore' = store /\ Ending = work /\ Ending' = work'
    BY <1>b DEF CurrentStore, Ending
  <1>3. IdInv'
    <2>1. i \in 1..Len(owner)
      BY <1>a, <1>b DEF TypeOK
    <2>2. \A n \in DOMAIN log' : log'[n].id \in 1..Len(owner)
      BY <1>a, <1>c, <2>1 DEF IdInv
    <2>3. \A n \in DOMAIN logFile' : logFile'[n].id \in 1..Len(owner)
      BY <1>a, <1>c, <2>2 DEF IdInv
    <2> QED BY <1>a, <1>b, <2>2, <2>3 DEF IdInv, envVars
  <1>4. LagInv'
    BY <1>a, <1>b, <1>c DEF LagInv
  <1>5. WorkInv'
    BY <1>a, <1>b DEF WorkInv
  <1>6. EndInv'
    <2>1. i \notin DOMAIN store
      BY <1>a, <1>b DEF WorkInv
    <2> QED BY <1>a, <1>b, <1>d, <1>2, <2>1 DEF EndInv, envVars
  <1>7. MatchInv'
    <2>1. Recorded' = Recorded \ {i}
      BY <1>b, <1>d DEF Recorded, envVars
    <2> QED BY <1>a, <1>b, <1>2, <2>1 DEF MatchInv, envVars
  <1> QED BY <1>1, <1>3, <1>4, <1>5, <1>6, <1>7 DEF IntentInv

\* The erasure command's purge keeps the invariant.
LEMMA PurgeStep == ASSUME IntentInv, NEW b \in Buyer, PurgeBuyer(b) PROVE IntentInv'
  <1> USE IntentConstants
  <1>a. TypeOK /\ IdInv /\ LagInv /\ WorkInv /\ EndInv /\ MatchInv
    BY DEF IntentInv
  <1>b. /\ pc = "down"
        /\ UNCHANGED <<pc, work, store, log, logFile, handed, owner, price, sweepIn, writable, faults,
                       crashes, lostStore, lostLog, cut>>
    BY PurgeFacts
  <1>c. PICK ids \in SUBSET DOMAIN storeFile :
              /\ ids # {} /\ purged' = purged \cup ids /\ DOMAIN storeFile' = DOMAIN storeFile \ ids
              /\ \A i \in DOMAIN storeFile' : storeFile'[i] = storeFile[i]
    BY PurgeFacts
  <1>d. ids \subseteq 1..Len(owner) /\ 1..Len(owner) \subseteq Id
    BY <1>a DEF TypeOK, IsStore, IdInv, Id
  <1>1. TypeOK'
    <2>1. IsStore(store)' /\ IsStore(storeFile)'
      BY <1>a, <1>b, <1>c DEF TypeOK, IsStore
    <2>2. purged' \subseteq Id
      BY <1>a, <1>c, <1>d DEF TypeOK
    <2> QED BY <1>a, <1>b, <2>1, <2>2 DEF TypeOK
  <1>2. CurrentLog' = CurrentLog /\ CurrentStore' = storeFile' /\ CurrentStore = storeFile /\ Ending' = {} /\ Ending = {}
    BY <1>b DEF CurrentLog, CurrentStore, Ending
  <1>3. (\A kinds, i : Logged(kinds, i)' = Logged(kinds, i)) /\ Recorded' = Recorded \ ids
    BY <1>c, <1>2, SameLedger DEF Recorded
  <1>4. IdInv' /\ LagInv' /\ WorkInv'
    BY <1>a, <1>b, <1>c, <1>d DEF IdInv, LagInv, WorkInv
  <1>5. EndInv'
    BY <1>a, <1>b, <1>c, <1>2, <1>3 DEF EndInv
  <1>6. MatchInv'
    BY <1>a, <1>b, <1>c, <1>2, <1>3 DEF MatchInv
  <1> QED BY <1>1, <1>4, <1>5, <1>6 DEF IntentInv

\* Time passing keeps the invariant.
LEMMA TickStep == ASSUME IntentInv, Tick PROVE IntentInv'
  <1>a. TypeOK
    BY DEF IntentInv
  <1>b. /\ DOMAIN store' = DOMAIN store /\ (\A i \in DOMAIN store : store'[i] \in 0..TTL)
        /\ DOMAIN storeFile' = DOMAIN storeFile /\ (\A i \in DOMAIN storeFile : storeFile'[i] \in 0..TTL)
        /\ price' \in 0..PriceLife /\ sweepIn' \in 0..SweepEvery
        /\ UNCHANGED <<pc, work, log, logFile, handed, owner, envVars>>
    BY <1>a, TickFacts
  <1>1. IsStore(store)' /\ IsStore(storeFile)'
    BY <1>a, <1>b DEF TypeOK, IsStore
  <1>2. TypeOK'
    BY <1>a, <1>b, <1>1 DEF TypeOK, envVars
  <1>3. IdInv' /\ LagInv' /\ WorkInv' /\ EndInv' /\ MatchInv'
    <2>1. UNCHANGED <<pc, work, log, logFile, handed, owner, lostStore, lostLog, cut, purged>>
      BY <1>b DEF envVars
    <2> QED BY <1>b, <2>1, QuietStep
  <1> QED BY <1>2, <1>3 DEF IntentInv

\* A file that stops or starts to accept writes keeps the invariant.
LEMMA FaultStep == ASSUME IntentInv, NEW f \in Files, FileFault(f) PROVE IntentInv'
  <1>a. /\ faults' = faults + 1 /\ writable' = IF f \in writable THEN writable \ {f} ELSE writable \cup {f}
        /\ UNCHANGED <<pc, work, store, storeFile, log, logFile, handed, owner, price, sweepIn,
                       crashes, lostStore, lostLog, cut, purged>>
    BY DEF FileFault, storeVars, logVars
  <1>1. IsStore(store)' /\ IsStore(storeFile)'
    BY <1>a DEF IntentInv, TypeOK, IsStore
  <1>2. writable' \subseteq Files /\ faults' \in Nat
    BY <1>a DEF IntentInv, TypeOK
  <1>3. TypeOK'
    BY <1>a, <1>1, <1>2 DEF IntentInv, TypeOK
  <1>4. IdInv' /\ LagInv' /\ WorkInv' /\ EndInv' /\ MatchInv'
    BY <1>a, QuietStep
  <1> QED BY <1>3, <1>4 DEF IntentInv

\* Every step keeps the invariant.
LEMMA IntentStep == IntentInv /\ [Next]_vars => IntentInv'
  <1> SUFFICES ASSUME IntentInv, [Next]_vars PROVE IntentInv'
    OBVIOUS
  <1>1. CASE Step
    <2>1. CASE Sweep
      BY <2>1, EvictStep, IdleSweepStep
    <2> QED BY <1>1, <2>1, CreateLogStep, HandoffStep, EndLogStep DEF Step
  <1>2. CASE Boot \/ Stop \/ Tick
    BY <1>2, BootStep, StopStep, TickStep
  <1>3. CASE \E b \in Buyer : CreateIntent(b) \/ PurgeBuyer(b)
    BY <1>3, CreateStep, PurgeStep
  <1>4. CASE \E b \in Buyer, i \in Id : RevokeIntent(i, b)
    BY <1>4, EvictStep
  <1>5. CASE \E f \in Files : FileFault(f)
    BY <1>5, FaultStep
  <1>6. CASE UNCHANGED vars
    <2>1. /\ UNCHANGED <<pc, work, log, logFile, handed, owner, lostStore, lostLog, cut, purged>>
          /\ UNCHANGED <<store, storeFile, price, sweepIn, writable, crashes, faults>>
      BY <1>6 DEF vars, storeVars, logVars, envVars
    <2>2. TypeOK'
      BY <2>1 DEF IntentInv, TypeOK, IsStore
    <2>3. IdInv' /\ LagInv' /\ WorkInv' /\ EndInv' /\ MatchInv'
      BY <2>1, QuietStep
    <2> QED BY <2>2, <2>3 DEF IntentInv
  <1> QED BY <1>1, <1>2, <1>3, <1>4, <1>5, <1>6 DEF Next

\* The invariant in every state of the intent store.
LEMMA IntentAlways == Spec => []IntentInv
  BY IntentInit, IntentStep, PTL DEF Spec

\* In every reachable state the store, its file, the events and the handler's place between
\* two writes are of their types, whatever the buyers, the lifetimes and the faults.
THEOREM IntentTypeCorrect == Spec => []TypeOK
  <1>1. IntentInv => TypeOK
    BY DEF IntentInv
  <1> QED BY <1>1, IntentAlways, PTL

\* Between two handlers the intent store holds exactly the intents the ledger has opened and
\* not ended, erased ones aside, as long as no write was lost and no handler was cut in two.
THEOREM StoreAgrees == Spec => []StoreMatchesLedger
  <1>1. IntentInv => StoreMatchesLedger
    <2> SUFFICES ASSUME MatchInv, pc = "idle", ~lostStore, ~lostLog, ~cut
                 PROVE  DOMAIN store = (Created \ Ended) \ purged
      BY DEF IntentInv, StoreMatchesLedger
    <2> QED BY DEF MatchInv, Recorded, CurrentStore
  <1> QED BY <1>1, IntentAlways, PTL

-----------------------------------------------------------------------------
(* The refinement of the contract: the abstract state, and what keeps or changes it. *)

Serving == pc # "down"
Phases == [i \in Id |-> PhaseOf(i)]
Notes == [i \in Id |-> [opening |-> Times({"created"}, i), end |-> Times({"revoked", "expired"}, i)]]
Lines(i) == {n \in DOMAIN handed : handed[n] = i}
Tolds == [i \in Id |-> Cardinality(Lines(i))]
Loss == lostStore \/ lostLog

\* The contract sees no change when the ids and the stored ones are the same.
LEMMA SamePhases ==
    ASSUME owner' = owner, DOMAIN CurrentStore' = DOMAIN CurrentStore
    PROVE  Phases' = Phases
  BY DEF Phases, PhaseOf

\* The contract's notes depend on the ledger's log alone.
LEMMA SameNotes ==
    ASSUME CurrentLog' = CurrentLog
    PROVE  Notes' = Notes
  BY SameLedger DEF Notes, Times

\* What the contract says the publisher was told depends on the handoff file alone.
LEMMA SameTolds ==
    ASSUME handed' = handed
    PROVE  Tolds' = Tolds
  BY DEF Tolds, Lines

\* The events about an intent can be counted.
LEMMA LoggedFinite ==
    ASSUME TypeOK
    PROVE  \A kinds, i : IsFiniteSet(Logged(kinds, i)) /\ Times(kinds, i) \in Nat
  <1>1. CurrentLog \in Seq(Event)
    BY DEF TypeOK, CurrentLog
  <1>2. DOMAIN CurrentLog = 1..Len(CurrentLog) /\ Len(CurrentLog) \in Nat
    BY <1>1, LenProperties
  <1>3. IsFiniteSet(DOMAIN CurrentLog)
    BY <1>2, FS_Interval
  <1>4. ASSUME NEW kinds, NEW i
        PROVE  IsFiniteSet(Logged(kinds, i)) /\ Times(kinds, i) \in Nat
    <2>1. Logged(kinds, i) \subseteq DOMAIN CurrentLog
      BY DEF Logged
    <2>2. IsFiniteSet(Logged(kinds, i))
      BY <1>3, <2>1, FS_Subset
    <2> QED BY <2>2, FS_CardinalityType DEF Times
  <1> QED BY <1>4

\* A new event counts once, for its intent.
LEMMA OneMoreTime ==
    ASSUME TypeOK, NEW kind \in {"created", "revoked", "expired"}, NEW i \in Id, AppendEvent(kind, i),
           pc # "down", pc' # "down"
    PROVE  \A kinds, j : Times(kinds, j)' = IF j = i /\ kind \in kinds THEN Times(kinds, j) + 1 ELSE Times(kinds, j)
  <1>1. /\ Len(log) + 1 \notin DOMAIN log
        /\ \A kinds, j : Logged(kinds, j)' = IF j = i /\ kind \in kinds
                                               THEN Logged(kinds, j) \cup {Len(log) + 1} ELSE Logged(kinds, j)
        /\ \A kinds, j : Logged(kinds, j) \subseteq DOMAIN log
    BY OneMoreEvent
  <1>2. ASSUME NEW kinds, NEW j
        PROVE  Times(kinds, j)' = IF j = i /\ kind \in kinds THEN Times(kinds, j) + 1 ELSE Times(kinds, j)
    <2>1. Times(kinds, j) = Cardinality(Logged(kinds, j)) /\ Times(kinds, j)' = Cardinality(Logged(kinds, j)')
      BY DEF Times
    <2>2. IsFiniteSet(Logged(kinds, j))
      BY LoggedFinite
    <2>3. Len(log) + 1 \notin Logged(kinds, j)
      BY <1>1
    <2>4. Cardinality(Logged(kinds, j) \cup {Len(log) + 1}) = Cardinality(Logged(kinds, j)) + 1
      BY <2>2, <2>3, FS_AddElement
    <2>5. CASE j = i /\ kind \in kinds
      <3>1. Logged(kinds, j)' = Logged(kinds, j) \cup {Len(log) + 1}
        BY <1>1, <2>5
      <3> QED BY <2>1, <2>4, <2>5, <3>1
    <2>6. CASE ~(j = i /\ kind \in kinds)
      <3>1. Logged(kinds, j)' = Logged(kinds, j)
        BY <1>1, <2>6
      <3> QED BY <2>1, <2>6, <3>1
    <2> QED BY <2>5, <2>6
  <1> QED BY <1>2

-----------------------------------------------------------------------------
(* Each step of the node is a step of the contract, or none. *)

\* Initial states map to initial states of the contract.
LEMMA InitRefines == Init => Promised!ContractInit
  <1> SUFFICES ASSUME Init PROVE Promised!ContractInit
    OBVIOUS
  <1>1. /\ pc = "down" /\ storeFile = NoIntents /\ logFile = <<>> /\ handed = <<>> /\ owner = <<>>
        /\ lostStore = FALSE /\ lostLog = FALSE
    BY DEF Init
  <1>2. CurrentLog = <<>> /\ Len(owner) = 0 /\ DOMAIN handed = {} /\ DOMAIN CurrentLog = {}
    BY <1>1 DEF CurrentLog
  <1>3. \A i \in Id : PhaseOf(i) = "none"
    BY <1>2, IntentConstants DEF PhaseOf, Id
  <1>4. \A kinds, i : Times(kinds, i) = 0
    <2>1. \A kinds, i : Logged(kinds, i) = {}
      BY <1>2 DEF Logged
    <2> QED BY <2>1, FS_EmptySet DEF Times
  <1>5. \A i \in Id : Cardinality({n \in DOMAIN handed : handed[n] = i}) = 0
    <2>1. \A i : {n \in DOMAIN handed : handed[n] = i} = {}
      BY <1>2
    <2> QED BY <2>1, FS_EmptySet
  <1> QED BY <1>1, <1>3, <1>4, <1>5 DEF Promised!ContractInit

\* A boot is the contract's Start.
LEMMA BootRefines == ASSUME IntentInv, Boot PROVE Promised!ContractNext
  <1> USE BootFacts
  <1>1. CurrentLog' = CurrentLog /\ CurrentStore' = CurrentStore
    BY DEF CurrentLog, CurrentStore
  <1>2. Phases' = Phases /\ Notes' = Notes /\ Tolds' = Tolds
    BY <1>1, SamePhases, SameNotes, SameTolds
  <1>3. ~Serving /\ Serving' = TRUE /\ Loss' = Loss
    BY DEF Serving, Loss, envVars
  <1>4. Promised!Start
    BY <1>2, <1>3 DEF Promised!Start, Serving, Phases, Notes, Tolds, Lines, Loss
  <1> QED BY <1>4 DEF Promised!ContractNext

\* Creating an intent is the contract's Open.
LEMMA CreateRefines == ASSUME IntentInv, NEW b \in Buyer, CreateIntent(b) PROVE Promised!ContractNext
  <1>a. TypeOK /\ IdInv
    BY DEF IntentInv
  <1>k. PICK k \in 1..MaxIntents :
              /\ Len(owner') = k /\ k = Len(owner) + 1
              /\ DOMAIN store' = DOMAIN store \cup {k} /\ k \notin DOMAIN store
    BY <1>a, CreateFacts
  <1>b. /\ pc = "idle" /\ pc' = "createLog"
        /\ UNCHANGED <<log, logFile, handed, envVars>>
    BY <1>a, CreateFacts
  <1>c. Len(owner) \in Nat
    BY <1>a, IntentConstants DEF IdInv
  <1>1. CurrentLog' = CurrentLog /\ CurrentStore' = store' /\ CurrentStore = store
    BY <1>b DEF CurrentLog, CurrentStore
  <1>2. Notes' = Notes /\ Tolds' = Tolds
    BY <1>1, <1>b, SameNotes, SameTolds
  <1>3. PhaseOf(k) = "none" /\ PhaseOf(k)' = "open"
    BY <1>1, <1>b, <1>c, <1>k DEF PhaseOf
  <1>4. \A j \in Id : j # k => PhaseOf(j)' = PhaseOf(j)
    <2>1. ASSUME NEW j \in Id, j # k
          PROVE  (j > Len(owner')) = (j > Len(owner))
      BY <1>b, <1>c, <1>k, <2>1 DEF Id
    <2>2. \A j \in Id : j # k => (j \in DOMAIN CurrentStore' <=> j \in DOMAIN CurrentStore)
      BY <1>1, <1>k
    <2> QED BY <2>1, <2>2 DEF PhaseOf
  <1>5. k \in Id /\ Phases[k] = "none" /\ Phases' = [Phases EXCEPT ![k] = "open"]
    BY <1>k, <1>3, <1>4 DEF Phases, Id
  <1>6. Serving /\ Serving' = Serving /\ Loss' = Loss
    BY <1>b DEF Serving, Loss, envVars
  <1>7. Promised!Open(k)
    BY <1>2, <1>5, <1>6 DEF Promised!Open, Serving, Phases, Notes, Tolds, Lines, Loss
  <1> QED BY <1>5, <1>7 DEF Promised!ContractNext

\* Logging a created intent is the contract's NoteOpening.
LEMMA CreateLogRefines == ASSUME IntentInv, CreateLog PROVE Promised!ContractNext
  <1>a. TypeOK /\ IdInv /\ WorkInv
    BY DEF IntentInv
  <1>k. PICK k \in Id : k = Last /\ k \in DOMAIN store /\ k \in 1..Len(owner) /\ AppendEvent("created", k)
    BY <1>a, CreateLogFacts DEF WorkInv, TypeOK, IsStore
  <1>b. pc = "createLog" /\ pc' = "handoff" /\ UNCHANGED <<store, handed, owner, envVars>>
    BY <1>a, CreateLogFacts
  <1>1. CurrentStore' = CurrentStore /\ CurrentStore = store /\ CurrentLog = log
    BY <1>b DEF CurrentLog, CurrentStore
  <1>2. Phases' = Phases /\ Tolds' = Tolds
    BY <1>1, <1>b, SamePhases, SameTolds
  <1>3. Phases[k] = "open"
    <2>1. k \in 1..Len(owner) /\ Len(owner) \in Nat /\ k \in DOMAIN store
      BY <1>k, <1>a, IntentConstants DEF IdInv
    <2> QED BY <1>1, <2>1 DEF Phases, PhaseOf
  <1>4. \A kinds : Times(kinds, k) = 0
    <2>1. \A kinds : Logged(kinds, k) = {}
      BY <1>1, <1>a, <1>b, <1>k DEF Logged, WorkInv
    <2> QED BY <2>1, FS_EmptySet DEF Times
  <1>5. \A kinds, j : Times(kinds, j)' = IF j = k /\ "created" \in kinds THEN Times(kinds, j) + 1 ELSE Times(kinds, j)
    <2>1. pc # "down" /\ pc' # "down"
      BY <1>b
    <2> QED BY <1>a, <1>k, <2>1, OneMoreTime
  <1>6. Notes[k].opening = 0 /\ Notes[k].end = 0 /\ Notes' = [Notes EXCEPT ![k].opening = 1]
    <2>1. Times({"created"}, k) = 0 /\ Times({"revoked", "expired"}, k) = 0
      BY <1>4
    <2>2. Times({"created"}, k)' = 1 /\ \A j \in Id \ {k} : Times({"created"}, j)' = Times({"created"}, j)
      BY <1>5, <2>1
    <2>3. \A j \in Id : Times({"revoked", "expired"}, j)' = Times({"revoked", "expired"}, j)
      BY <1>5
    <2>4. Notes[k] = [opening |-> 0, end |-> 0]
      BY <2>1 DEF Notes
    <2> QED BY <2>1, <2>2, <2>3, <2>4 DEF Notes
  <1>7. Serving /\ Serving' = Serving /\ Loss' = Loss
    BY <1>b DEF Serving, Loss, envVars
  <1>8. Promised!NoteOpening(k)
    BY <1>2, <1>3, <1>6, <1>7 DEF Promised!NoteOpening, Serving, Phases, Notes, Tolds, Lines, Loss
  <1> QED BY <1>8 DEF Promised!ContractNext

\* The handoff line is told once, after the opening was noted; a failed write is no step.
LEMMA HandoffRefines ==
    ASSUME IntentInv, Handoff PROVE Promised!ContractNext \/ UNCHANGED Promised!contractVars
  <1>a. TypeOK /\ IdInv /\ WorkInv
    BY DEF IntentInv
  <1>k. PICK k \in Id : k = Last /\ k \in DOMAIN store /\ k \in 1..Len(owner) /\ Emit(k)
    BY <1>a, HandoffFacts DEF WorkInv, TypeOK, IsStore
  <1>b. pc = "handoff" /\ pc' = "idle" /\ UNCHANGED <<store, log, owner, envVars>>
    BY <1>a, HandoffFacts
  <1>1. CurrentStore' = CurrentStore /\ CurrentStore = store /\ CurrentLog' = CurrentLog /\ CurrentLog = log
    BY <1>b DEF CurrentLog, CurrentStore
  <1>2. Phases' = Phases /\ Notes' = Notes
    BY <1>1, <1>b, SamePhases, SameNotes
  <1>3. Serving /\ Serving' = Serving /\ Loss' = Loss
    BY <1>b DEF Serving, Loss, envVars
  <1>4. CASE handed' = handed
    <2>1. Tolds' = Tolds
      BY <1>4, SameTolds
    <2>2. UNCHANGED Promised!contractVars
      BY <1>2, <1>3, <2>1 DEF Promised!contractVars, Serving, Phases, Notes, Tolds, Lines, Loss
    <2> QED BY <2>2
  <1>5. CASE handed' # handed
    <2>1. /\ DOMAIN handed' = DOMAIN handed \cup {Len(handed) + 1}
          /\ handed'[Len(handed) + 1] = k /\ \A n \in DOMAIN handed : handed'[n] = handed[n]
      BY <1>a, <1>k, <1>5, EmitFacts
    <2>2. \A n \in DOMAIN handed : handed[n] # k
      BY <1>a, <1>b, <1>k DEF WorkInv
    <2>3. Lines(k) = {} /\ Lines(k)' = {Len(handed) + 1}
      BY <2>1, <2>2 DEF Lines
    <2>4. \A j \in Id : j # k => Lines(j)' = Lines(j)
      BY <2>1 DEF Lines
    <2>5. Cardinality({}) = 0 /\ Cardinality({Len(handed) + 1}) = 1
      BY FS_EmptySet, FS_Singleton
    <2>6. Tolds[k] = 0 /\ Tolds' = [Tolds EXCEPT ![k] = 1]
      BY <2>3, <2>4, <2>5 DEF Tolds
    <2>7. Phases[k] = "open"
      <3>1. k \in 1..Len(owner) /\ Len(owner) \in Nat /\ k \in DOMAIN store
        BY <1>k, <1>a, IntentConstants DEF IdInv
      <3> QED BY <1>1, <3>1 DEF Phases, PhaseOf
    <2>8. Times({"created"}, k) = 1 /\ Times({"revoked", "expired"}, k) = 0
      <3>1. PICK m \in DOMAIN log : /\ log[m] = [kind |-> "created", id |-> k]
                                    /\ \A n \in DOMAIN log : log[n].id = k => n = m
        BY <1>a, <1>b, <1>k DEF WorkInv
      <3>2. Logged({"created"}, k) = {m} /\ Logged({"revoked", "expired"}, k) = {}
        BY <1>1, <3>1 DEF Logged
      <3> QED BY <3>2, FS_EmptySet, FS_Singleton DEF Times
    <2>9. Notes[k] = [opening |-> 1, end |-> 0]
      BY <2>8 DEF Notes
    <2>10. Promised!Tell(k)
      BY <1>2, <1>3, <2>6, <2>7, <2>9 DEF Promised!Tell, Serving, Phases, Notes, Tolds, Lines, Loss
    <2> QED BY <2>10 DEF Promised!ContractNext
  <1> QED BY <1>4, <1>5

\* A revocation or a sweep closes the intents that leave the store.
LEMMA EvictRefines ==
    ASSUME IntentInv,
           \/ \E b \in Buyer, i \in Id : RevokeIntent(i, b)
           \/ Sweep /\ work' # {}
    PROVE  Promised!ContractNext
  <1>a. TypeOK /\ IdInv
    BY DEF IntentInv
  <1>b. /\ work' # {} /\ work' \subseteq DOMAIN store /\ DOMAIN store' = DOMAIN store \ work'
        /\ pc \in {"idle", "sweep"} /\ pc' \in {"revokeLog", "sweepLog"}
        /\ UNCHANGED <<log, handed, owner, envVars>>
    BY <1>a, EvictFacts
  <1>c. DOMAIN store \subseteq 1..Len(owner) /\ 1..Len(owner) \subseteq Id /\ Len(owner) \in Nat
    BY <1>a, IntentConstants DEF TypeOK, IsStore, IdInv, Id
  <1>k. PICK S \in SUBSET Id : S # {} /\ S \subseteq DOMAIN store /\ DOMAIN store' = DOMAIN store \ S
    BY <1>b, <1>c
  <1>1. CurrentStore' = store' /\ CurrentStore = store /\ CurrentLog' = CurrentLog
    BY <1>b DEF CurrentLog, CurrentStore
  <1>2. Notes' = Notes /\ Tolds' = Tolds
    BY <1>1, <1>b, SameNotes, SameTolds
  <1>3. \A i \in S : PhaseOf(i) = "open" /\ PhaseOf(i)' = "closed"
    BY <1>1, <1>b, <1>c, <1>k DEF PhaseOf
  <1>4. \A i \in Id \ S : PhaseOf(i)' = PhaseOf(i)
    BY <1>1, <1>b, <1>k DEF PhaseOf
  <1>5. /\ \A i \in S : Phases[i] = "open"
        /\ Phases' = [i \in Id |-> IF i \in S THEN "closed" ELSE Phases[i]]
    BY <1>k, <1>3, <1>4 DEF Phases
  <1>6. Serving' = Serving /\ Loss' = Loss
    BY <1>b DEF Serving, Loss, envVars
  <1>7. Promised!Close(S)
    BY <1>k, <1>2, <1>5, <1>6 DEF Promised!Close, Serving, Phases, Notes, Tolds, Lines, Loss
  <1> QED BY <1>7 DEF Promised!ContractNext

\* An erasure closes the buyer's intents in the file of the stopped node.
LEMMA PurgeRefines == ASSUME IntentInv, NEW b \in Buyer, PurgeBuyer(b) PROVE Promised!ContractNext
  <1>a. TypeOK /\ IdInv
    BY DEF IntentInv
  <1>b. pc = "down" /\ UNCHANGED <<pc, logFile, handed, owner, lostStore, lostLog>>
    BY PurgeFacts
  <1>c. DOMAIN storeFile \subseteq 1..Len(owner) /\ 1..Len(owner) \subseteq Id /\ Len(owner) \in Nat
    BY <1>a, IntentConstants DEF TypeOK, IsStore, IdInv, Id
  <1>d. PICK ids \in SUBSET DOMAIN storeFile : ids # {} /\ DOMAIN storeFile' = DOMAIN storeFile \ ids
    BY PurgeFacts
  <1>k. PICK S \in SUBSET Id : S # {} /\ S \subseteq DOMAIN storeFile /\ DOMAIN storeFile' = DOMAIN storeFile \ S
    BY <1>c, <1>d
  <1>1. CurrentStore' = storeFile' /\ CurrentStore = storeFile /\ CurrentLog' = CurrentLog
    BY <1>b DEF CurrentLog, CurrentStore
  <1>2. Notes' = Notes /\ Tolds' = Tolds
    BY <1>1, <1>b, SameNotes, SameTolds
  <1>3. \A i \in S : PhaseOf(i) = "open" /\ PhaseOf(i)' = "closed"
    BY <1>1, <1>b, <1>c, <1>k DEF PhaseOf
  <1>4. \A i \in Id \ S : PhaseOf(i)' = PhaseOf(i)
    BY <1>1, <1>b, <1>k DEF PhaseOf
  <1>5. /\ \A i \in S : Phases[i] = "open"
        /\ Phases' = [i \in Id |-> IF i \in S THEN "closed" ELSE Phases[i]]
    BY <1>k, <1>3, <1>4 DEF Phases
  <1>6. Serving' = Serving /\ Loss' = Loss
    BY <1>b DEF Serving, Loss
  <1>7. Promised!Close(S)
    BY <1>k, <1>2, <1>5, <1>6 DEF Promised!Close, Serving, Phases, Notes, Tolds, Lines, Loss
  <1> QED BY <1>7 DEF Promised!ContractNext

\* A terminal event is noted once for an intent that was closed, or writes were lost.
LEMMA EndLogRefines == ASSUME IntentInv, RevokeLog \/ SweepLog PROVE Promised!ContractNext
  <1>a. TypeOK /\ IdInv /\ WorkInv /\ EndInv
    BY DEF IntentInv
  <1>k. PICK k \in Id : k \in work /\ \E kind \in {"revoked", "expired"} : AppendEvent(kind, k)
    BY <1>a, EndLogFacts
  <1>l. PICK kind \in {"revoked", "expired"} : AppendEvent(kind, k)
    BY <1>k
  <1>b. /\ pc \in {"revokeLog", "sweepLog"} /\ pc' \in {"idle", "sweepLog"}
        /\ UNCHANGED <<store, handed, owner, envVars>>
    BY <1>a, EndLogFacts
  <1>1. CurrentStore' = CurrentStore /\ CurrentStore = store /\ Ending = work
    BY <1>b DEF CurrentStore, Ending
  <1>2. Phases' = Phases /\ Tolds' = Tolds
    BY <1>1, <1>b, SamePhases, SameTolds
  <1>3. Phases[k] = "closed"
    <2>1. k \in 1..Len(owner) /\ Len(owner) \in Nat /\ k \notin DOMAIN store
      BY <1>a, <1>b, <1>k, IntentConstants DEF TypeOK, IdInv, WorkInv
    <2> QED BY <1>1, <2>1 DEF Phases, PhaseOf
  <1>4. \A kinds, j : Times(kinds, j)' = IF j = k /\ kind \in kinds THEN Times(kinds, j) + 1 ELSE Times(kinds, j)
    <2>1. pc # "down" /\ pc' # "down" /\ kind \in {"created", "revoked", "expired"}
      BY <1>b
    <2> QED BY <1>a, <1>l, <2>1, OneMoreTime
  <1>5. Notes' = [Notes EXCEPT ![k].end = @ + 1]
    BY <1>4 DEF Notes
  <1>6. Notes[k].end = 0 \/ Loss
    <2>1. CASE ~Loss
      <3>1. Logged({"revoked", "expired"}, k) = {}
        BY <1>a, <1>k, <1>1, <2>1 DEF EndInv, Loss
      <3>2. Times({"revoked", "expired"}, k) = 0
        BY <3>1, FS_EmptySet DEF Times
      <3> QED BY <3>2 DEF Notes
    <2> QED BY <2>1
  <1>7. Serving /\ Serving' = Serving /\ Loss' = Loss
    BY <1>b DEF Serving, Loss, envVars
  <1>8. Promised!NoteEnd(k)
    BY <1>2, <1>3, <1>5, <1>6, <1>7 DEF Promised!NoteEnd, Serving, Phases, Notes, Tolds, Lines, Loss
  <1> QED BY <1>8 DEF Promised!ContractNext

\* A stop that finds everything saved is a clean one; any other loses at most what the
\* files lack: the ledger's file has no event the process did not have.
LEMMA StopRefines == ASSUME IntentInv, Stop PROVE Promised!ContractNext
  <1> USE StopFacts
  <1>a. TypeOK /\ LagInv
    BY DEF IntentInv
  <1>1. /\ CurrentStore = store /\ CurrentStore' = storeFile /\ CurrentLog = log /\ CurrentLog' = logFile
        /\ Tolds' = Tolds /\ Serving /\ Serving' = FALSE
    BY SameTolds DEF CurrentStore, CurrentLog, Serving
  <1>2. CASE store = storeFile /\ log = logFile
    <2>1. Phases' = Phases /\ Notes' = Notes
      BY <1>1, <1>2, SamePhases, SameNotes
    <2>2. Loss' = Loss
      BY <1>2 DEF Loss
    <2>3. Promised!Halt
      BY <1>1, <2>1, <2>2 DEF Promised!Halt, Serving, Phases, Notes, Tolds, Lines, Loss
    <2> QED BY <2>3 DEF Promised!ContractNext
  <1>3. CASE ~(store = storeFile /\ log = logFile)
    <2>1. Loss' = TRUE
      BY <1>3 DEF Loss
    <2>2. \A i \in Id : PhaseOf(i) = "none" <=> PhaseOf(i)' = "none"
      BY DEF PhaseOf
    <2>3. \A i \in Id : Phases[i] = "none" <=> Phases'[i] = "none"
      BY <2>2 DEF Phases
    <2>4. ASSUME NEW kinds, NEW i
          PROVE  Times(kinds, i)' <= Times(kinds, i)
      <3>1. Logged(kinds, i)' \subseteq Logged(kinds, i)
        BY <1>a, <1>1 DEF Logged, LagInv
      <3>2. IsFiniteSet(Logged(kinds, i))
        BY <1>a, LoggedFinite
      <3>3. Cardinality(Logged(kinds, i)') <= Cardinality(Logged(kinds, i))
        BY <3>1, <3>2, FS_Subset
      <3> QED BY <3>3 DEF Times
    <2>5. \A i \in Id : Notes'[i].opening <= Notes[i].opening /\ Notes'[i].end <= Notes[i].end
      <3>1. \A i \in Id : /\ Times({"created"}, i)' <= Times({"created"}, i)
                          /\ Times({"revoked", "expired"}, i)' <= Times({"revoked", "expired"}, i)
        BY <2>4
      <3> QED BY <3>1 DEF Notes
    <2>6. Promised!HaltWithLoss
      BY <1>1, <2>1, <2>3, <2>5 DEF Promised!HaltWithLoss, Serving, Phases, Notes, Tolds, Lines, Loss
    <2> QED BY <2>6 DEF Promised!ContractNext
  <1> QED BY <1>2, <1>3

\* The contract does not see the clock, the faults, nor a sweep that finds nothing.
LEMMA QuietRefines ==
    ASSUME pc' # "down" <=> pc # "down", UNCHANGED <<log, logFile, handed, owner, lostStore, lostLog>>,
           DOMAIN store' = DOMAIN store, DOMAIN storeFile' = DOMAIN storeFile
    PROVE  UNCHANGED Promised!contractVars
  <1>1. CurrentLog' = CurrentLog /\ DOMAIN CurrentStore' = DOMAIN CurrentStore
    BY DEF CurrentLog, CurrentStore
  <1>2. Phases' = Phases /\ Notes' = Notes /\ Tolds' = Tolds
    BY <1>1, SamePhases, SameNotes, SameTolds
  <1>3. Serving' = Serving /\ Loss' = Loss
    BY DEF Serving, Loss
  <1> QED BY <1>2, <1>3 DEF Promised!contractVars, Serving, Phases, Notes, Tolds, Lines, Loss

\* Every step of the intent store is a step of the contract or a stutter.
LEMMA StepRefines == IntentInv /\ [Next]_vars => [Promised!ContractNext]_(Promised!contractVars)
  <1> SUFFICES ASSUME IntentInv, [Next]_vars
               PROVE  Promised!ContractNext \/ UNCHANGED Promised!contractVars
    OBVIOUS
  <1>a. TypeOK
    BY DEF IntentInv
  <1>1. CASE Step
    <2>1. CASE Sweep /\ work' = {}
      <3>1. /\ pc' # "down" <=> pc # "down"
            /\ UNCHANGED <<store, storeFile, log, logFile, handed, owner, lostStore, lostLog>>
        BY <2>1, IdleSweep DEF envVars
      <3> QED BY <3>1, QuietRefines
    <2>2. CASE Sweep /\ work' # {}
      BY <2>2, EvictRefines
    <2> QED BY <1>1, <2>1, <2>2, CreateLogRefines, HandoffRefines, EndLogRefines DEF Step
  <1>2. CASE Boot \/ Stop
    BY <1>2, BootRefines, StopRefines
  <1>3. CASE Tick
    <2>1. /\ pc' = pc /\ UNCHANGED <<log, logFile, handed, owner, lostStore, lostLog>>
          /\ DOMAIN store' = DOMAIN store /\ DOMAIN storeFile' = DOMAIN storeFile
      BY <1>a, <1>3, TickFacts DEF envVars
    <2> QED BY <2>1, QuietRefines
  <1>4. CASE \E b \in Buyer : CreateIntent(b) \/ PurgeBuyer(b)
    BY <1>4, CreateRefines, PurgeRefines
  <1>5. CASE \E b \in Buyer, i \in Id : RevokeIntent(i, b)
    BY <1>5, EvictRefines
  <1>6. CASE \E f \in Files : FileFault(f)
    <2>1. pc' = pc /\ UNCHANGED <<store, storeFile, log, logFile, handed, owner, lostStore, lostLog>>
      BY <1>6 DEF FileFault, storeVars, logVars
    <2> QED BY <2>1, QuietRefines
  <1>7. CASE UNCHANGED vars
    <2>1. pc' = pc /\ UNCHANGED <<store, storeFile, log, logFile, handed, owner, lostStore, lostLog>>
      BY <1>7 DEF vars, storeVars, logVars, envVars
    <2> QED BY <2>1, QuietRefines
  <1> QED BY <1>1, <1>2, <1>3, <1>4, <1>5, <1>6, <1>7 DEF Next

\* The node implements the contract: with every durable write a step of its own, and through
\* restarts, erasures and failed writes, each intent opens and closes once, its terminal event
\* is noted after that and once unless a write was lost, and the publisher is told at most
\* once, after the opening was noted.
THEOREM ContractImplemented == Spec => ImplementsContract
  BY InitRefines, StepRefines, IntentAlways, PTL DEF Spec, ImplementsContract, Promised!Contract

=============================================================================
