--------------------------- MODULE IntentLifecycle ---------------------------
(***************************************************************************)
(* The life of a buying intent: create_intent, revoke_intent and the expiry*)
(* sweep (server.ts) over the intent store (intent/store.ts), the audit    *)
(* events they append and the handoff file (intent/handoff.ts); restarts,  *)
(* and the data-subject erasure that purges a buyer's intents while the    *)
(* node is stopped (dsr/toolkit.ts).                                       *)
(*                                                                         *)
(* A handler runs to its end without interleaving, but it writes two or    *)
(* three files, and the process can die between two of them, or a write    *)
(* can fail and the handler go on: each durable write is a step.  Times    *)
(* are relative: an intent keeps the time left to its expires_at.          *)
(***************************************************************************)
EXTENDS Integers, Sequences, FiniteSets

CONSTANTS
    Buyer,
    TTL,          \* DEFAULT_INTENT_TTL_MS
    PriceLife,    \* validity left of a firm price in a new deployment's pricing config
    SweepEvery,   \* INTENT_SWEEP_INTERVAL_MS
    MaxIntents,   \* bound: intents created
    MaxCrashes,   \* bound: stops of the process
    MaxFaults     \* bound: changes of a file between writable and unwritable

ASSUME IntentConstants ==
    /\ TTL \in Nat \ {0} /\ PriceLife \in Nat /\ SweepEvery \in Nat \ {0}
    /\ MaxIntents \in Nat /\ MaxCrashes \in Nat /\ MaxFaults \in Nat

VARIABLES
    pc,         \* the durable write that comes next
    work,       \* the intents whose event is still to be appended
    store,      \* IntentStore.byId of the running process: id -> time left
    storeFile,  \* intents.json
    log,        \* the intent events of the running process's ledger
    logFile,    \* those of ledger.json
    handed,     \* lines of the handoff file
    owner,      \* the buyer each intent was created for
    price,      \* validity left of the firm price
    sweepIn,    \* time left until the sweep timer fires
    writable, crashes, faults,
    lostStore,  \* history: a process ended with intents its file did not have
    lostLog,    \* history: a process ended with events its file did not have
    cut,        \* history: a process ended between the store's write and the event's
    purged      \* history: intents removed by an erasure

storeVars == <<store, storeFile>>
logVars == <<log, logFile>>
envVars == <<writable, faults, crashes, lostStore, lostLog, cut, purged>>
vars == <<pc, work, storeVars, logVars, handed, owner, price, sweepIn, envVars>>

-----------------------------------------------------------------------------
Id == 1..MaxIntents
Files == {"intents", "ledger", "handoff"}
Event == [kind: {"created", "revoked", "expired"}, id: Id]

NoIntents == [i \in {} |-> 0]
Without(s, ids) == [i \in DOMAIN s \ ids |-> s[i]]
Least(S) == CHOOSE i \in S : \A j \in S : i <= j

\* Date.parse(expires_at) <= now.
Lapsed(s) == {i \in DOMAIN s : s[i] = 0}

\* IntentStore.save: atomic, and a failure is only reported.
SaveStore(s) ==
    /\ store' = s
    /\ storeFile' = IF "intents" \in writable THEN s ELSE storeFile

\* AuditLedger.append, seen from here: the event is in memory, and in the file if it can be.
AppendEvent(kind, i) ==
    /\ log' = Append(log, [kind |-> kind, id |-> i])
    /\ logFile' = IF "ledger" \in writable THEN log' ELSE logFile

\* FileHandoffSink.emit: one line at the end of the file; the caller swallows a failure.
Emit(i) == handed' = IF "handoff" \in writable THEN Append(handed, i) ELSE handed

\* PricingStore.priceFor: a firm price is offered until its valid_until.
HasFirmPrice == price > 0

Init ==
    /\ pc = "down" /\ work = {}
    /\ store = NoIntents /\ storeFile = NoIntents
    /\ log = <<>> /\ logFile = <<>> /\ handed = <<>> /\ owner = <<>>
    /\ price = 0 /\ sweepIn = 0
    /\ writable = Files /\ faults = 0 /\ crashes = 0
    /\ lostStore = FALSE /\ lostLog = FALSE /\ cut = FALSE /\ purged = {}

-----------------------------------------------------------------------------
\* Mutant: only the price bounds the intent's life.
ExpiryOfPrice == price

\* The intent never outlives the firm price it pins.
Expiry == IF TTL < price THEN TTL ELSE price

\* create_intent past the guards: a current firm price, then the store's write ...
CreateIntent(b) ==
    /\ pc = "idle" /\ Len(owner) < MaxIntents
    /\ HasFirmPrice
    /\ LET i == Len(owner) + 1 IN
          /\ owner' = Append(owner, b)
          /\ SaveStore([j \in DOMAIN store \cup {i} |-> IF j = i THEN Expiry ELSE store[j]])
          /\ work' = {i}
    /\ pc' = "createLog"
    /\ UNCHANGED <<logVars, handed, price, sweepIn, envVars>>

\* Mutant: the intent is handed over before it is recorded.
CreateLogAfterHandoff ==
    /\ pc = "createLog"
    /\ Emit(Least(work))
    /\ pc' = "handoff"
    /\ UNCHANGED <<work, storeVars, logVars, owner, price, sweepIn, envVars>>

\* ... INTENT_CREATED ...
CreateLog ==
    /\ pc = "createLog"
    /\ AppendEvent("created", Least(work))
    /\ pc' = "handoff"
    /\ UNCHANGED <<work, storeVars, handed, owner, price, sweepIn, envVars>>

\* ... and the handoff line; its failure does not fail the request.
Handoff ==
    /\ pc = "handoff"
    /\ Emit(Least(work))
    /\ work' = {} /\ pc' = "idle"
    /\ UNCHANGED <<storeVars, logVars, owner, price, sweepIn, envVars>>

\* IntentStore.revoke: the buyer's own, held and not lapsed.
MayRevoke(i, b) == i \in DOMAIN store /\ owner[i] = b /\ store[i] > 0

\* revoke_intent past the guards: evict, then INTENT_REVOKED.
RevokeIntent(i, b) ==
    /\ pc = "idle" /\ MayRevoke(i, b)
    /\ SaveStore(Without(store, {i}))
    /\ work' = {i} /\ pc' = "revokeLog"
    /\ UNCHANGED <<logVars, handed, owner, price, sweepIn, envVars>>

RevokeLog ==
    /\ pc = "revokeLog"
    /\ AppendEvent("revoked", Least(work))
    /\ work' = {} /\ pc' = "idle"
    /\ UNCHANGED <<storeVars, handed, owner, price, sweepIn, envVars>>

\* sweepExpiredIntents, at boot and on its timer: evict every lapsed intent, save once ...
Sweep ==
    /\ \/ pc = "sweep"
       \/ pc = "idle" /\ sweepIn = 0
    /\ sweepIn' = SweepEvery
    /\ work' = Lapsed(store)
    /\ IF work' = {} THEN UNCHANGED storeVars ELSE SaveStore(Without(store, work'))
    /\ pc' = IF work' = {} THEN "idle" ELSE "sweepLog"
    /\ UNCHANGED <<logVars, handed, owner, price, envVars>>

\* Mutant: only the first lapsed intent gets its event.
SweepLogOnce ==
    /\ pc = "sweepLog"
    /\ AppendEvent("expired", Least(work))
    /\ work' = {} /\ pc' = "idle"
    /\ UNCHANGED <<storeVars, handed, owner, price, sweepIn, envVars>>

\* ... then one INTENT_EXPIRED for each.
SweepLog ==
    /\ pc = "sweepLog"
    /\ AppendEvent("expired", Least(work))
    /\ work' = work \ {Least(work)}
    /\ pc' = IF work' = {} THEN "idle" ELSE "sweepLog"
    /\ UNCHANGED <<storeVars, handed, owner, price, sweepIn, envVars>>

-----------------------------------------------------------------------------
\* Mutant: intents that lapsed while the node was down are not loaded.
BootDropsLapsed ==
    /\ pc = "down"
    /\ pc' = "sweep"
    /\ store' = Without(storeFile, Lapsed(storeFile)) /\ log' = logFile
    /\ price' = PriceLife
    /\ UNCHANGED <<work, storeFile, logFile, handed, owner, sweepIn, envVars>>

\* main(): lapsed intents are loaded as they are, for the boot sweep to expire.
Boot ==
    /\ pc = "down"
    /\ pc' = "sweep"
    /\ store' = storeFile /\ log' = logFile
    /\ price' = PriceLife
    /\ UNCHANGED <<work, storeFile, logFile, handed, owner, sweepIn, envVars>>

Stop ==
    /\ pc # "down" /\ crashes < MaxCrashes /\ crashes' = crashes + 1
    /\ pc' = "down" /\ work' = {} /\ store' = NoIntents /\ log' = <<>>
    /\ price' = 0 /\ sweepIn' = 0
    /\ lostStore' = (lostStore \/ store # storeFile)
    /\ lostLog' = (lostLog \/ log # logFile)
    /\ cut' = (cut \/ pc \in {"createLog", "revokeLog", "sweepLog"})
    /\ UNCHANGED <<storeFile, logFile, handed, owner, writable, faults, purged>>

\* dsr suppress, on the stopped node: every intent of the buyer leaves the file, without an
\* event.  A failed save changes nothing, though the command counts them as purged.
PurgeBuyer(b) ==
    /\ pc = "down"
    /\ LET ids == {i \in DOMAIN storeFile : owner[i] = b} IN
          /\ ids # {}
          /\ "intents" \in writable
          /\ storeFile' = Without(storeFile, ids)
          /\ purged' = purged \cup ids
    /\ UNCHANGED <<pc, work, store, logVars, handed, owner, price, sweepIn,
                   writable, faults, crashes, lostStore, lostLog, cut>>

FileFault(f) ==
    /\ faults < MaxFaults /\ faults' = faults + 1
    /\ writable' = IF f \in writable THEN writable \ {f} ELSE writable \cup {f}
    /\ UNCHANGED <<pc, work, storeVars, logVars, handed, owner, price, sweepIn,
                   crashes, lostStore, lostLog, cut, purged>>

Less(n) == IF n = 0 THEN 0 ELSE n - 1

Tick ==
    /\ pc = "down" \/ (pc = "idle" /\ sweepIn > 0)
    /\ store' = [i \in DOMAIN store |-> Less(store[i])]
    /\ storeFile' = [i \in DOMAIN storeFile |-> Less(storeFile[i])]
    /\ price' = Less(price) /\ sweepIn' = Less(sweepIn)
    /\ UNCHANGED <<pc, work, logVars, handed, owner, envVars>>

\* What the running process does by itself.
Step == CreateLog \/ Handoff \/ RevokeLog \/ Sweep \/ SweepLog

Next ==
    \/ Step \/ Boot \/ Stop \/ Tick
    \/ \E b \in Buyer : CreateIntent(b) \/ PurgeBuyer(b)
    \/ \E b \in Buyer, i \in Id : RevokeIntent(i, b)
    \/ \E f \in Files : FileFault(f)

Spec == Init /\ [][Next]_vars

\* A stopped node is started again (docker-compose.yml, restart: unless-stopped), the clock
\* runs, and the event loop gets to the steps and timers of a running one.
FairSpec == Spec /\ WF_vars(Step) /\ WF_vars(Boot) /\ WF_vars(Tick)

-----------------------------------------------------------------------------
IsStore(s) == DOMAIN s \subseteq 1..Len(owner) /\ \A i \in DOMAIN s : s[i] \in 0..TTL

\* Type correctness of the store, its file, the events and what is kept beside them.
TypeOK ==
    /\ pc \in {"down", "idle", "createLog", "handoff", "revokeLog", "sweep", "sweepLog"}
    /\ work \subseteq 1..Len(owner) /\ (work = {}) = (pc \in {"down", "idle", "sweep"})
    /\ IsStore(store) /\ IsStore(storeFile)
    /\ log \in Seq(Event) /\ logFile \in Seq(Event)
    /\ handed \in Seq(Id) /\ owner \in Seq(Buyer)
    /\ price \in 0..PriceLife /\ sweepIn \in 0..SweepEvery
    /\ writable \subseteq Files /\ crashes \in Nat /\ faults \in Nat
    /\ lostStore \in BOOLEAN /\ lostLog \in BOOLEAN /\ cut \in BOOLEAN /\ purged \subseteq Id

CurrentLog == IF pc = "down" THEN logFile ELSE log
CurrentStore == IF pc = "down" THEN storeFile ELSE store

Logged(kinds, i) == {n \in DOMAIN CurrentLog : CurrentLog[n].id = i /\ CurrentLog[n].kind \in kinds}
Created == {i \in Id : Logged({"created"}, i) # {}}
Ended == {i \in Id : Logged({"revoked", "expired"}, i) # {}}

(* The contract, seen through the current store and ledger: the process's own, and the
   files' while none runs. *)
Times(kinds, i) == Cardinality(Logged(kinds, i))
PhaseOf(i) == IF i > Len(owner) THEN "none" ELSE IF i \in DOMAIN CurrentStore THEN "open" ELSE "closed"

Promised == INSTANCE IntentContract WITH
    serving <- pc # "down",
    phase <- [i \in Id |-> PhaseOf(i)],
    noted <- [i \in Id |-> [opening |-> Times({"created"}, i), end |-> Times({"revoked", "expired"}, i)]],
    told <- [i \in Id |-> Cardinality({n \in DOMAIN handed : handed[n] = i})],
    loss <- lostStore \/ lostLog

\* The node implements the contract: through revokes, sweeps, erasures and restarts, and with
\* every durable write a step of its own, an intent opens and closes once, its terminal event
\* "fires exactly once" (store.ts, sweepExpired) and after the store let go of it, and it is
\* handed over once, when "the ledger already holds the record of record" (server.ts 505-509).
ImplementsContract == Promised!Contract

\* The two records agree: between two handlers of a running node, the store holds exactly
\* the intents the ledger has created and not ended, erased ones aside, unless a write was
\* lost or the process died between the two writes of a handler.
StoreMatchesLedger ==
    (pc = "idle" /\ ~lostStore /\ ~lostLog /\ ~cut) =>
        DOMAIN store = (Created \ Ended) \ purged

\* Every recorded commitment ends in the record: an INTENT_CREATED is followed by its
\* terminal event, across restarts and however long the node was down, unless the buyer
\* was erased, a write was lost or the process died between the two writes of a handler.
EventuallyEnds ==
    \A i \in Id : (i \in Created) ~> (i \in Ended \cup purged \/ lostStore \/ lostLog \/ cut)

\* store.ts 160-162 and server.ts 807-811: "the ledger must not end with a dangling
\* INTENT_CREATED and no terminal event".  So with every write saved, an intent that the
\* ledger has created and not ended is still in the store, where a sweep will find it.
NoDanglingCreated ==
    (pc = "idle" /\ ~lostStore /\ ~lostLog) => Created \ Ended \subseteq DOMAIN store \cup purged

=============================================================================
