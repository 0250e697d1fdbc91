-------------------------- MODULE BuyerRightsProofs --------------------------
(***************************************************************************)
(* Theorems about data-subject rights, for every set of buyers and every   *)
(* number of redeployments, commands, keys and faults: type correctness,   *)
(* the erasure, its order and what it forgets, the restriction, and the    *)
(* pseudonyms.                                                             *)
(***************************************************************************)
EXTENDS BuyerRights, FiniteSetTheorems, TLAPS

Overlay == [legacy: BOOLEAN, suppressed: SUBSET Mark, restricted: SUBSET Buyer]
Store == [index: SUBSET Buyer, suspended: SUBSET Buyer, erased: SUBSET Mark]

\* A legacy overlay names its buyers in clear, a current one by their hash, hashed once.
GoodMarks(o) == o \in Overlay /\ \A m \in o.suppressed : m.times = IF o.legacy THEN 0 ELSE 1

\* The overlay has every erasure; one that is not to be migrated has no restriction of an
\* erased buyer but a later one; and of a restricted buyer that no config has left out it
\* has the restriction, of a grant that can be suspended, or an erasure.
Records(o, cfg, eb, rb, dr) ==
    /\ GoodMarks(o)
    /\ \A b \in eb : HashBuyerId(b) \in ErasedIn(o)
    /\ ~MustMigrate(o) => \A b \in eb : b \in o.restricted => b \in rb
    /\ \A b \in rb \ dr : HashBuyerId(b) \in ErasedIn(o) \/ (b \in o.restricted /\ b \in cfg)

\* The running process has what the overlay and the config say, and has migrated a legacy overlay.
StoreInv ==
    /\ pc \in {"down", "up", "purge", "shred"} /\ who \in Buyer /\ config \in SUBSET Buyer
    /\ erasedBy \in SUBSET Buyer /\ restrictedBy \in SUBSET Buyer /\ dropped \in SUBSET Buyer
    /\ Records(overlay, config, erasedBy, restrictedBy, dropped)
    /\ st \in Store /\ (pc = "up" => st = Loaded(overlay, config) /\ ~MustMigrate(overlay))

\* A key is destroyed last: by then the buyer is erased and its intents are purged, in the
\* file, or their purge was lost; and an erased buyer makes no intent.
IntentInv ==
    /\ intents \in SUBSET Buyer /\ intentFile \in SUBSET Buyer
    /\ shredded \in SUBSET Buyer /\ lostPurge \in SUBSET Buyer
    /\ pc # "up" => intents = {}
    /\ shredded \subseteq erasedBy
    /\ \A b \in shredded : b \in intents \cup intentFile => b \in lostPurge
    /\ pc \in {"purge", "shred"} => who \in erasedBy
    /\ pc = "shred" => (who \in intentFile => who \in lostPurge)

\* The keys that a process uses next: its own, or the file's.
Current == IF pc = "up" THEN keys ELSE keyFile

KeyTypes ==
    /\ IsKeys(keys) /\ IsKeys(keyFile) /\ issuedKeys \in 0..MaxKeys /\ lostKeys \in BOOLEAN
    /\ used \in [Buyer -> SUBSET (1..issuedKeys)] /\ retired \in [Buyer -> SUBSET (1..issuedKeys)]
    /\ pc # "up" => keys = NoKeys

\* A key in use and not retired is the buyer's current one.
OneKey == ~lostKeys => \A b \in Buyer : \A k \in used[b] \ retired[b] : b \in DOMAIN Current /\ Current[b] = k

KeyInv == KeyTypes /\ Unlinkable /\ OneKey

BoundInv == writable \in SUBSET Files /\ deploys \in Nat /\ commands \in Nat /\ faults \in Nat

RightsInv == StoreInv /\ IntentInv /\ KeyInv /\ BoundInv

-----------------------------------------------------------------------------
(* Marks, and what loading and persisting do to them. *)

\* A hashed id is hashed once, and is no raw id.
LEMMA HashFacts ==
    \A b \in Buyer : /\ HashBuyerId(b) = [buyer |-> b, times |-> 1] /\ HashBuyerId(b) \in Mark
                     /\ HashBuyerId(b).times = 1 /\ Raw(b).times = 0 /\ Raw(b) \in Mark
                     /\ HashBuyerId(b).buyer = b
  BY DEF HashBuyerId, Hashed, Raw, Mark

\* What enforcement looks for is hashed exactly once, whatever the overlay's age.
LEMMA ErasedFacts ==
    ASSUME NEW o, GoodMarks(o)
    PROVE  ErasedIn(o) \subseteq Mark /\ \A m \in ErasedIn(o) : m.times = 1
  <1>1. CASE o.legacy
    <2>1. ErasedIn(o) = {Hashed(m) : m \in o.suppressed}
      BY <1>1 DEF ErasedIn
    <2>2. \A m \in o.suppressed : m \in Mark /\ m.times = 0
      BY <1>1 DEF GoodMarks, Overlay
    <2>3. \A m \in Mark : m.times = 0 => Hashed(m) \in Mark /\ Hashed(m).times = 1
      BY DEF Mark, Hashed
    <2> QED BY <2>1, <2>2, <2>3
  <1>2. CASE ~o.legacy
    BY <1>2 DEF GoodMarks, Overlay, ErasedIn
  <1> QED BY <1>1, <1>2

\* What the store is after load() read a good overlay under a configuration: the marks in
\* force, and the index without the suspended buyers.
LEMMA LoadedFacts ==
    ASSUME NEW o, GoodMarks(o), NEW cfg \in SUBSET Buyer
    PROVE  /\ Loaded(o, cfg) \in Store
           /\ Loaded(o, cfg).erased = ErasedIn(o)
           /\ Loaded(o, cfg).suspended = SuspendedIn(o, cfg)
           /\ Loaded(o, cfg).index = cfg \ SuspendedIn(o, cfg)
           /\ SuspendedIn(o, cfg) \subseteq o.restricted \cap cfg
           /\ \A b \in SuspendedIn(o, cfg) : HashBuyerId(b) \notin ErasedIn(o)
           /\ \A b \in o.restricted \cap cfg : HashBuyerId(b) \in ErasedIn(o) \/ b \in SuspendedIn(o, cfg)
  <1>1. SuspendedIn(o, cfg) \subseteq o.restricted \cap cfg
    BY DEF SuspendedIn
  <1>2. /\ \A b \in SuspendedIn(o, cfg) : HashBuyerId(b) \notin ErasedIn(o)
        /\ \A b \in o.restricted \cap cfg : HashBuyerId(b) \in ErasedIn(o) \/ b \in SuspendedIn(o, cfg)
    BY DEF SuspendedIn
  <1>3. ErasedIn(o) \in SUBSET Mark /\ SuspendedIn(o, cfg) \in SUBSET Buyer /\ cfg \ SuspendedIn(o, cfg) \in SUBSET Buyer
    BY <1>1, ErasedFacts
  <1>4. Loaded(o, cfg) \in Store
    BY <1>3 DEF Loaded, Store
  <1> QED BY <1>1, <1>2, <1>4 DEF Loaded

\* What persist() writes is a good overlay with the marks of the store, and needs no migration.
LEMMA PersistedFacts ==
    ASSUME NEW S \in Store, \A m \in S.erased : m.times = 1
    PROVE  /\ GoodMarks(Persisted(S)) /\ ErasedIn(Persisted(S)) = S.erased
           /\ Persisted(S).restricted = S.suspended /\ ~MustMigrate(Persisted(S))
           /\ Persisted(S).legacy = FALSE
  <1>1. /\ Persisted(S).legacy = FALSE /\ Persisted(S).suppressed = S.erased
        /\ Persisted(S).restricted = S.suspended
    BY DEF Persisted
  <1>2. Persisted(S) \in Overlay
    BY DEF Persisted, Overlay, Store
  <1> QED BY <1>1, <1>2 DEF GoodMarks, ErasedIn, MustMigrate

\* A store with the erasures of the overlay and more, and its restrictions but for erased
\* buyers, records as much when it is written.
LEMMA PersistKeeps ==
    ASSUME NEW S \in Store, \A m \in S.erased : m.times = 1,
           NEW cfg, NEW eb, NEW rb, NEW dr,
           \A b \in eb : HashBuyerId(b) \in S.erased,
           \A b \in eb : b \in S.suspended => b \in rb,
           \A b \in rb \ dr : HashBuyerId(b) \in S.erased \/ (b \in S.suspended /\ b \in cfg)
    PROVE  Records(Persisted(S), cfg, eb, rb, dr)
  BY PersistedFacts DEF Records

\* The constructor's migration keeps what the overlay records and what a process loads.
LEMMA MigratedFacts ==
    ASSUME StoreInv
    PROVE  /\ Records(Migrated, config, erasedBy, restrictedBy, dropped)
           /\ ~MustMigrate(Migrated)
           /\ Loaded(Migrated, config) = Loaded(overlay, config)
           /\ ErasedIn(Migrated) = ErasedIn(overlay)
  <1> DEFINE S == Loaded(overlay, config)
  <1>0. GoodMarks(overlay) /\ config \in SUBSET Buyer /\ Records(overlay, config, erasedBy, restrictedBy, dropped)
    BY DEF StoreInv, Records
  <1>1. CASE ~MustMigrate(overlay)
    BY <1>0, <1>1 DEF Migrated
  <1>2. CASE MustMigrate(overlay)
    <2>1. Migrated = Persisted(S)
      BY <1>2 DEF Migrated
    <2>2. S \in Store /\ \A m \in S.erased : m.times = 1
      BY <1>0, LoadedFacts, ErasedFacts
    <2>3. /\ S.erased = ErasedIn(overlay) /\ S.suspended = SuspendedIn(overlay, config)
          /\ SuspendedIn(overlay, config) \subseteq overlay.restricted \cap config
          /\ \A b \in SuspendedIn(overlay, config) : HashBuyerId(b) \notin ErasedIn(overlay)
          /\ \A b \in overlay.restricted \cap config :
                HashBuyerId(b) \in ErasedIn(overlay) \/ b \in SuspendedIn(overlay, config)
      BY <1>0, LoadedFacts
    <2> HIDE DEF S
    <2>4. Records(Persisted(S), config, erasedBy, restrictedBy, dropped)
      <3>1. \A b \in erasedBy : HashBuyerId(b) \in S.erased
        BY <1>0, <2>3 DEF Records
      <3>2. \A b \in erasedBy : b \notin S.suspended
        BY <3>1, <2>3
      <3>3. \A b \in restrictedBy \ dropped : HashBuyerId(b) \in S.erased \/ (b \in S.suspended /\ b \in config)
        BY <1>0, <2>3 DEF Records
      <3> QED BY <2>2, <3>1, <3>2, <3>3, PersistKeeps
    <2>5. ErasedIn(Persisted(S)) = ErasedIn(overlay) /\ ~MustMigrate(Persisted(S)) /\ Persisted(S).restricted = S.suspended
      BY <2>2, <2>3, PersistedFacts
    <2>6. SuspendedIn(Persisted(S), config) = SuspendedIn(overlay, config)
      <3>1. SuspendedIn(Persisted(S), config) = {b \in S.suspended \cap config : HashBuyerId(b) \notin ErasedIn(overlay)}
        BY <2>5 DEF SuspendedIn
      <3> QED BY <3>1, <2>3
    <2>7. Loaded(Persisted(S), config) = Loaded(overlay, config)
      BY <2>5, <2>6 DEF Loaded
    <2> QED BY <2>1, <2>4, <2>5, <2>7
  <1> QED BY <1>1, <1>2

-----------------------------------------------------------------------------
\* A new deployment satisfies the invariant.
LEMMA RightsInit == Init => RightsInv
  <1> SUFFICES ASSUME Init PROVE RightsInv
    OBVIOUS
  <1>1. StoreInv
    <2>1. PICK S \in SUBSET Buyer, R \in SUBSET Buyer :
             /\ overlay = [legacy |-> TRUE, suppressed |-> {Raw(b) : b \in S}, restricted |-> R]
             /\ erasedBy = S /\ restrictedBy = R \ S
             /\ dropped = (R \ S) \ config
      BY DEF Init
    <2>2. overlay.legacy = TRUE /\ overlay.suppressed = {Raw(b) : b \in S} /\ overlay.restricted = R
      BY <2>1
    <2>3. overlay \in Overlay
      <3>1. {Raw(b) : b \in S} \in SUBSET Mark
        BY HashFacts
      <3> QED BY <2>1, <3>1 DEF Overlay
    <2>4. \A m \in overlay.suppressed : m.times = 0
      BY <2>2, HashFacts
    <2>5. GoodMarks(overlay)
      BY <2>2, <2>3, <2>4 DEF GoodMarks
    <2>6. \A b \in erasedBy : HashBuyerId(b) \in ErasedIn(overlay)
      BY <2>1, <2>2 DEF ErasedIn, HashBuyerId
    <2>7. ~MustMigrate(overlay) => erasedBy = {}
      BY <2>1, <2>2 DEF MustMigrate
    <2>8. Records(overlay, config, erasedBy, restrictedBy, dropped)
      BY <2>1, <2>2, <2>5, <2>6, <2>7 DEF Records
    <2>9. st \in Store
      BY DEF Init, Nobody, Store
    <2>10. erasedBy \in SUBSET Buyer /\ restrictedBy \in SUBSET Buyer /\ dropped \in SUBSET Buyer
      BY <2>1
    <2> QED BY <2>8, <2>9, <2>10 DEF Init, StoreInv
  <1>2. IntentInv
    BY DEF Init, IntentInv
  <1>3. KeyInv
    <2>1. DOMAIN NoKeys = {}
      BY DEF NoKeys
    <2>2. IsKeys(keys) /\ IsKeys(keyFile) /\ keys = NoKeys /\ keyFile = NoKeys
      BY <2>1 DEF Init, IsKeys
    <2>3. used \in [Buyer -> SUBSET (1..issuedKeys)] /\ retired \in [Buyer -> SUBSET (1..issuedKeys)]
      BY DEF Init
    <2>4. issuedKeys \in 0..MaxKeys
      BY RightsConstants DEF Init
    <2>5. lostKeys \in BOOLEAN
      BY Zenon DEF Init
    <2>6. Unlinkable /\ OneKey
      BY <2>1, <2>2 DEF Init, Unlinkable, OneKey
    <2> QED BY <2>2, <2>3, <2>4, <2>5, <2>6 DEF KeyInv, KeyTypes
  <1>4. BoundInv
    BY DEF Init, BoundInv
  <1> QED BY <1>1, <1>2, <1>3, <1>4 DEF RightsInv

\* What a command of the stopped node loads.
LEMMA CommandStore ==
    ASSUME StoreInv
    PROVE  LET S == Loaded(overlay, config) IN
           /\ S \in Store /\ (\A m \in S.erased : m.times = 1)
           /\ S.index \subseteq config /\ S.suspended \subseteq config
           /\ \A b \in erasedBy : HashBuyerId(b) \in S.erased /\ b \notin S.suspended
           /\ \A b \in restrictedBy \ dropped : HashBuyerId(b) \in S.erased \/ b \in S.suspended
  <1>1. GoodMarks(overlay) /\ config \in SUBSET Buyer /\ Records(overlay, config, erasedBy, restrictedBy, dropped)
    BY DEF StoreInv, Records
  <1> DEFINE S == Loaded(overlay, config)
  <1>2. /\ S \in Store /\ S.erased = ErasedIn(overlay) /\ S.suspended = SuspendedIn(overlay, config)
        /\ S.index = config \ SuspendedIn(overlay, config)
        /\ SuspendedIn(overlay, config) \subseteq overlay.restricted \cap config
        /\ \A b \in SuspendedIn(overlay, config) : HashBuyerId(b) \notin ErasedIn(overlay)
        /\ \A b \in overlay.restricted \cap config :
              HashBuyerId(b) \in ErasedIn(overlay) \/ b \in SuspendedIn(overlay, config)
    BY <1>1, LoadedFacts
  <1>3. \A m \in S.erased : m.times = 1
    BY <1>1, <1>2, ErasedFacts
  <1> HIDE DEF S
  <1>4. \A b \in erasedBy : HashBuyerId(b) \in S.erased /\ b \notin S.suspended
    BY <1>1, <1>2 DEF Records
  <1>5. \A b \in restrictedBy \ dropped : HashBuyerId(b) \in S.erased \/ b \in S.suspended
    BY <1>1, <1>2 DEF Records
  <1>6. S.index \subseteq config /\ S.suspended \subseteq config
    BY <1>2
  <1> QED BY <1>2, <1>3, <1>4, <1>5, <1>6 DEF S

\* Every step keeps the store, the overlay and the record of requests in agreement.
LEMMA StoreStep == StoreInv /\ [Next]_vars => StoreInv'
  <1> SUFFICES ASSUME StoreInv, [Next]_vars PROVE StoreInv'
    OBVIOUS
  <1> DEFINE S == Loaded(overlay, config)
  <1>0. /\ S \in Store /\ (\A m \in S.erased : m.times = 1)
        /\ S.index \subseteq config /\ S.suspended \subseteq config
        /\ \A b \in erasedBy : HashBuyerId(b) \in S.erased /\ b \notin S.suspended
        /\ \A b \in restrictedBy \ dropped : HashBuyerId(b) \in S.erased \/ b \in S.suspended
    BY CommandStore
  <1>n. Nobody \in Store
    BY DEF Nobody, Store
  <1>m. /\ Records(Migrated, config, erasedBy, restrictedBy, dropped) /\ ~MustMigrate(Migrated)
        /\ Loaded(Migrated, config) = S
    BY MigratedFacts
  <1>t. config \in SUBSET Buyer /\ erasedBy \in SUBSET Buyer /\ restrictedBy \in SUBSET Buyer
        /\ dropped \in SUBSET Buyer
    BY DEF StoreInv
  <1> HIDE DEF S
  <1>1. ASSUME UNCHANGED <<pc, who, config, st, overlay, erasedBy, restrictedBy, dropped>> PROVE StoreInv'
    BY <1>1 DEF StoreInv
  <1>2. CASE UNCHANGED vars
    BY <1>1, <1>2 DEF vars, memVars, fileVars, historyVars
  <1>3. CASE Boot
    <2>1. /\ pc' = "up" /\ st' = S /\ overlay' = Migrated /\ UNCHANGED <<who, config, erasedBy, restrictedBy, dropped>>
      BY <1>3 DEF Boot, historyVars, S
    <2> QED BY <2>1, <1>0, <1>m DEF StoreInv
  <1>4. CASE Stop \/ StopInKeySave
    <2>1. /\ pc' = "down" /\ st' = Nobody /\ UNCHANGED <<who, config, overlay, erasedBy, restrictedBy, dropped>>
      BY <1>4 DEF Stop, StopInKeySave, fileVars
    <2> QED BY <2>1, <1>n DEF StoreInv
  <1>5. CASE PurgeIntents \/ Shred
    <2>1. /\ pc # "up" /\ pc' \in {"down", "shred"}
          /\ UNCHANGED <<who, config, st, overlay, erasedBy, restrictedBy, dropped>>
      BY <1>5 DEF PurgeIntents, Shred, memVars
    <2> QED BY <2>1 DEF StoreInv
  <1>6. ASSUME NEW cfg \in SUBSET Buyer, Deploy(cfg) PROVE StoreInv'
    <2>1. /\ pc = "down" /\ config' = cfg /\ dropped' = dropped \cup (restrictedBy \ cfg)
          /\ UNCHANGED <<pc, who, st, overlay, erasedBy, restrictedBy>>
      BY <1>6 DEF Deploy, memVars, fileVars
    <2>2. Records(overlay, cfg, erasedBy, restrictedBy, dropped')
      BY <2>1 DEF StoreInv, Records
    <2> QED BY <2>1, <2>2, <1>t DEF StoreInv
  <1>7. ASSUME NEW b \in Buyer, ShredInactive(b) \/ Request(b) PROVE StoreInv'
    BY <1>1, <1>7 DEF ShredInactive, Request, historyVars
  <1>8. ASSUME NEW f \in Files, FileFault(f) PROVE StoreInv'
    BY <1>1, <1>8 DEF FileFault, memVars, fileVars, historyVars
  <1>9. ASSUME pc = "down", UNCHANGED <<pc, who, config, st>>,
               erasedBy' \in SUBSET Buyer, restrictedBy' \in SUBSET Buyer, dropped' \in SUBSET Buyer,
               Records(overlay', config, erasedBy', restrictedBy', dropped')
        PROVE  StoreInv'
    BY <1>9 DEF StoreInv
  <1>10. ASSUME NEW b \in Buyer, Export(b) PROVE StoreInv'
    <2>1. pc = "down" /\ overlay' = Migrated /\ UNCHANGED <<pc, who, config, st, erasedBy, restrictedBy, dropped>>
      BY <1>10 DEF Export, Command, memVars, historyVars
    <2> QED BY <2>1, <1>9, <1>m, <1>t
  <1>11. ASSUME NEW b \in Buyer, RestrictBuyer(b) PROVE StoreInv'
    <2>1. pc = "down" /\ UNCHANGED <<pc, who, config, st, erasedBy>>
      BY <1>11 DEF RestrictBuyer, Command, memVars
    <2>2. CASE b \in S.index /\ "overlay" \in writable
      <3> DEFINE T == [S EXCEPT !.index = @ \ {b}, !.suspended = @ \cup {b}]
      <3>1. overlay' = Persisted(T) /\ restrictedBy' = restrictedBy \cup {b} /\ dropped' = dropped \ {b}
        BY <1>11, <2>2 DEF RestrictBuyer, S
      <3>2. T \in Store /\ T.erased = S.erased /\ T.suspended = S.suspended \cup {b}
        BY <1>0 DEF Store
      <3> HIDE DEF T
      <3>3. Records(Persisted(T), config, erasedBy, restrictedBy', dropped')
        <4>1. \A m \in T.erased : m.times = 1
          BY <3>2, <1>0
        <4>2. \A c \in erasedBy : HashBuyerId(c) \in T.erased /\ (c \in T.suspended => c \in restrictedBy')
          BY <3>1, <3>2, <1>0
        <4>3. \A c \in restrictedBy' \ dropped' :
                  HashBuyerId(c) \in T.erased \/ (c \in T.suspended /\ c \in config)
          BY <3>1, <3>2, <1>0, <2>2
        <4> QED BY <3>2, <4>1, <4>2, <4>3, PersistKeeps
      <3> QED BY <1>9, <1>t, <2>1, <3>1, <3>3
    <2>3. CASE ~(b \in S.index /\ "overlay" \in writable)
      <3>1. overlay' = Migrated /\ UNCHANGED <<restrictedBy, dropped>>
        BY <1>11, <2>3 DEF RestrictBuyer, S
      <3> QED BY <1>9, <1>m, <1>t, <2>1, <3>1
    <2> QED BY <2>2, <2>3
  <1>12. ASSUME NEW b \in Buyer, UnrestrictBuyer(b) PROVE StoreInv'
    <2>1. pc = "down" /\ UNCHANGED <<pc, who, config, st, erasedBy, dropped>>
      BY <1>12 DEF UnrestrictBuyer, Command, memVars
    <2>2. CASE b \in S.suspended /\ "overlay" \in writable
      <3> DEFINE T == [S EXCEPT !.index = @ \cup {b}, !.suspended = @ \ {b}]
      <3>1. overlay' = Persisted(T) /\ restrictedBy' = restrictedBy \ {b}
        BY <1>12, <2>2 DEF UnrestrictBuyer, S
      <3>2. T \in Store /\ T.erased = S.erased /\ T.suspended = S.suspended \ {b}
        BY <1>0 DEF Store
      <3> HIDE DEF T
      <3>3. Records(Persisted(T), config, erasedBy, restrictedBy', dropped)
        <4>1. \A m \in T.erased : m.times = 1
          BY <3>2, <1>0
        <4>2. \A c \in erasedBy : HashBuyerId(c) \in T.erased /\ (c \in T.suspended => c \in restrictedBy')
          BY <3>2, <1>0
        <4>3. \A c \in restrictedBy' \ dropped :
                  HashBuyerId(c) \in T.erased \/ (c \in T.suspended /\ c \in config)
          BY <3>1, <3>2, <1>0
        <4> QED BY <3>2, <4>1, <4>2, <4>3, PersistKeeps
      <3> QED BY <1>9, <1>t, <2>1, <3>1, <3>3
    <2>3. CASE ~(b \in S.suspended /\ "overlay" \in writable)
      <3>1. overlay' = Migrated /\ UNCHANGED restrictedBy
        BY <1>12, <2>3 DEF UnrestrictBuyer, S
      <3> QED BY <1>9, <1>m, <1>t, <2>1, <3>1
    <2> QED BY <2>2, <2>3
  <1>13. ASSUME NEW b \in Buyer, Suppress(b) PROVE StoreInv'
    <2> DEFINE T == [index |-> S.index \ {b}, suspended |-> S.suspended \ {b},
                     erased |-> S.erased \cup {HashBuyerId(b)}]
    <2>1. /\ pc' = "purge" /\ who' = b /\ UNCHANGED <<config, st, dropped>>
          /\ overlay' = Persisted(T) /\ erasedBy' = erasedBy \cup {b} /\ restrictedBy' = restrictedBy \ {b}
      BY <1>13 DEF Suppress, memVars, S
    <2>2. T \in Store /\ T.erased = S.erased \cup {HashBuyerId(b)} /\ T.suspended = S.suspended \ {b}
      BY <1>0, HashFacts DEF Store
    <2> HIDE DEF T
    <2>3. Records(Persisted(T), config, erasedBy', restrictedBy', dropped)
      <3>1. \A m \in T.erased : m.times = 1
        BY <2>2, <1>0, HashFacts
      <3>2. \A c \in erasedBy' : HashBuyerId(c) \in T.erased /\ (c \in T.suspended => c \in restrictedBy')
        BY <2>1, <2>2, <1>0
      <3>3. \A c \in restrictedBy' \ dropped :
                HashBuyerId(c) \in T.erased \/ (c \in T.suspended /\ c \in config)
        BY <2>1, <2>2, <1>0
      <3> QED BY <2>2, <3>1, <3>2, <3>3, PersistKeeps
    <2> QED BY <2>1, <2>3, <1>t DEF StoreInv
  <1> QED BY <1>2, <1>3, <1>4, <1>5, <1>6, <1>7, <1>8, <1>10, <1>11, <1>12, <1>13 DEF Next

\* A running process serves no erased buyer.
LEMMA ErasedDenied ==
    ASSUME StoreInv, pc = "up", NEW b \in erasedBy
    PROVE  ~Get(st, b)
  <1>1. st.erased = ErasedIn(overlay)
    BY DEF StoreInv, Loaded
  <1> QED BY <1>1 DEF StoreInv, Records, Get

\* Every step keeps the order of an erasure: mark, purge, key.
LEMMA IntentStep == StoreInv /\ IntentInv /\ [Next]_vars => IntentInv'
  <1> SUFFICES ASSUME StoreInv, IntentInv, [Next]_vars PROVE IntentInv'
    OBVIOUS
  <1>w. who \in Buyer
    BY DEF StoreInv
  <1>1. ASSUME UNCHANGED <<intents, intentFile, shredded, lostPurge, erasedBy, who, pc>> PROVE IntentInv'
    BY <1>1 DEF IntentInv
  <1>2. CASE UNCHANGED vars
    BY <1>1, <1>2 DEF vars, memVars, fileVars, historyVars
  <1>3. CASE Boot
    BY <1>3 DEF Boot, IntentInv, historyVars
  <1>4. CASE Stop \/ StopInKeySave
    <2>1. /\ pc' = "down" /\ intents' = {}
          /\ UNCHANGED <<intentFile, shredded, lostPurge, erasedBy, who>>
      BY <1>4 DEF Stop, StopInKeySave, fileVars
    <2> QED BY <2>1 DEF IntentInv
  <1>5. CASE PurgeIntents
    <2>1. /\ pc = "purge" /\ pc' = "shred" /\ UNCHANGED <<intents, shredded, erasedBy, who>>
          /\ intentFile' \subseteq intentFile /\ lostPurge \subseteq lostPurge' /\ lostPurge' \in SUBSET Buyer
          /\ who \in intentFile' => who \in lostPurge'
      BY <1>5, <1>w DEF PurgeIntents, memVars, IntentInv
    <2> QED BY <2>1 DEF IntentInv
  <1>6. CASE Shred
    <2>1. /\ pc = "shred" /\ pc' = "down" /\ UNCHANGED <<intents, intentFile, erasedBy, who, lostPurge>>
          /\ shredded' \in {shredded, shredded \cup {who}}
      BY <1>6 DEF Shred, memVars
    <2> QED BY <2>1, <1>w DEF IntentInv
  <1>7. ASSUME NEW cfg \in SUBSET Buyer, Deploy(cfg) PROVE IntentInv'
    BY <1>1, <1>7 DEF Deploy, memVars, fileVars
  <1>8. ASSUME NEW b \in Buyer, ShredInactive(b) PROVE IntentInv'
    BY <1>1, <1>8 DEF ShredInactive
  <1>9. ASSUME NEW b \in Buyer, Request(b) PROVE IntentInv'
    <2>1. pc = "up" /\ pc' = "up" /\ UNCHANGED <<who, erasedBy, shredded, lostPurge>>
      BY <1>9 DEF Request, historyVars
    <2>2. CASE UNCHANGED <<intents, intentFile>>
      BY <1>1, <2>1, <2>2
    <2>3. CASE /\ Get(st, b) /\ intents' = intents \cup {b}
               /\ intentFile' = IF "intents" \in writable THEN intents' ELSE intentFile
      <3>1. b \notin shredded
        BY <2>1, <2>3, ErasedDenied DEF IntentInv
      <3>2. intents' \in SUBSET Buyer /\ intentFile' \in SUBSET Buyer
        BY <2>3 DEF IntentInv
      <3>3. \A c \in shredded : c \in intents' \cup intentFile' => c \in lostPurge
        BY <2>3, <3>1 DEF IntentInv
      <3> QED BY <2>1, <3>2, <3>3 DEF IntentInv
    <2> QED BY <1>9, <2>2, <2>3 DEF Request
  <1>10. ASSUME NEW f \in Files, FileFault(f) PROVE IntentInv'
    BY <1>1, <1>10 DEF FileFault, memVars, fileVars, historyVars
  <1>11. ASSUME NEW b \in Buyer, RestrictBuyer(b) \/ UnrestrictBuyer(b) \/ Export(b) PROVE IntentInv'
    BY <1>1, <1>11 DEF RestrictBuyer, UnrestrictBuyer, Export, memVars, historyVars
  <1>12. ASSUME NEW b \in Buyer, Suppress(b) PROVE IntentInv'
    <2>1. /\ pc = "down" /\ pc' = "purge" /\ who' = b /\ erasedBy' = erasedBy \cup {b}
          /\ UNCHANGED <<intents, intentFile, shredded, lostPurge>>
      BY <1>12 DEF Suppress, Command, memVars
    <2> QED BY <2>1 DEF IntentInv
  <1> QED BY <1>2, <1>3, <1>4, <1>5, <1>6, <1>7, <1>8, <1>9, <1>10, <1>11, <1>12 DEF Next

\* Every step keeps the types of what the bounds count.
LEMMA BoundStep == BoundInv /\ [Next]_vars => BoundInv'
  <1> SUFFICES ASSUME BoundInv, [Next]_vars PROVE BoundInv'
    OBVIOUS
  <1>1. ASSUME NEW f \in Files, FileFault(f) PROVE BoundInv'
    BY <1>1 DEF FileFault, BoundInv
  <1>2. ASSUME NEW cfg \in SUBSET Buyer, Deploy(cfg) PROVE BoundInv'
    BY <1>2 DEF Deploy, BoundInv
  <1>3. CASE UNCHANGED vars \/ Boot \/ Stop \/ StopInKeySave \/ PurgeIntents \/ Shred
    BY <1>3 DEF vars, boundVars, Boot, Stop, StopInKeySave, PurgeIntents, Shred, BoundInv
  <1>4. ASSUME NEW b \in Buyer, ShredInactive(b) \/ Request(b) PROVE BoundInv'
    BY <1>4 DEF ShredInactive, Request, boundVars, BoundInv
  <1>5. ASSUME NEW b \in Buyer, RestrictBuyer(b) \/ UnrestrictBuyer(b) \/ Export(b) \/ Suppress(b) PROVE BoundInv'
    BY <1>5 DEF RestrictBuyer, UnrestrictBuyer, Export, Suppress, Command, BoundInv
  <1> QED BY <1>1, <1>2, <1>3, <1>4, <1>5 DEF Next

-----------------------------------------------------------------------------
(* The pseudonym keys. *)

\* pseudonymize leaves the other keys alone, and a new key was never used.
LEMMA KeyForFacts ==
    ASSUME NEW k, NEW b \in Buyer, IsKeys(k), KeyTypes, Pseudonymize(k, b)
    PROVE  /\ DOMAIN KeyFor(k, b) = DOMAIN k \cup {b}
           /\ \A c \in DOMAIN k : KeyFor(k, b)[c] = k[c]
           /\ b \notin DOMAIN k => KeyFor(k, b)[b] = issuedKeys + 1
           /\ issuedKeys' \in 0..MaxKeys /\ issuedKeys <= issuedKeys'
           /\ \A c \in DOMAIN KeyFor(k, b) : c \in Buyer /\ KeyFor(k, b)[c] \in 1..issuedKeys'
           /\ b \notin DOMAIN k => KeyFor(k, b)[b] \notin retired[b]
           /\ keyFile' \in {keyFile, KeyFor(k, b)}
  <1>0. issuedKeys \in Nat /\ MaxKeys \in Nat /\ issuedKeys <= MaxKeys
    BY RightsConstants DEF KeyTypes
  <1>1. CASE b \in DOMAIN k
    <2>1. KeyFor(k, b) = k /\ keyFile' = keyFile /\ issuedKeys' = issuedKeys
      BY <1>1 DEF KeyFor, Pseudonymize
    <2> QED BY <1>0, <1>1, <2>1 DEF IsKeys
  <1>2. CASE b \notin DOMAIN k
    <2>1. KeyFor(k, b) = [c \in DOMAIN k \cup {b} |-> IF c = b THEN issuedKeys + 1 ELSE k[c]]
      BY <1>2 DEF KeyFor
    <2>2. /\ DOMAIN KeyFor(k, b) = DOMAIN k \cup {b} /\ KeyFor(k, b)[b] = issuedKeys + 1
          /\ \A c \in DOMAIN k : KeyFor(k, b)[c] = k[c]
      BY <1>2, <2>1
    <2>3. issuedKeys' = issuedKeys + 1 /\ issuedKeys < MaxKeys /\ keyFile' \in {keyFile, KeyFor(k, b)}
      BY <1>2 DEF Pseudonymize, SavedKeys
    <2>4. issuedKeys + 1 \notin retired[b]
      BY <1>0 DEF KeyTypes
    <2>5. \A c \in DOMAIN KeyFor(k, b) : c \in Buyer /\ KeyFor(k, b)[c] \in 1..issuedKeys'
      BY <1>0, <2>2, <2>3 DEF IsKeys
    <2> QED BY <1>0, <1>2, <2>2, <2>3, <2>4, <2>5
  <1> QED BY <1>1, <1>2

\* Forgetting a key takes one buyer out and leaves the other keys.
LEMMA ForgetFacts ==
    ASSUME NEW k, NEW b
    PROVE  DOMAIN Forget(k, b) = DOMAIN k \ {b} /\ \A c \in DOMAIN k \ {b} : Forget(k, b)[c] = k[c]
  BY DEF Forget

\* Every step keeps at most one key in use per buyer, and no retired one.
LEMMA KeyStep == KeyInv /\ BoundInv /\ StoreInv /\ [Next]_vars => KeyInv'
  <1> SUFFICES ASSUME KeyInv, BoundInv, StoreInv, [Next]_vars PROVE KeyInv'
    OBVIOUS
  <1>0. KeyTypes /\ Unlinkable /\ OneKey
    BY DEF KeyInv
  <1>e. DOMAIN NoKeys = {} /\ IsKeys(NoKeys) /\ who \in Buyer
    BY DEF NoKeys, IsKeys, StoreInv
  <1>1. ASSUME UNCHANGED <<pc, keys, keyFile, used, retired, issuedKeys, lostKeys>> PROVE KeyInv'
    BY <1>0, <1>1 DEF KeyInv, KeyTypes, IsKeys, Unlinkable, OneKey, Current
  <1>2. CASE UNCHANGED vars
    BY <1>1, <1>2 DEF vars, memVars, fileVars, historyVars
  <1>3. CASE Boot
    <2>1. pc = "down" /\ pc' = "up" /\ keys' = keyFile /\ UNCHANGED <<keyFile, used, retired, issuedKeys, lostKeys>>
      BY <1>3 DEF Boot, historyVars
    <2> QED BY <1>0, <2>1 DEF KeyInv, KeyTypes, IsKeys, Unlinkable, OneKey, Current
  <1>4. CASE Stop
    <2>1. /\ pc' = "down" /\ keys' = NoKeys /\ UNCHANGED <<keyFile, used, retired, issuedKeys>>
          /\ lostKeys' = (lostKeys \/ (pc = "up" /\ keys # keyFile))
      BY <1>4 DEF Stop, fileVars
    <2>2. lostKeys' \in BOOLEAN
      BY <2>1, Zenon
    <2>3. KeyTypes'
      BY <1>0, <1>e, <2>1, <2>2 DEF KeyTypes, IsKeys
    <2>4. Unlinkable'
      BY <1>0, <1>e, <2>1 DEF Unlinkable
    <2>5. OneKey'
      BY <1>0, <2>1 DEF OneKey, Current
    <2> QED BY <2>3, <2>4, <2>5 DEF KeyInv
  <1>5. CASE StopInKeySave
    <2>1. /\ pc' = "down" /\ keys' = NoKeys /\ keyFile' = NoKeys /\ lostKeys' = TRUE
          /\ UNCHANGED <<used, retired, issuedKeys>>
      BY <1>5 DEF StopInKeySave
    <2>2. lostKeys' \in BOOLEAN
      BY <2>1, Zenon
    <2>3. KeyTypes'
      BY <1>0, <1>e, <2>1, <2>2 DEF KeyTypes, IsKeys
    <2> QED BY <1>e, <2>1, <2>3 DEF KeyInv, Unlinkable, OneKey
  <1>6. CASE PurgeIntents
    <2>1. /\ pc = "purge" /\ pc' = "shred" /\ UNCHANGED <<keys, keyFile, used, retired, issuedKeys, lostKeys>>
      BY <1>6 DEF PurgeIntents, memVars
    <2> QED BY <1>0, <2>1 DEF KeyInv, KeyTypes, IsKeys, Unlinkable, OneKey, Current
  <1>7. CASE Shred
    <2>1. /\ pc = "shred" /\ pc' = "down" /\ UNCHANGED <<keys, used, issuedKeys, lostKeys>>
      BY <1>7 DEF Shred, memVars
    <2>2. CASE who \in DOMAIN keyFile /\ "keys" \in writable
      <3>1. keyFile' = Forget(keyFile, who) /\ retired' = [retired EXCEPT ![who] = @ \cup used[who]]
        BY <1>7, <2>2 DEF Shred
      <3>2. DOMAIN keyFile' = DOMAIN keyFile \ {who} /\ \A c \in DOMAIN keyFile \ {who} : keyFile'[c] = keyFile[c]
        BY <3>1, ForgetFacts
      <3>3. retired'[who] = retired[who] \cup used[who] /\ \A c \in Buyer : c # who => retired'[c] = retired[c]
        BY <1>0, <1>e, <3>1 DEF KeyTypes
      <3>4. retired' \in [Buyer -> SUBSET (1..issuedKeys)]
        BY <1>0, <3>1 DEF KeyTypes
      <3>5. KeyTypes'
        BY <1>0, <2>1, <3>2, <3>4 DEF KeyTypes, IsKeys
      <3>6. Unlinkable'
        BY <1>0, <1>e, <2>1, <3>2, <3>3 DEF Unlinkable, KeyTypes
      <3>7. OneKey'
        BY <1>0, <2>1, <3>2, <3>3 DEF OneKey, Current
      <3> QED BY <3>5, <3>6, <3>7 DEF KeyInv
    <2>3. CASE ~(who \in DOMAIN keyFile /\ "keys" \in writable)
      <3>1. UNCHANGED <<keyFile, retired>>
        BY <1>7, <2>3 DEF Shred
      <3> QED BY <1>0, <2>1, <3>1 DEF KeyInv, KeyTypes, IsKeys, Unlinkable, OneKey, Current
    <2> QED BY <2>2, <2>3
  <1>8. ASSUME NEW cfg \in SUBSET Buyer, Deploy(cfg) PROVE KeyInv'
    BY <1>1, <1>8 DEF Deploy, memVars, fileVars
  <1>9. ASSUME NEW b \in Buyer, ShredInactive(b) PROVE KeyInv'
    <2>1. /\ pc = "up" /\ pc' = "up" /\ UNCHANGED <<used, issuedKeys>>
          /\ keys' = Forget(keys, b) /\ keyFile' = IF "keys" \in writable THEN keys' ELSE keyFile
      BY <1>9 DEF ShredInactive, SavedKeys
    <2>2. DOMAIN keys' = DOMAIN keys \ {b} /\ \A c \in DOMAIN keys \ {b} : keys'[c] = keys[c]
      BY <2>1, ForgetFacts
    <2>3. CASE "keys" \in writable
      <3>1. retired' = [retired EXCEPT ![b] = @ \cup used[b]] /\ lostKeys' = lostKeys /\ keyFile' = keys'
        BY <1>9, <2>1, <2>3 DEF ShredInactive
      <3>2. retired'[b] = retired[b] \cup used[b] /\ \A c \in Buyer : c # b => retired'[c] = retired[c]
        BY <1>0, <3>1 DEF KeyTypes
      <3>3. retired' \in [Buyer -> SUBSET (1..issuedKeys)]
        BY <1>0, <3>1 DEF KeyTypes
      <3>4. KeyTypes'
        BY <1>0, <2>1, <2>2, <3>1, <3>3 DEF KeyTypes, IsKeys
      <3>5. Unlinkable'
        BY <1>0, <2>2, <3>1, <3>2 DEF Unlinkable, KeyTypes
      <3>6. OneKey'
        BY <1>0, <2>1, <2>2, <3>1, <3>2 DEF OneKey, Current
      <3> QED BY <3>4, <3>5, <3>6 DEF KeyInv
    <2>4. CASE "keys" \notin writable
      <3>1. retired' = retired /\ lostKeys' = TRUE /\ keyFile' = keyFile
        BY <1>9, <2>1, <2>4 DEF ShredInactive
      <3>2. lostKeys' \in BOOLEAN
        BY <3>1, Zenon
      <3>3. KeyTypes'
        BY <1>0, <2>1, <2>2, <3>1, <3>2 DEF KeyTypes, IsKeys
      <3>4. Unlinkable'
        BY <1>0, <2>2, <3>1 DEF Unlinkable
      <3> QED BY <3>1, <3>3, <3>4 DEF KeyInv, OneKey
    <2> QED BY <2>3, <2>4
  <1>10. ASSUME NEW b \in Buyer, Request(b) PROVE KeyInv'
    <2>1. /\ pc = "up" /\ pc' = "up" /\ UNCHANGED <<retired, lostKeys>>
          /\ Pseudonymize(keys, b) /\ keys' = KeyFor(keys, b)
          /\ used' = [used EXCEPT ![b] = @ \cup {keys'[b]}]
      BY <1>10 DEF Request, historyVars
    <2>2. IsKeys(keys)
      BY <1>0 DEF KeyTypes
    <2>3. /\ DOMAIN keys' = DOMAIN keys \cup {b}
          /\ \A c \in DOMAIN keys : keys'[c] = keys[c]
          /\ issuedKeys' \in 0..MaxKeys /\ issuedKeys <= issuedKeys'
          /\ \A c \in DOMAIN keys' : c \in Buyer /\ keys'[c] \in 1..issuedKeys'
          /\ b \notin DOMAIN keys => keys'[b] \notin retired[b]
          /\ keyFile' \in {keyFile, keys'}
      <3>1. /\ DOMAIN KeyFor(keys, b) = DOMAIN keys \cup {b}
            /\ \A c \in DOMAIN keys : KeyFor(keys, b)[c] = keys[c]
            /\ issuedKeys' \in 0..MaxKeys /\ issuedKeys <= issuedKeys'
            /\ \A c \in DOMAIN KeyFor(keys, b) : c \in Buyer /\ KeyFor(keys, b)[c] \in 1..issuedKeys'
            /\ b \notin DOMAIN keys => KeyFor(keys, b)[b] \notin retired[b]
            /\ keyFile' \in {keyFile, KeyFor(keys, b)}
        BY <1>0, <2>1, <2>2, KeyForFacts
      <3> QED BY <2>1, <3>1
    <2>4. used'[b] = used[b] \cup {keys'[b]} /\ \A c \in Buyer : c # b => used'[c] = used[c]
      BY <1>0, <2>1 DEF KeyTypes
    <2>5. issuedKeys \in Nat /\ issuedKeys' \in Nat /\ 1..issuedKeys \subseteq 1..issuedKeys'
      BY <1>0, <2>3, RightsConstants DEF KeyTypes
    <2>6. KeyTypes'
      <3>1. IsKeys(keys)' /\ IsKeys(keyFile)'
        BY <1>0, <2>3, <2>5 DEF KeyTypes, IsKeys
      <3>2. used' \in [Buyer -> SUBSET (1..issuedKeys')]
        <4>1. used' \in [Buyer -> SUBSET (1..issuedKeys \cup {keys'[b]})]
          BY <1>0, <2>1 DEF KeyTypes
        <4>2. 1..issuedKeys \cup {keys'[b]} \subseteq 1..issuedKeys'
          BY <2>3, <2>5
        <4> QED BY <4>1, <4>2
      <3>3. retired' \in [Buyer -> SUBSET (1..issuedKeys')]
        BY <1>0, <2>1, <2>5 DEF KeyTypes
      <3> QED BY <1>0, <2>1, <2>3, <3>1, <3>2, <3>3 DEF KeyTypes
    <2>7. Unlinkable'
      BY <1>0, <2>1, <2>3 DEF Unlinkable
    <2>8. OneKey'
      <3> SUFFICES ASSUME ~lostKeys, NEW c \in Buyer, NEW k \in used'[c] \ retired[c]
                   PROVE  c \in DOMAIN keys' /\ keys'[c] = k
        BY <2>1 DEF OneKey, Current
      <3>1. k \in used[c] \/ (c = b /\ k = keys'[b])
        BY <2>4
      <3>2. k \in used[c] => c \in DOMAIN keys /\ keys[c] = k
        BY <1>0, <2>1 DEF OneKey, Current
      <3> QED BY <2>3, <3>1, <3>2
    <2> QED BY <2>6, <2>7, <2>8 DEF KeyInv
  <1>11. ASSUME NEW f \in Files, FileFault(f) PROVE KeyInv'
    BY <1>1, <1>11 DEF FileFault, memVars, fileVars, historyVars
  <1>12. ASSUME NEW b \in Buyer, RestrictBuyer(b) \/ UnrestrictBuyer(b) PROVE KeyInv'
    BY <1>1, <1>12 DEF RestrictBuyer, UnrestrictBuyer, memVars
  <1>13. ASSUME NEW b \in Buyer, Suppress(b) PROVE KeyInv'
    <2>1. /\ pc = "down" /\ pc' = "purge" /\ UNCHANGED <<keys, keyFile, used, retired, issuedKeys, lostKeys>>
      BY <1>13 DEF Suppress, Command, memVars
    <2> QED BY <1>0, <2>1 DEF KeyInv, KeyTypes, IsKeys, Unlinkable, OneKey, Current
  <1>14. ASSUME NEW b \in Buyer, Export(b) PROVE KeyInv'
    <2>1. /\ pc = "down" /\ pc' = "down" /\ UNCHANGED <<keys, used, retired, lostKeys>> /\ Pseudonymize(keyFile, b)
      BY <1>14 DEF Export, Command, memVars, historyVars
    <2>2. IsKeys(keyFile)
      BY <1>0 DEF KeyTypes
    <2>3. /\ issuedKeys' \in 0..MaxKeys /\ issuedKeys <= issuedKeys'
          /\ \A c \in DOMAIN keyFile : c \in DOMAIN keyFile' /\ keyFile'[c] = keyFile[c]
          /\ \A c \in DOMAIN keyFile' : c \in Buyer /\ (c \in DOMAIN keyFile \/ keyFile'[c] \in 1..issuedKeys')
          /\ \A c \in DOMAIN keyFile' : c \notin DOMAIN keyFile => keyFile'[c] \notin retired[c]
      <3>1. /\ DOMAIN KeyFor(keyFile, b) = DOMAIN keyFile \cup {b}
            /\ \A c \in DOMAIN keyFile : KeyFor(keyFile, b)[c] = keyFile[c]
            /\ issuedKeys' \in 0..MaxKeys /\ issuedKeys <= issuedKeys'
            /\ \A c \in DOMAIN KeyFor(keyFile, b) : c \in Buyer /\ KeyFor(keyFile, b)[c] \in 1..issuedKeys'
            /\ b \notin DOMAIN keyFile => KeyFor(keyFile, b)[b] \notin retired[b]
            /\ keyFile' \in {keyFile, KeyFor(keyFile, b)}
        BY <1>0, <2>1, <2>2, KeyForFacts
      <3>2. CASE keyFile' = keyFile
        BY <2>2, <3>1, <3>2 DEF IsKeys
      <3>3. CASE keyFile' = KeyFor(keyFile, b)
        BY <3>1, <3>3
      <3> QED BY <3>1, <3>2, <3>3
    <2>5. issuedKeys \in Nat /\ issuedKeys' \in Nat /\ 1..issuedKeys \subseteq 1..issuedKeys'
      BY <1>0, <2>3, RightsConstants DEF KeyTypes
    <2>6. KeyTypes'
      <3>1. IsKeys(keys)' /\ IsKeys(keyFile)'
        BY <1>0, <2>1, <2>3, <2>5 DEF KeyTypes, IsKeys
      <3>2. used' \in [Buyer -> SUBSET (1..issuedKeys')] /\ retired' \in [Buyer -> SUBSET (1..issuedKeys')]
        BY <1>0, <2>1, <2>5 DEF KeyTypes
      <3> QED BY <1>0, <2>1, <2>3, <3>1, <3>2 DEF KeyTypes
    <2>7. Unlinkable'
      BY <1>0, <2>1, <2>3 DEF Unlinkable
    <2>8. OneKey'
      BY <1>0, <2>1, <2>3 DEF OneKey, Current
    <2> QED BY <2>6, <2>7, <2>8 DEF KeyInv
  <1> QED BY <1>2, <1>3, <1>4, <1>5, <1>6, <1>7, <1>8, <1>9, <1>10, <1>11, <1>12, <1>13, <1>14 DEF Next

-----------------------------------------------------------------------------
\* The invariant implies the properties the run checks.
LEMMA RightsImply ==
    RightsInv => /\ TypeOK /\ ErasedNotServed /\ ErasureOrder /\ Unlinkable
                 /\ OnePseudonym /\ RawForgotten /\ RestrictedNotServed
  <1> SUFFICES ASSUME RightsInv
               PROVE  /\ TypeOK /\ ErasedNotServed /\ ErasureOrder /\ Unlinkable
                      /\ OnePseudonym /\ RawForgotten /\ RestrictedNotServed
    OBVIOUS
  <1>0. StoreInv /\ IntentInv /\ KeyInv /\ BoundInv
    BY DEF RightsInv
  <1>r. Records(overlay, config, erasedBy, restrictedBy, dropped) /\ GoodMarks(overlay) /\ erasedBy \in SUBSET Buyer
    BY <1>0 DEF StoreInv, Records
  <1>1. TypeOK
    <2>1. /\ pc \in {"down", "up", "purge", "shred"} /\ who \in Buyer /\ config \in SUBSET Buyer
          /\ erasedBy \in SUBSET Buyer /\ restrictedBy \in SUBSET Buyer /\ dropped \in SUBSET Buyer
          /\ st \in Store /\ overlay \in Overlay
      BY <1>0, <1>r DEF StoreInv, GoodMarks
    <2> QED BY <1>0, <2>1 DEF IntentInv, KeyInv, KeyTypes, BoundInv, Store, Overlay, TypeOK
  <1>2. ErasedNotServed
    BY <1>0, ErasedDenied DEF ErasedNotServed
  <1>3. ErasureOrder
    BY <1>0, <1>r DEF IntentInv, Records, ErasureOrder
  <1>4. Unlinkable
    BY <1>0 DEF KeyInv
  <1>5. OnePseudonym
    <2> SUFFICES ASSUME ~lostKeys, NEW b \in Buyer
                 PROVE  Cardinality(used[b] \ retired[b]) <= 1
      BY DEF OnePseudonym
    <2> DEFINE K == used[b] \ retired[b]
    <2>1. \A j, k \in K : j = k
      BY <1>0 DEF KeyInv, OneKey
    <2> HIDE DEF K
    <2>2. CASE K = {}
      BY <2>2, FS_EmptySet DEF K
    <2>3. CASE K # {}
      <3>1. PICK k : K = {k}
        BY <2>1, <2>3
      <3>2. Cardinality({k}) = 1
        BY FS_Singleton
      <3> QED BY <3>1, <3>2 DEF K
    <2> QED BY <2>2, <2>3
  <1>6. RawForgotten
    <2> SUFFICES ASSUME pc = "up", NEW b \in erasedBy
                 PROVE  Raw(b) \notin overlay.suppressed /\ (b \in overlay.restricted => b \in restrictedBy)
      BY DEF RawForgotten
    <2>1. ~MustMigrate(overlay)
      BY <1>0 DEF StoreInv
    <2>2. \A m \in overlay.suppressed : m.times = 1
      BY <1>r, <2>1 DEF MustMigrate, GoodMarks
    <2>3. Raw(b) \notin overlay.suppressed
      BY <1>r, <2>2, HashFacts
    <2> QED BY <1>r, <2>1, <2>3 DEF Records
  <1>7. RestrictedNotServed
    <2> SUFFICES ASSUME pc = "up", NEW b \in restrictedBy \ dropped PROVE ~Get(st, b)
      BY DEF RestrictedNotServed
    <2>1. st = Loaded(overlay, config) /\ config \in SUBSET Buyer
      BY <1>0 DEF StoreInv
    <2>2. /\ st.erased = ErasedIn(overlay) /\ st.index = config \ SuspendedIn(overlay, config)
          /\ \A c \in overlay.restricted \cap config :
                HashBuyerId(c) \in ErasedIn(overlay) \/ c \in SuspendedIn(overlay, config)
      BY <1>r, <2>1, LoadedFacts
    <2>3. HashBuyerId(b) \in ErasedIn(overlay) \/ (b \in overlay.restricted /\ b \in config)
      BY <1>r DEF Records
    <2> QED BY <2>2, <2>3 DEF Get
  <1> QED BY <1>1, <1>2, <1>3, <1>4, <1>5, <1>6, <1>7

\* The invariant in every state of the toolkit, the command and the node.
LEMMA RightsAlways == Spec => []RightsInv
  <1>1. RightsInv /\ [Next]_vars => RightsInv'
    BY StoreStep, IntentStep, KeyStep, BoundStep DEF RightsInv
  <1> QED BY RightsInit, <1>1, PTL DEF Spec

\* The stores, their files and the history keep their types.
THEOREM RightsTypeCorrect == Spec => []TypeOK
  BY RightsAlways, RightsImply, PTL

\* Art. 17, applyOverlay and get: whatever is redeployed, run, lost or interrupted, an erased
\* buyer is never served.
THEOREM ErasureHolds == Spec => []ErasedNotServed
  BY RightsAlways, RightsImply, PTL

\* suppress(): the key goes last, after the denial and the purge.
THEOREM ErasureInOrder == Spec => []ErasureOrder
  BY RightsAlways, RightsImply, PTL

\* PseudonymService: a destroyed key is never in use or on disk again.
THEOREM ShreddingHolds == Spec => []Unlinkable
  BY RightsAlways, RightsImply, PTL

\* keyFor: between two shreddings a buyer has one pseudonym, unless a save was lost.
THEOREM PseudonymsStable == Spec => []OnePseudonym
  BY RightsAlways, RightsImply, PTL

\* persist() and the migration of a legacy overlay: no erased buyer is named in clear.
THEOREM RawIdsForgotten == Spec => []RawForgotten
  BY RightsAlways, RightsImply, PTL

\* Art. 18, suspend and applyOverlay: a restricted buyer is not served, unless a config in
\* between left the buyer out.
THEOREM RestrictionHolds == Spec => []RestrictedNotServed
  BY RightsAlways, RightsImply, PTL

=============================================================================
