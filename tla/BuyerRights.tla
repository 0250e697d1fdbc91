---------------------------- MODULE BuyerRights ----------------------------
(***************************************************************************)
(* Data-subject rights: the entitlement store and its persistent overlay   *)
(* (policy/entitlements.ts, policy/dsr-state.ts), the DSR toolkit and CLI  *)
(* (dsr/toolkit.ts, dsr/cli.ts), the pseudonym keys (audit/pseudonym.ts)   *)
(* and the raw buyer ids in intents.json, under config redeployments,      *)
(* restarts, failed writes and crashes inside an erasure.                  *)
(*                                                                         *)
(* The owner lease keeps the node and the CLI apart, so one process at a   *)
(* time has the state; it loads the files when it starts.                  *)
(***************************************************************************)
EXTENDS Integers, FiniteSets

CONSTANTS
    Buyer,
    MaxKeys,      \* bound: pseudonym keys generated
    MaxDeploys,   \* bound: changes of config/entitlements.json
    MaxCommands,  \* bound: DSR commands
    MaxFaults     \* bound: changes of a file between writable and unwritable

ASSUME RightsConstants ==
    MaxKeys \in Nat /\ MaxDeploys \in Nat /\ MaxCommands \in Nat /\ MaxFaults \in Nat

VARIABLES
    pc,          \* "down", "up", or the next step of a suppress command
    who,         \* the buyer that command is about
    config,      \* buyers granted by config/entitlements.json
    st,          \* EntitlementStore of the running process
    overlay,     \* dsr-state.json
    intents,     \* buyers with an intent in the running process's store
    intentFile,  \* buyers named in intents.json
    keys,        \* PseudonymService.keys of the running process
    keyFile,     \* pseudonym-keys.json
    used,        \* keys under which the ledger has entries of each buyer
    writable, issuedKeys, deploys, commands, faults,
    erasedBy,      \* history: buyers whose erasure reached the overlay
    restrictedBy,  \* history: buyers under an operator's restriction
    dropped,       \* history: of those, the ones some later config left out
    shredded,      \* history: buyers whose key a suppress destroyed on disk
    retired,       \* history: the keys of each buyer that were destroyed on disk
    lostPurge,     \* history: buyers whose purge was not saved
    lostKeys       \* history: the key file lost a key it should have had

fileVars == <<overlay, intentFile, keyFile>>
memVars == <<st, intents, keys>>
boundVars == <<deploys, commands, faults>>
historyVars == <<erasedBy, restrictedBy, dropped, shredded, retired, lostPurge, lostKeys>>
vars == <<pc, who, config, memVars, fileVars, used, issuedKeys, writable, boundVars, historyVars>>

-----------------------------------------------------------------------------
(* The overlay.  A mark is a buyer id hashed a number of times: 0 is the raw id of a
   legacy overlay, 1 the hash that enforcement looks for, 2 matches nobody. *)

Files == {"overlay", "intents", "keys"}
Mark == [buyer: Buyer, times: 0..2]
Raw(b) == [buyer |-> b, times |-> 0]
Hashed(m) == [m EXCEPT !.times = @ + 1]
HashBuyerId(b) == Hashed(Raw(b))

NoKeys == [b \in {} |-> 0]
Forget(f, b) == [c \in DOMAIN f \ {b} |-> f[c]]
Nobody == [index |-> {}, suspended |-> {}, erased |-> {}]

\* Mutant: the marks of a current overlay are hashed again, as if it were a legacy one.
ErasedInAlwaysHashed(o) == {Hashed(m) : m \in o.suppressed}

\* applyOverlay: legacy marks are hashed on load; erasure goes before restriction, and a
\* restriction moves a grant of the current config aside.
ErasedIn(o) == IF o.legacy THEN {Hashed(m) : m \in o.suppressed} ELSE o.suppressed

SuspendedIn(o, cfg) == {b \in o.restricted \cap cfg : HashBuyerId(b) \notin ErasedIn(o)}

Loaded(o, cfg) == [index |-> cfg \ SuspendedIn(o, cfg), suspended |-> SuspendedIn(o, cfg),
                   erased |-> ErasedIn(o)]

\* Mutant: only the erasures are written.
PersistedErasures(S) == [legacy |-> FALSE, suppressed |-> S.erased, restricted |-> {}]

\* persist(): only what the store holds is written.
Persisted(S) == [legacy |-> FALSE, suppressed |-> S.erased, restricted |-> S.suspended]

\* Mutant: a legacy overlay is used as it is.
MustMigrateNever(o) == FALSE

MustMigrate(o) == o.legacy /\ o.suppressed # {}

\* The constructor re-persists a legacy overlay; that write throws when it fails.
CanLoad == MustMigrate(overlay) => "overlay" \in writable
Migrated == IF MustMigrate(overlay) THEN Persisted(Loaded(overlay, config)) ELSE overlay

\* EntitlementStore.get, on which the policy engine's default-deny rests.
Get(S, b) == HashBuyerId(b) \notin S.erased /\ b \in S.index

-----------------------------------------------------------------------------
(* Pseudonym keys.  A failed save is swallowed. *)

\* Mutant: every pseudonym is computed with a new key.
KeyForFresh(k, b) == [c \in DOMAIN k \cup {b} |-> IF c = b THEN issuedKeys + 1 ELSE k[c]]

\* keyFor: a buyer's key is created on first use.
KeyFor(k, b) ==
    IF b \in DOMAIN k THEN k
    ELSE [c \in DOMAIN k \cup {b} |-> IF c = b THEN issuedKeys + 1 ELSE k[c]]

SavedKeys(k) == IF "keys" \in writable THEN k ELSE keyFile

\* pseudonymize: the save happens only when a key was created.
Pseudonymize(k, b) ==
    /\ b \notin DOMAIN k => issuedKeys < MaxKeys
    /\ keyFile' = IF b \in DOMAIN k THEN keyFile ELSE SavedKeys(KeyFor(k, b))
    /\ issuedKeys' = IF b \in DOMAIN k THEN issuedKeys ELSE issuedKeys + 1

-----------------------------------------------------------------------------
\* A node from before the hashed overlay may bring a legacy file.
Init ==
    /\ pc = "down" /\ who \in Buyer
    /\ config \in SUBSET Buyer
    /\ st = Nobody /\ intents = {} /\ keys = NoKeys
    /\ \E S \in SUBSET Buyer, R \in SUBSET Buyer :
          /\ overlay = [legacy |-> TRUE, suppressed |-> {Raw(b) : b \in S}, restricted |-> R]
          /\ erasedBy = S /\ restrictedBy = R \ S
          /\ dropped = (R \ S) \ config
    /\ intentFile = {} /\ keyFile = NoKeys /\ used = [b \in Buyer |-> {}]
    /\ writable = Files /\ issuedKeys = 0
    /\ deploys = 0 /\ commands = 0 /\ faults = 0
    /\ shredded = {} /\ retired = [b \in Buyer |-> {}]
    /\ lostPurge = {} /\ lostKeys = FALSE

\* The operator replaces config/entitlements.json; it is read when a process starts.
Deploy(cfg) ==
    /\ pc = "down" /\ deploys < MaxDeploys /\ deploys' = deploys + 1
    /\ cfg # config /\ config' = cfg
    /\ dropped' = dropped \cup (restrictedBy \ cfg)
    /\ UNCHANGED <<pc, who, memVars, fileVars, used, issuedKeys, writable, commands, faults,
                   erasedBy, restrictedBy, shredded, retired, lostPurge, lostKeys>>

Boot ==
    /\ pc = "down" /\ CanLoad
    /\ pc' = "up"
    /\ st' = Loaded(overlay, config) /\ overlay' = Migrated
    /\ intents' = intentFile /\ keys' = keyFile
    /\ UNCHANGED <<who, config, intentFile, keyFile, used, issuedKeys, writable,
                   boundVars, historyVars>>

\* A request with a valid token of b: audited under b's pseudonym whatever the decision;
\* an allowed one may create an intent.
Request(b) ==
    /\ pc = "up"
    /\ Pseudonymize(keys, b)
    /\ keys' = KeyFor(keys, b)
    /\ used' = [used EXCEPT ![b] = @ \cup {keys'[b]}]
    /\ \/ UNCHANGED <<intents, intentFile>>
       \/ /\ Get(st, b)
          /\ intents' = intents \cup {b}
          /\ intentFile' = IF "intents" \in writable THEN intents' ELSE intentFile
    /\ UNCHANGED <<pc, who, config, st, overlay, writable, boundVars, historyVars>>

\* The retention cycle's shredInactive: a key unused for the whole retention horizon is
\* destroyed.  How long a key has been unused is left open, so any key may be.
ShredInactive(b) ==
    /\ pc = "up" /\ b \in DOMAIN keys
    /\ keys' = Forget(keys, b)
    /\ keyFile' = SavedKeys(keys')
    /\ IF "keys" \in writable
       THEN retired' = [retired EXCEPT ![b] = @ \cup used[b]] /\ UNCHANGED lostKeys
       ELSE lostKeys' = TRUE /\ UNCHANGED retired
    /\ UNCHANGED <<pc, who, config, st, intents, overlay, intentFile, used, issuedKeys, writable,
                   boundVars, erasedBy, restrictedBy, dropped, shredded, lostPurge>>

\* The node or a command ends, at any point.
Stop ==
    /\ pc # "down"
    /\ pc' = "down" /\ st' = Nobody /\ intents' = {} /\ keys' = NoKeys
    /\ lostKeys' = (lostKeys \/ (pc = "up" /\ keys # keyFile))
    /\ UNCHANGED <<who, config, fileVars, used, issuedKeys, writable, boundVars,
                   erasedBy, restrictedBy, dropped, shredded, retired, lostPurge>>

\* The process dies inside the key file's save, which truncates first; load() takes what
\* does not parse for no keys at all.
StopInKeySave ==
    /\ "keys" \in writable
    /\ \/ pc = "up" /\ DOMAIN keys # Buyer /\ issuedKeys < MaxKeys
       \/ pc = "shred" /\ who \in DOMAIN keyFile
    /\ pc' = "down" /\ st' = Nobody /\ intents' = {} /\ keys' = NoKeys
    /\ keyFile' = NoKeys /\ lostKeys' = TRUE
    /\ UNCHANGED <<who, config, overlay, intentFile, used, issuedKeys, writable, boundVars,
                   erasedBy, restrictedBy, dropped, shredded, retired, lostPurge>>

-----------------------------------------------------------------------------
(* The DSR commands, each a process of its own on a stopped node. *)

Command ==
    /\ pc = "down" /\ CanLoad
    /\ commands < MaxCommands /\ commands' = commands + 1

\* restrict: a buyer with a grant is suspended; persist() throws when it fails.
RestrictBuyer(b) ==
    /\ Command
    /\ LET S == Loaded(overlay, config) IN
          IF b \in S.index /\ "overlay" \in writable
          THEN /\ overlay' = Persisted([S EXCEPT !.index = @ \ {b}, !.suspended = @ \cup {b}])
               /\ restrictedBy' = restrictedBy \cup {b}
               /\ dropped' = dropped \ {b}
          ELSE overlay' = Migrated /\ UNCHANGED <<restrictedBy, dropped>>
    /\ UNCHANGED <<pc, who, config, memVars, intentFile, keyFile, used, issuedKeys, writable,
                   deploys, faults, erasedBy, shredded, retired, lostPurge, lostKeys>>

UnrestrictBuyer(b) ==
    /\ Command
    /\ LET S == Loaded(overlay, config) IN
          IF b \in S.suspended /\ "overlay" \in writable
          THEN /\ overlay' = Persisted([S EXCEPT !.index = @ \cup {b}, !.suspended = @ \ {b}])
               /\ restrictedBy' = restrictedBy \ {b}
          ELSE overlay' = Migrated /\ UNCHANGED restrictedBy
    /\ UNCHANGED <<pc, who, config, memVars, intentFile, keyFile, used, issuedKeys, writable,
                   deploys, faults, erasedBy, dropped, shredded, retired, lostPurge, lostKeys>>

\* export computes the buyer's pseudonym, and so creates a key for an unknown buyer.
Export(b) ==
    /\ Command
    /\ overlay' = Migrated
    /\ Pseudonymize(keyFile, b)
    /\ UNCHANGED <<pc, who, config, memVars, intentFile, used, writable,
                   deploys, faults, historyVars>>

\* Mutant: the key is destroyed before the intents are purged, and the purge forgotten.
SuppressShredsFirst(b) ==
    /\ Command /\ "overlay" \in writable
    /\ LET S == Loaded(overlay, config) IN
          overlay' = Persisted([index |-> S.index \ {b}, suspended |-> S.suspended \ {b},
                                erased |-> S.erased \cup {HashBuyerId(b)}])
    /\ erasedBy' = erasedBy \cup {b} /\ restrictedBy' = restrictedBy \ {b}
    /\ pc' = "shred" /\ who' = b
    /\ UNCHANGED <<config, memVars, intentFile, keyFile, used, issuedKeys, writable,
                   deploys, faults, dropped, shredded, retired, lostPurge, lostKeys>>

\* suppress: first the overlay (a failure throws and ends the command) ...
Suppress(b) ==
    /\ Command /\ "overlay" \in writable
    /\ LET S == Loaded(overlay, config) IN
          overlay' = Persisted([index |-> S.index \ {b}, suspended |-> S.suspended \ {b},
                                erased |-> S.erased \cup {HashBuyerId(b)}])
    /\ erasedBy' = erasedBy \cup {b} /\ restrictedBy' = restrictedBy \ {b}
    /\ pc' = "purge" /\ who' = b
    /\ UNCHANGED <<config, memVars, intentFile, keyFile, used, issuedKeys, writable,
                   deploys, faults, dropped, shredded, retired, lostPurge, lostKeys>>

\* ... then the raw ids in intents.json (a failure is swallowed) ...
PurgeIntents ==
    /\ pc = "purge" /\ pc' = "shred"
    /\ IF "intents" \in writable
       THEN intentFile' = intentFile \ {who} /\ UNCHANGED lostPurge
       ELSE lostPurge' = lostPurge \cup ({who} \cap intentFile) /\ UNCHANGED intentFile
    /\ UNCHANGED <<who, config, memVars, overlay, keyFile, used, issuedKeys, writable,
                   boundVars, erasedBy, restrictedBy, dropped, shredded, retired, lostKeys>>

\* Mutant: the key is destroyed in memory only.
ShredUnsaved ==
    /\ pc = "shred" /\ pc' = "down"
    /\ UNCHANGED keyFile
    /\ shredded' = shredded \cup {who}
    /\ retired' = [retired EXCEPT ![who] = @ \cup used[who]]
    /\ UNCHANGED <<who, config, memVars, overlay, intentFile, used, issuedKeys, writable,
                   boundVars, erasedBy, restrictedBy, dropped, lostPurge, lostKeys>>

\* ... and last the key.  The command ends.
Shred ==
    /\ pc = "shred" /\ pc' = "down"
    /\ IF who \in DOMAIN keyFile /\ "keys" \in writable
       THEN /\ keyFile' = Forget(keyFile, who)
            /\ shredded' = shredded \cup {who}
            /\ retired' = [retired EXCEPT ![who] = @ \cup used[who]]
       ELSE UNCHANGED <<keyFile, shredded, retired>>
    /\ UNCHANGED <<who, config, memVars, overlay, intentFile, used, issuedKeys, writable,
                   boundVars, erasedBy, restrictedBy, dropped, lostPurge, lostKeys>>

FileFault(f) ==
    /\ faults < MaxFaults /\ faults' = faults + 1
    /\ writable' = IF f \in writable THEN writable \ {f} ELSE writable \cup {f}
    /\ UNCHANGED <<pc, who, config, memVars, fileVars, used, issuedKeys, deploys, commands,
                   historyVars>>

Next ==
    \/ Boot \/ Stop \/ StopInKeySave \/ PurgeIntents \/ Shred
    \/ \E cfg \in SUBSET Buyer : Deploy(cfg)
    \/ \E b \in Buyer : ShredInactive(b) \/ Request(b)
    \/ \E b \in Buyer : RestrictBuyer(b) \/ UnrestrictBuyer(b) \/ Export(b) \/ Suppress(b)
    \/ \E f \in Files : FileFault(f)

Spec == Init /\ [][Next]_vars

-----------------------------------------------------------------------------
IsKeys(k) == DOMAIN k \subseteq Buyer /\ \A b \in DOMAIN k : k[b] \in 1..issuedKeys

\* Type correctness of the stores, their files and the history.
TypeOK ==
    /\ pc \in {"down", "up", "purge", "shred"} /\ who \in Buyer
    /\ config \in SUBSET Buyer /\ intents \in SUBSET Buyer /\ intentFile \in SUBSET Buyer
    /\ st \in [index: SUBSET Buyer, suspended: SUBSET Buyer, erased: SUBSET Mark]
    /\ overlay \in [legacy: BOOLEAN, suppressed: SUBSET Mark, restricted: SUBSET Buyer]
    /\ IsKeys(keys) /\ IsKeys(keyFile)
    /\ used \in [Buyer -> SUBSET (1..issuedKeys)] /\ retired \in [Buyer -> SUBSET (1..issuedKeys)]
    /\ writable \in SUBSET Files /\ issuedKeys \in 0..MaxKeys
    /\ deploys \in Nat /\ commands \in Nat /\ faults \in Nat
    /\ erasedBy \in SUBSET Buyer /\ restrictedBy \in SUBSET Buyer /\ dropped \in SUBSET Buyer
    /\ shredded \in SUBSET Buyer /\ lostPurge \in SUBSET Buyer /\ lostKeys \in BOOLEAN

\* Art. 17: a buyer whose erasure reached the overlay, or came with a legacy overlay, is
\* never served again, whatever configs are deployed, commands run and processes die
\* (entitlements.ts: "is not undone by a later config re-grant").
ErasedNotServed == pc = "up" => \A b \in erasedBy : ~Get(st, b)

\* The order of an erasure: once a buyer's key is destroyed on disk, the buyer is already
\* denied and no longer named in intents.json, so that a crash cannot leave a raw id behind
\* a shredded key (toolkit.ts 101-108), unless the purge's own write was lost.
ErasureOrder ==
    \A b \in shredded :
        /\ HashBuyerId(b) \in ErasedIn(overlay)
        /\ b \in intentFile => b \in lostPurge

\* Crypto-shredding holds: no key destroyed by an erasure or for inactivity is in use or on disk again, so
\* entries of a buyer that comes back cannot be linked to the ones before (pseudonym.ts).
Unlinkable ==
    \A b \in Buyer : /\ b \in DOMAIN keys => keys[b] \notin retired[b]
                     /\ b \in DOMAIN keyFile => keyFile[b] \notin retired[b]

\* "Same buyer, same pseudonym": the entries of a buyer since its key was last destroyed are all under
\* one key, across restarts, unless a save of the key file was lost or torn.
OnePseudonym ==
    ~lostKeys => \A b \in Buyer : Cardinality(used[b] \ retired[b]) <= 1

\* Erasure forgets the identity: while the node runs, dsr-state.json names no erased buyer
\* in clear, neither as erased nor as restricted, legacy overlays included.  The exception
\* is one that a later restrict command names again, which suspend() lets through.
RawForgotten ==
    pc = "up" => \A b \in erasedBy :
        Raw(b) \notin overlay.suppressed /\ (b \in overlay.restricted => b \in restrictedBy)

\* Art. 18: a restricted buyer is not served until an operator lifts the restriction, as
\* long as no config deployed in between leaves the buyer out.
RestrictedNotServed == pc = "up" => \A b \in restrictedBy \ dropped : ~Get(st, b)

\* dsr-state.ts 6-9: the overlay is kept apart "so that a config redeploy can never silently
\* undo an Art. 17 erasure or an Art. 18 restriction".
RestrictionSurvivesRedeploy == pc = "up" => \A b \in restrictedBy : ~Get(st, b)

=============================================================================
