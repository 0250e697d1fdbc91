# A verification of gam-seller-mcp-node

TLA+ modules, TLC configurations and TLAPS proofs for the seller-side MCP node in
`src/`. The node answers buyers' tools (catalogue, forecast, availability, intents)
behind a token, keeps a hash-chained audit ledger of what it decided, and gives the
publisher's operator commands for tokens and data-subject requests. It is one
Node.js process with one thread over a directory of JSON files.

Paths below are relative to `src/src/`.

## 1. The system

| Component | State | Operations |
|---|---|---|
| audit ledger (`audit/ledger.ts`) | hot entries, carried hash, `ledger.json`, health flag | append, rotateOut, load, replayVerify, hashAt |
| anchoring (`audit/anchor.ts`) | anchor records, JSONL file | anchor, readAll, verifyAfterRestore |
| external sinks (`audit/anchor-tsa.ts`, `anchor-s3.ts`) | queue, manifest, set of noted seqs | append, reconcile, readAll |
| retention (`audit/retention.ts`) | archived segments, `ledger-archive.json` | rotate, purge, shredInactive |
| pseudonyms (`audit/pseudonym.ts`) | one key per buyer, key file | pseudonymize, shred, shredInactive |
| entitlements (`policy/entitlements.ts`, `dsr-state.ts`) | index, suspended, erased; config and `dsr-state.json` | load, suspend, restore, remove |
| DSR toolkit (`dsr/*`) | none of its own | export, restrict, unrestrict, suppress |
| intents (`intent/store.ts`, `handoff.ts`) | active intents, `intents.json`, handoff file | create, revoke, sweepExpired, purgeBuyer, emit |
| request prologue (`server.ts` guardedTool) | replay guard, limiters (memory only) | the guards of every authenticated tool |
| tokens (`identity/*`) | denylist file, key pair | validate, revoke, issue |
| forecast (`forecast/gam-source.ts`, `engine.ts`) | snapshot of figures | refresh, forecast, checkAvailability |
| owner lease (`owner-lease.ts`) | lease file on the volume | acquire, renew, release |
| capability document (`discovery/well-known.ts`) | the cached signed document | sign, verify |
| key file (`identity/keystore.ts`) | the node's key pair | load or create |
| HTTP transport (`http.ts`) | session table | POST, GET, DELETE of `/mcp`, the public document |
| buyer client (`examples/buyer-client-ts/client.ts`, beside `src/src/`) | the connected flag | connect, call, close |

How they interact. `main()` takes the owner lease, loads every store from its file,
verifies the restored ledger against the anchors, anchors the head, runs a retention
cycle and a sweep, then serves; five timers repeat the anchoring (60 min), retention
(6 h), sweep (60 s), GAM refresh (30 min) and heartbeat (5 s). Every tool goes through
`guardedTool` and appends to the ledger. The token and DSR commands are other
processes that own the same files while the node is stopped; the lease is what keeps
them apart.

What is hard here. File calls are synchronous, so nothing interleaves *inside* most
handlers. The difficulty is elsewhere:

* a handler makes two to four durable writes, and the process can die between (or
  inside) any two of them;
* a failed write is recorded in a health flag and otherwise swallowed, so memory and
  disk part ways until the next save;
* requests do interleave at their awaits, reconcile and refresh cycles overlap
  because nobody awaits them, and contenders for the lease share nothing but a file;
* what was checked at boot (config, overlay, clock) is used much later.

`PROJECT.json` lists these as hazards, each at its line, with the properties that
would notice it going wrong.

## 2. Modules

Each module has its theorems in a module of its own, `<module>Proofs` (section 5).

A crash is modelled by making every durable write a step: a program counter says
which write comes next and a stop may come first. A write that fails leaves the file
as it was. Variables called *history* in the declarations only feed properties.

### AuditChain: ledger, anchors, archive

`mem` and `disk` are the ledger in memory and in `ledger.json`; a ledger is
`[base, next, carry, log]`, `log` a function on the sequence numbers that are hot. A
hash covers the whole entry and the hash before it, so it is modelled as an identity:
each computed entry gets a number of its own. `anchorFile` is a sequence of lines,
whole or torn, and `anchorNl` says whether it ends in a newline: an append to a file
without one merges with the torn line, as `appendFileSync` does. `segs` is the
archive. Actions: `Boot` (load and `verifyAfterRestore`), `AnchorTimer`/`AnchorHead`/
`AnchorHeadLog`, `RetentionTimer`/`Rotate`/`RotateAnchor`/`RotateLog`/`RotateArchive`/
`Purge`, `ServeRequest`, `CliAudit`/`CliAnchor`, `Stop`, and the two stops inside a
non-atomic write. The ledger's save is a rename of a temporary file, so it is atomic;
the anchor's and the archive's are not. The retention cycle's third part,
`shredInactive`, touches the pseudonym keys only and is in `BuyerRights`.

### OwnerLease

Each process has a program counter; every file-system call is a step (`Create`,
`Fill`, `Read`, `Recheck`, `Unlink`, `RenewRead`, `RenewWrite`, `ReleaseRead`,
`ReleaseUnlink`), because the contenders share only the volume. `Ident` gives pid and
host: a restarted container has its predecessor's. Time is kept as ages, cut off just
past the stale limit. `punctual` chooses, once, whether live processes are always
scheduled before time passes (a node that is not paused) or may sleep for any time.
Because ages are cut off, two leases of one holder both older than the limit count as
one; the code would tell their timestamps apart. This needs a process paused inside
`acquire`, and the properties that could notice ask for punctual ones.

### IntentLifecycle

`create_intent`, `revoke_intent` and the sweep, with the store's write, the ledger
event and the handoff line as steps in the code's order; `Boot` loads lapsed intents
as they are and sweeps; `PurgeBuyer` is what `dsr suppress` does to the file. An
intent keeps the time left to its expiry.

### IntentContract

The abstract specification: what a buyer and the publisher may rely on, with no files
in it. An intent opens once and closes once; its opening and its end are each noted at
most once, the end only after it is closed; the publisher is told at most once, after
the opening was noted. `IntentLifecycle` implements it (`ImplementsContract`) under
the mapping given at `Promised`: an intent's phase is read off the current store (the
memory of a running node, the file of a stopped one), `noted` and `told` count the
lines of the ledger and of the handoff file, and `loss` says that some stop discarded
what a failed write had left in memory only. From such a stop on, "once" is withdrawn,
because an intent that came back from an old file ends again, but the order of the
notes and what the publisher was told still hold.

### BuyerRights

The entitlement store over config and overlay, with the legacy overlay's raw ids
(`times = 0`), the hashes enforcement looks for (1) and a double hash (2), which
would match nobody. `Suppress`, `PurgeIntents`, `Shred` are the three writes of an
erasure. Keys are numbers; `used[b]` is what the ledger's entries of `b` are under.

### RequestPipeline

One request is split at its awaits: `Arrive` (idempotency key and replay guard),
`Verify` (jwtVerify settles, exp), `Decide` (denylist, policy, limiter, handler),
`Source` (the forecast source answers or fails). The guard and the limiters are
forgotten by a restart. The idempotency key is mandatory, as it is by default
(`config/resolve.ts:96`); the opt-out is not modelled.

### AnchorSink

The protocol shared by the TSA and the S3 sink: `Reconcile` takes the queue, `Submit`
and `Accept` are the request and the external store's side of it, `Note` is the
manifest, `Finish` puts failures back. What a boot has to queue again is `Requeued`, the
mirror's records without a note in the mirror's order; `Nth` names the k-th of them. Up to two cycles overlap. `CliAppend` is the
token command, which writes the mirror and not the sink.

### Forecast

The refresh cycles over the snapshot, and, as pure operators, what
`check_availability` answers from it. What a cycle has still to ask for, `todo`, is a set
of places in the configured lists of families and periods, and `First` takes them in the
order of the two loops. `Decade` is a power of ten; `MaxDigits` bounds the figures. `Quantize`, `Answer` and `Alternatives` follow
`quantizeAvailability`, `checkAvailability` and `findAlternatives`; a handler awaits
nothing outside the process, so an answer is a function of the state and the
properties quantify over every request, policy and entitlement instead of storing
answers.

### HttpFront

What a buyer meets before its first tool call. `GetCached`, `GetSigned` and `Signed`
are `sign()`, split at its await: two requests may sign at once, and `iat` and `exp`
are set before the signature while `cachedAtMs` is set after it. `copy` is the document
in a shared HTTP cache, which the route's `public, max-age` header admits. `Boot`,
`BootFirst`, `BootTorn` and `Rotate` are the key file: read, created (on a missing
file and on any other error of the read, as the bare `catch` has it), torn by a crash,
deleted by an operator. `Opened`, `Route`, `Refuse`, `Answer` and `Delete` are the
session table, a request being split at the reading of its body; `Connect`, `Call` and
`Close` are the example client, whose `close()` sends no DELETE.

## 3. Runs

| Run | Module, config | Expected | What it shows |
|---|---|---|---|
| audit_chain | MCAuditChain, AuditChain.cfg | pass | chain, anchors, archive and health agree through two stops and a failing file |
| fresh_restart | MCAuditChain, AuditChainFresh.cfg | violation | a node that stops before its first anchor does not boot again |
| truncated_tail | MCAuditChain, AuditChainTruncated.cfg | violation | a ledger cut below an earlier anchor passes verification |
| owner_lease | MCOwnerLease, OwnerLease.cfg | pass | exclusion outside the races; takeover; two owners do not last |
| intent_lifecycle | MCIntentLifecycle, IntentLifecycle.cfg | pass | the node implements `IntentContract`; store and ledger agree; every commitment ends |
| intent_dangling | MCIntentLifecycle, IntentDangling.cfg | violation | a stop inside a sweep leaves INTENT_CREATED without an end |
| buyer_rights | MCBuyerRights, BuyerRights.cfg | pass | erasure and restriction hold |
| restriction_redeploy | MCBuyerRights, RestrictionRedeploy.cfg | violation | two redeployments undo a restriction |
| request_pipeline | MCRequestPipeline, RequestPipeline.cfg | pass | replay, rate, revocation, audit trail |
| anchor_sink | MCAnchorSink, AnchorSink.cfg | pass | nothing dropped, nothing falsely claimed, all externalized |
| forecast | MCForecast, Forecast.cfg | pass | fresh, in season, without contradiction |
| http_front | MCHttpFront, HttpFront.cfg | pass | documents verify; calls reach live sessions only; nobody is shut out |

The violation runs state what a comment or a test of the repository says and the code
does not keep; `PROJECT.json` quotes the line in each finding. Two of the passing
properties are the same statement under the condition that makes it true:
`RestartAccepted` (some anchor exists) and `RestrictedNotServed` (no config left the
buyer out). `SingleOwner` is conditional too (no call acted on a file that changed
under it), and nothing in the repository claims more: `removeStale`'s comment admits a
window in which two processes both own. `TwoOwnersResolve` says that this does not last.

### Bounds

Every bound is a named constant used only in a guard.

* AuditChain: ages of 1, anchors every 1, retention every 2, six time units, one
  entry of traffic besides the ANCHORING entries, two stops, one fault. This is
  enough for two rotations, a purge, a torn anchor line followed by another append,
  and a ledger that is down while an archive expires. `RestartAccepted` rests on both
  halves of the assumption `Cadences`: with retention as frequent as anchoring, or with
  hot entries that age faster than the anchor timer fires, TLC finds a rotation that
  leaves the last anchor neither hot nor last rotated. 60 min against 6 h and at least
  one hot day keep away from that.
* OwnerLease: three processes, the third the restart of the first; a heartbeat of 1, a
  stale limit of 2 and one missed heartbeat (real: 5 s, 20 s). The assumption
  `(MaxMissed + 1) * HeartbeatEvery <= StaleAfter` is what exclusion needs.
* IntentLifecycle: two intents of two buyers, TTL 2, price validity 3 so that either
  may bound the expiry, two stops, two faults, so that a file can fail and recover and
  fail again.
* BuyerRights: two interchangeable buyers (symmetry), three keys, three commands, one
  redeployment (two in restriction_redeploy), any legacy overlay and config initially.
* RequestPipeline: two requests (pairs are what replay and rate are about), two
  tokens with different expiries, a replay window of 2, a restart.
* AnchorSink: two cycles, three records over sequence numbers 0 to 2 (so one may be
  anchored twice), one crash, two failures.
* Forecast: two families, two periods of which one ends and one opens during the run,
  two cycles, three policies (figures, figures with haircut and least quantity,
  ladder), three request sizes around the rounded figures. Cycles are symmetric.
* HttpFront: two buyers, a TTL of 3, fresh for 2, signatures of at most 1 (real: 840 s,
  756 s, milliseconds), three sessions, two key pairs, two stops, one refused body or
  misread. Two signatures overlap, a copy outlives its document in the shared cache,
  and a second key pair meets documents of the first. `Fresh + SignTime <= TTL` is the
  assumption `SignsWithinMargin`: without it a slow signature hands out an expired
  document.

`CHECK_DEADLOCK FALSE` is given where the bounded run ends by itself because the clock,
the requests or the traffic run out, or where a stopped node may stay stopped.

### Fairness

* OwnerLease: weak fairness of the clock and of each live process's own steps: the
  operating system schedules it. Nothing is assumed of starts, releases, crashes.
* IntentLifecycle: weak fairness of the running handler or timer, of the clock, and of
  `Boot` (`docker-compose.yml:22`, `restart: unless-stopped`). Buyers and operators
  are not fair.
* AnchorSink: weak fairness of `Boot` and of each cycle's progress. The code sets no
  timeout on its requests, but the runtime's own `fetch` limits end them, in an answer
  or in a failure; failures are bounded, which says that the store is not down for ever.
* HttpFront: weak fairness of the clock, of the boot (same restart policy), and of each
  buyer's next step: bodies and signatures end, and a buyer goes on calling, closing a
  client whose session is gone. A buyer that has a usable copy in the shared cache is
  not assumed to reach past it. Stops, rotations, DELETEs and refusals are not fair.

## 4. Properties

Each property is stated in words above its definition. The ones that carry most:

* `ChainLinked`, `AnchorsPinChain`: replay succeeds on memory and disk at every
  instant, and every anchor line still names what it named.
* `RestartAccepted`, `ArchiveTiles`: a stop between any two writes leaves files the
  next boot accepts, and the archive is exactly what left the ledger.
* `ImplementsContract`, `StoreMatchesLedger`, `EventuallyEnds`: an intent ends, once, in
  the record, wherever the process stops, and the publisher hears of recorded intents
  only.
* `ErasedNotServed`, `ErasureOrder`, `Unlinkable`: an erasure survives configs,
  restarts, crashes inside it and legacy files.
* `SingleOwner`, `TwoOwnersResolve`: the lease excludes outside its known windows, and
  recovers inside them.
* `NoReplay`, `RateKept`, `RevokedWithheld`: the guards hold across the awaits.
* `NothingDropped`, `EventuallyExternal`: overlapping cycles neither lose nor invent.
* `NoStaleFigure`, `AnswersAgree`: what a buyer is told is recent and coherent. The
  bound of `NoStaleFigure` is the staleness limit *plus one cycle's length*, since
  `fetchedAt` is the time of the answer, not of the question.
* `DocumentVerifies`, `ServedLive`, `EventuallyIn`: a document handed out is alive and
  keeps verifying through restarts; a call whose session was deleted while its body was
  read is not handled; and no buyer is shut out for good, except by a key file torn in
  its first write, which the node refuses to repair.

Each has a mutant in its module: an operator that changes a modelled definition the
way a plausible bug would, and makes TLC find the property violated.

## 5. Proofs

Every safety invariant the passing runs check, and the refinement, is a theorem for all
values of the constants. A run and its theorem share the definition of the property.

| Module | Theorem | Statement: `Spec =>` |
|---|---|---|
| AuditChainProofs | `TypeCorrect`, `ChainNeverBreaks` | `[]TypeOK`, `[]ChainLinked` |
| | `AnchorsAlwaysPin`, `HealthIsHonest` | `[]AnchorsPinChain`, `[]HealthHonest` |
| | `ArchiveAlwaysTiles`, `StorageAlwaysLimited` | `[]ArchiveTiles`, `[]StorageLimited` |
| | `RestartAlwaysAccepted` | `[]RestartAccepted` |
| OwnerLeaseProofs | `LeaseTypeCorrect`, `OneOwner`, `CrashedNodeRestarts` | `[]TypeOK`, `[]SingleOwner`, `[]TakeoverSucceeds` |
| IntentLifecycleProofs | `IntentTypeCorrect`, `StoreAgrees` | `[]TypeOK`, `[]StoreMatchesLedger` |
| | `ContractImplemented` | `ImplementsContract` |
| BuyerRightsProofs | `RightsTypeCorrect`, `ErasureHolds`, `ErasureInOrder` | `[]TypeOK`, `[]ErasedNotServed`, `[]ErasureOrder` |
| | `ShreddingHolds`, `PseudonymsStable` | `[]Unlinkable`, `[]OnePseudonym` |
| | `RawIdsForgotten`, `RestrictionHolds` | `[]RawForgotten`, `[]RestrictedNotServed` |
| RequestPipelineProofs | `PipelineTypeCorrect`, `ReplaysStopped`, `RateAlwaysKept` | `[]TypeOK`, `[]NoReplay`, `[]RateKept` |
| | `RevokedNeverAdmitted`, `AlwaysAudited` | `[]RevokedWithheld`, `[]Audited` |
| AnchorSinkProofs | `SinkTypeCorrect`, `NothingEverDropped` | `[]TypeOK`, `[]NothingDropped` |
| | `ManifestAlwaysTrue`, `NeverPutTwice` | `[]ManifestTrue`, `[]PutOnce` |
| ForecastProofs | `ForecastTypeCorrect`, `FiguresNeverStale` | `[]TypeOK`, `[]NoStaleFigure` |
| | `NoPeriodOutlived`, `AnswersAlwaysAgree` | `[]NoOverPeriod`, `[]AnswersAgree` |
| HttpFrontProofs | `FrontTypeCorrect`, `DocumentsAlwaysVerify`, `CallsReachLiveSessions` | `[]TypeOK`, `[]DocumentVerifies`, `[]ServedLive` |

The crash, fault and time bounds are constants too, so the theorems hold for any number
of stops, failed writes, requests and cycles.

### Assumptions

Each module's named assumption gives its constants their types. The ones with content:

* `Cadences` (AuditChain): the anchor timer is faster than the retention timer and than
  an entry ages out of the hot ledger. Only `RestartAlwaysAccepted` uses it; it needs
  both halves (section 3, Bounds).
* `(MaxMissed + 1) * HeartbeatEvery <= StaleAfter` (OwnerLease): 5 s, 20 s and at most
  three missed heartbeats. `HeldInv`, and so `OneOwner`, rests on it.
* `SignsWithinMargin` (HttpFront): a signature takes less than the tenth of the lifetime
  that `CACHE_FRESH_MS` leaves. Only the documents use it.
* `DisclosurePolicies` (Forecast): what `parseDisclosurePolicy` accepts. A ladder
  without the mantissa 1 would have no step below some figure.
* `PowersOfTen` (Forecast): `Decade(0) = 1` and each power is ten times the one before.
  This is arithmetic and not an assumption about the node; the provers know nothing of
  `^`, and TLC evaluates it up to `MaxDigits`.

### The inductive invariants

Hardly any property is inductive as it stands. What has to be added says how the code
works, and is the part worth reading:

* **AuditChain.** Types and chain are one invariant (`ChainInvariant`), because a
  rotation yields a ledger only when the linkage holds. `PinInv` adds the record that is
  about to be written. `TileInv` follows the archive through a stop and through the
  middle of a rotation, where the segment in hand is what is missing between archive and
  ledger. `OrderInv` (times do not go back along the chain), `ClockInv` (a timer is
  never late when it is looked at) and `StorageInv` (limits measured from the last
  retention cycle) give the storage limits. `ReachInv` gives the restart: the latest
  anchor never falls behind a rotation, since either every entry after it is younger
  than an anchor period (`FreshTail`) and so too young to be rotated, or the anchor
  timer fires before the next rotation.
* **OwnerLease.** Outside the races a process that owns, renews or releases has its own
  lease in the file, with an age within the heartbeats missed so far (`HeldInv`); a
  punctual process writes what it stamped without time passing (`AgeInv`); what a
  contender is about to remove may still be taken, since leases only grow older
  (`SeenInv`). `SoleInv` follows a process that started alone.
* **IntentLifecycle.** `WorkInv` says where a handler is between two writes, `MatchInv`
  that store and ledger agree up to the event that comes next, `LagInv` that the
  ledger's file lags behind the process and never differs.
* **BuyerRights.** The store in memory is exactly what overlay and config say
  (`StoreInv`); the rest are statements about the files (`Records`), which redeployments
  and stops leave alone. A key is destroyed last (`IntentInv`); a key in use and not
  retired is the buyer's current one (`OneKey`).
* **RequestPipeline.** The properties speak of requests, the guards keep one number per
  key: `GuardInv`, `LimitInv` and `DenyInv` say that these numbers cover every request
  or revocation of the present run, across the awaits.
* **AnchorSink.** `CoverInv` says where each record is. `PutOnce` needs that a record
  anchored once has one place in all the queues and cycles together (`PlaceInv`), and
  what its submission's state means (`OnceInv`).
* **Forecast.** The properties measure a figure's age when a buyer asks; `CycleInv` and
  `ReadInv` bound what happened before the figure came. `AnswersAgree` needs one more
  invariant, `NetworkInv`, and otherwise lemmas about the operators: rounding down
  stays within a figure's digits and is monotone across decades, for significant figures
  and for ladders (`RoundFacts`, `RoundMonotone`), so is what is offered
  (`QuantizeFacts`); the alternatives' order is strict and total (`PrecedesOrders`);
  and the first k of an ordered set are k, or all of them (`FirstCount`).
* **HttpFront.** A cached document is older than its stamp by a signature at most
  (`CacheInv`); a copy verifies under the file's key pair or a retired one whether the
  node runs or not (`CopyInv`); a call has its session (`ClientInv`).

### The refinement

`ContractImplemented` goes action by action: one lemma per action says which step of
`IntentContract` it is, or that the contract sees no change (`SamePhases`, `SameNotes`).
Writing an event is the contract's note, removing an intent from the store its closing,
and a stop is the contract's loss when a failed write was in memory only. The invariant
is used where an action relies on the past: an event about to be written is the first
of its kind for that intent, because `EndInv` says that no stored or ending intent has
a terminal event yet.

### How the models serve the proofs

The provers do not reason about `SelectSeq` or `^`, so `Requeued` names the sequence's
elements one by one, a cycle's `todo` is a set of places, and powers of ten are behind
`Decade`. `RestrictBuyer` and `UnrestrictBuyer` are named so because the library's
function theorems define `Restrict`. None of this changes what is modelled: the state
graphs TLC explores are the same.

### Only model-checked

* Liveness: `TwoOwnersResolve`, `EventuallyEnds`, `EventuallyExternal`,
  `EventuallyIn`. Fairness speaks of ENABLED, which is beyond this prover.
* That four statements of the repository do *not* hold: a violation is a trace.
## 6. Not modelled

* Stateless code: catalogue projection, the text of the capability document, error
  envelopes, configuration checks, metrics, argument parsing of the commands, the
  synthetic sources, the demonstration script (a sequence of calls to modelled tools).
* Encoding and cryptography: JWT signatures, hashing, XML, RFC 3161, SigV4. A hash is
  an identity, a token a value with an expiry, a request succeeds or fails.
* The GAM client's token cache: one await in front of a request that is already modelled
  as one that may fail.
* The SSE stream of a session (GET `/mcp`), which the SDK's transport serves, and the
  document tool inside a session, which calls the same `sign()` as the public route.
* `last_used_at` of pseudonym keys and its lazy flush; torn writes of the denylist and
  of the sinks' manifests; the ledger's and the anchor file's legacy formats.
* The mode without mandatory idempotency keys.

Some behaviour was met while modelling and is worth knowing, though no property is about
it:

* `max-age` counts from receipt, so a shared cache that took a document of age 756 s may
  hand it out for another 840 s, most of them after its `exp`. A buyer rejects such a
  document and has to wait for the cache.
* `keystore.ts:23`: any error of the read, not only a missing file, creates a new
  identity over the old one.
* The example client's `close()` sends no DELETE, and the server does not time sessions
  out, so the table and the gauge read off it keep abandoned sessions until a restart.
* `replay.ts:41`: `prune()` is not called, so the replay guard's map only loses an id
  that is presented again.
* `pseudonym.ts:63` has `last_used_at` flushed by the sweep, but `shredInactive` saves
  only when it deleted a key, so the time of last use of an active buyer's key may
  reach the file much later.

## 7. Plan

Done: the inventory, the modules above and their runs, the contract of the intents and
its refinement, and a theorem for every safety property the runs check. Left, in the
order of what it would add:

1. Time of last use in the pseudonym service: that the boot cycle never destroys the
   key of a buyer active within the horizon, or a run that shows it can.
2. A composition of the node and a command over the lease: what two owners do to the
   ledger's file.
3. Theorems about what takes the place of liveness in a safety statement: that a step
   towards the goal is possible in every state (for the intents, the sinks and the
   lease), where it can be said without ENABLED.
