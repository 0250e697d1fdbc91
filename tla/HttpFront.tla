------------------------------ MODULE HttpFront ------------------------------
(***************************************************************************)
(* What a buyer agent meets before its first tool call: the signed         *)
(* capability document at its public route (discovery/well-known.ts), the  *)
(* node's persistent key pair that signs it (identity/keystore.ts), and    *)
(* the session table of the HTTP transport (http.ts), with the buyer's     *)
(* client (examples/buyer-client-ts/client.ts) on the other side and the   *)
(* shared HTTP cache that "Cache-Control: public" admits in between.       *)
(*                                                                         *)
(* A handler runs without interleaving between two awaits: the signature,  *)
(* the request's body, the handler of the call.  Times are ages: the clock *)
(* itself is not kept.                                                     *)
(***************************************************************************)
EXTENDS Integers, FiniteSets

CONSTANTS
    Buyer,
    TTL,          \* WELL_KNOWN_CACHE_TTL_SECONDS: the document's exp, and the max-age
    Fresh,        \* CACHE_FRESH_MS: the age at which the node signs anew
    SignTime,     \* the longest time a signature takes
    MaxSessions,  \* bound: sessions opened
    MaxKeys,      \* bound: key pairs generated
    MaxStops,     \* bound: stops of the node
    MaxFaults     \* bound: refused bodies, and boots that cannot read the key file

ASSUME HttpConstants ==
    /\ TTL \in Nat \ {0} /\ Fresh \in Nat \ {0} /\ SignTime \in Nat
    /\ MaxSessions \in Nat /\ MaxKeys \in Nat /\ MaxStops \in Nat /\ MaxFaults \in Nat

\* CACHE_FRESH_MS is nine tenths of the TTL, and a signature takes less than the last one.
ASSUME SignsWithinMargin == Fresh + SignTime <= TTL

VARIABLES
    up,        \* the node serves
    key,       \* the key pair of the running node, or of the last one that ran
    keyFile,   \* node-rs256.private.jwk.json: a key pair, Missing or Torn
    cache,     \* WellKnownService's cached document: its age, and that of cachedAtMs
    copy,      \* the document in the shared HTTP cache, with the time it was there
    sessions,  \* the session table
    opened,    \* session ids generated so far
    at,        \* where each buyer's client is
    sid,       \* the session id its transport holds
    signing,   \* the age of the document being signed for it
    issued,    \* key pairs generated so far
    stops, faults,
    retired    \* history: key pairs replaced by an operator, or by a boot that could not read

nodeVars == <<up, key, keyFile, issued, retired>>
docVars == <<cache, copy>>
clientVars == <<at, sid, signing>>
sessionVars == <<sessions, opened>>
boundVars == <<stops, faults>>
vars == <<nodeVars, docVars, sessionVars, clientVars, boundVars>>

-----------------------------------------------------------------------------
Missing == 0
Torn == -1
KeyPair == 1..MaxKeys
NoDocument == [none |-> TRUE]
NoSession == 0

Init ==
    /\ up = FALSE /\ key = Missing /\ keyFile = Missing /\ issued = 0 /\ retired = {}
    /\ cache = NoDocument /\ copy = NoDocument
    /\ sessions = {} /\ opened = 0
    /\ at = [b \in Buyer |-> "start"] /\ sid = [b \in Buyer |-> NoSession]
    /\ signing = [b \in Buyer |-> 0]
    /\ stops = 0 /\ faults = 0

-----------------------------------------------------------------------------
(* loadOrCreateKeyPair, at boot. *)

\* Mutant: what the file holds is not looked at.
BootUnchecked ==
    /\ ~up /\ keyFile # Missing
    /\ up' = TRUE /\ key' = keyFile
    /\ UNCHANGED <<keyFile, issued, retired, docVars, sessionVars, clientVars, boundVars>>

\* A readable key file is the node's identity; one that does not parse stops the boot.
Boot ==
    /\ ~up /\ keyFile \in KeyPair
    /\ up' = TRUE /\ key' = keyFile
    /\ UNCHANGED <<keyFile, issued, retired, docVars, sessionVars, clientVars, boundVars>>

\* Every error of the read, not only a missing file, leads to a new key pair.
CreatesKey ==
    \/ keyFile = Missing /\ UNCHANGED <<faults, retired>>
    \/ /\ keyFile \in KeyPair /\ faults < MaxFaults
       /\ faults' = faults + 1 /\ retired' = retired \cup {keyFile}

BootFirst ==
    /\ ~up /\ issued < MaxKeys
    /\ CreatesKey
    /\ issued' = issued + 1
    /\ keyFile' = issued' /\ key' = issued' /\ up' = TRUE
    /\ UNCHANGED <<stops, docVars, sessionVars, clientVars>>

\* The process dies inside writeFileSync.
BootTorn ==
    /\ ~up /\ issued < MaxKeys /\ stops < MaxStops
    /\ CreatesKey
    /\ issued' = issued + 1 /\ stops' = stops + 1
    /\ keyFile' = Torn
    /\ UNCHANGED <<up, key, docVars, sessionVars, clientVars>>

\* Emergency rotation: the operator deletes the file of a stopped node.
Rotate ==
    /\ ~up /\ keyFile # Missing /\ issued < MaxKeys
    /\ keyFile' = Missing
    /\ retired' = retired \cup ({keyFile} \cap KeyPair)
    /\ UNCHANGED <<up, key, issued, docVars, sessionVars, clientVars, boundVars>>

\* The table, the cached document and every request in flight go with the process.  A client
\* that had a session keeps its id.
Stop ==
    /\ up /\ stops < MaxStops /\ stops' = stops + 1
    /\ up' = FALSE /\ cache' = NoDocument /\ sessions' = {}
    /\ at' = [b \in Buyer |-> CASE at[b] \in {"signing", "opening"} -> "start"
                                [] at[b] \in {"body", "call"} -> "lost"
                                [] OTHER -> at[b]]
    /\ signing' = [b \in Buyer |-> 0]
    /\ UNCHANGED <<key, keyFile, issued, retired, copy, opened, sid, faults>>

-----------------------------------------------------------------------------
(* The capability document. *)

\* A cache keeps a document for max-age from the moment it came in.
CopyUsable == copy # NoDocument /\ copy.held < TTL

\* WellKnownService.verify, as the buyer does it: the signature and exp.
Verifies(age, k) == age < TTL /\ k = key

\* What the buyer makes of a document.
Judge(b, age, k) == at' = [at EXCEPT ![b] = IF Verifies(age, k) THEN "trusted" ELSE "start"]

GetFromCopy(b) ==
    /\ at[b] = "start" /\ CopyUsable
    /\ Judge(b, copy.age, copy.key)
    /\ UNCHANGED <<nodeVars, docVars, sessionVars, sid, signing, boundVars>>

\* The node's answer passes through the shared cache.
Serve(b, age) ==
    /\ copy' = [age |-> age, held |-> 0, key |-> key]
    /\ Judge(b, age, key)

\* Mutant: the document is reused until it expires.
IsFreshToTheEnd == cache # NoDocument /\ cache.stamp < TTL

IsFresh == cache # NoDocument /\ cache.stamp < Fresh

\* GET of the public route, sign(): the cached document while it is fresh ...
GetCached(b) ==
    /\ up /\ at[b] = "start" /\ IsFresh
    /\ Serve(b, cache.age)
    /\ UNCHANGED <<nodeVars, cache, sessionVars, sid, signing, boundVars>>

\* ... and otherwise a new one, whose iat and exp are set before the signature is awaited ...
GetSigned(b) ==
    /\ up /\ at[b] = "start" /\ ~IsFresh
    /\ at' = [at EXCEPT ![b] = "signing"] /\ signing' = [signing EXCEPT ![b] = 0]
    /\ UNCHANGED <<nodeVars, docVars, sessionVars, sid, boundVars>>

\* ... and cachedAtMs after it.  A document signed meanwhile for another request is replaced.
Signed(b) ==
    /\ at[b] = "signing"
    /\ cache' = [age |-> signing[b], stamp |-> 0]
    /\ Serve(b, signing[b])
    /\ signing' = [signing EXCEPT ![b] = 0]
    /\ UNCHANGED <<nodeVars, sessionVars, sid, boundVars>>

-----------------------------------------------------------------------------
(* POST and DELETE /mcp.  connect(), callToolText() and close() of the client. *)

\* connect(): an initialize request without a session id; the node reads its body.
Connect(b) ==
    /\ at[b] = "trusted"
    /\ up => opened < MaxSessions
    /\ at' = [at EXCEPT ![b] = IF up THEN "opening" ELSE "start"]
    /\ UNCHANGED <<nodeVars, docVars, sessionVars, sid, signing, boundVars>>

\* A new transport gets a new id, and is in the table before the answer leaves.
Opened(b) ==
    /\ at[b] = "opening" /\ opened < MaxSessions
    /\ opened' = opened + 1 /\ sessions' = sessions \cup {opened'}
    /\ at' = [at EXCEPT ![b] = "in"] /\ sid' = [sid EXCEPT ![b] = opened']
    /\ UNCHANGED <<nodeVars, docVars, signing, boundVars>>

\* A call in a session; the node reads its body.
Call(b) ==
    /\ at[b] = "in"
    /\ at' = [at EXCEPT ![b] = IF up THEN "body" ELSE "lost"]
    /\ UNCHANGED <<nodeVars, docVars, sessionVars, sid, signing, boundVars>>

\* readJsonBody throws, 413 or 400: whatever the session is.
Refuse(b) ==
    /\ at[b] \in {"opening", "body"} /\ faults < MaxFaults /\ faults' = faults + 1
    /\ at' = [at EXCEPT ![b] = IF @ = "opening" THEN "start" ELSE "in"]
    /\ UNCHANGED <<nodeVars, docVars, sessionVars, sid, signing, stops>>

\* Mutant: the transport is the one the table held when the request came.
RouteEarly(b) ==
    /\ at[b] = "body"
    /\ at' = [at EXCEPT ![b] = "call"]
    /\ UNCHANGED <<nodeVars, docVars, sessionVars, sid, signing, boundVars>>

\* Mutant: a request with an unknown session id is left without an answer.
RouteSilent(b) ==
    /\ at[b] = "body" /\ sid[b] \in sessions
    /\ at' = [at EXCEPT ![b] = "call"]
    /\ UNCHANGED <<nodeVars, docVars, sessionVars, sid, signing, boundVars>>

\* Once the body is read, the session is looked up and the call handed to its transport; an
\* unknown id is answered with 400, which the client takes for an error of the call.
Route(b) ==
    /\ at[b] = "body"
    /\ at' = [at EXCEPT ![b] = IF sid[b] \in sessions THEN "call" ELSE "lost"]
    /\ UNCHANGED <<nodeVars, docVars, sessionVars, sid, signing, boundVars>>

Answer(b) ==
    /\ at[b] = "call"
    /\ at' = [at EXCEPT ![b] = "in"]
    /\ UNCHANGED <<nodeVars, docVars, sessionVars, sid, signing, boundVars>>

\* DELETE has no body.  The transport's onclose takes the session out of the table and ends
\* its open answers; a request whose body is still being read has not found it yet.
Delete(b) ==
    /\ up /\ at[b] \in {"in", "body", "call"}
    /\ sessions' = sessions \ {sid[b]}
    /\ at' = [at EXCEPT ![b] = IF @ = "body" THEN @ ELSE "lost"]
    /\ UNCHANGED <<nodeVars, docVars, opened, sid, signing, boundVars>>

\* close() forgets the session without a DELETE: its entry stays in the table.  Only close()
\* resets "connected", so a client whose session is gone fails until its owner calls it.
Close(b) ==
    /\ at[b] \in {"in", "lost"}
    /\ at' = [at EXCEPT ![b] = "start"] /\ sid' = [sid EXCEPT ![b] = NoSession]
    /\ UNCHANGED <<nodeVars, docVars, sessionVars, signing, boundVars>>

-----------------------------------------------------------------------------
\* Time passes, for every document and every signature; what is too old to be used again,
\* in the node or in the shared cache, is dropped.
Tick ==
    /\ \A b \in Buyer : at[b] = "signing" => signing[b] < SignTime
    /\ cache' = IF cache = NoDocument \/ cache.stamp >= TTL THEN NoDocument
                ELSE [age |-> cache.age + 1, stamp |-> cache.stamp + 1]
    /\ copy' = IF CopyUsable
               THEN [copy EXCEPT !.age = @ + 1, !.held = @ + 1]
               ELSE NoDocument
    /\ signing' = [b \in Buyer |-> IF at[b] = "signing" THEN signing[b] + 1 ELSE 0]
    /\ UNCHANGED <<nodeVars, sessionVars, at, sid, boundVars>>

\* What the node and the client do by themselves; a buyer behind the shared cache reaches
\* the node's document only when the cache has none to give.
Progress(b) ==
    \/ GetFromCopy(b)
    \/ ~CopyUsable /\ (GetCached(b) \/ GetSigned(b))
    \/ Signed(b) \/ Connect(b) \/ Opened(b) \/ Call(b) \/ Route(b) \/ Answer(b)
    \/ at[b] = "lost" /\ Close(b)

Next ==
    \/ Boot \/ BootFirst \/ BootTorn \/ Rotate \/ Stop \/ Tick
    \/ \E b \in Buyer : \/ GetFromCopy(b) \/ GetCached(b) \/ GetSigned(b) \/ Signed(b)
                        \/ Connect(b) \/ Opened(b) \/ Call(b) \/ Refuse(b) \/ Route(b)
                        \/ Answer(b) \/ Delete(b) \/ Close(b)

Spec == Init /\ [][Next]_vars

\* A stopped node is started again (docker-compose.yml, restart: unless-stopped), the clock
\* runs, bodies and signatures come to an end, and buyers go on calling.
FairSpec ==
    /\ Spec /\ WF_vars(Tick) /\ WF_vars(Boot \/ BootFirst)
    /\ \A b \in Buyer : WF_vars(Progress(b))

-----------------------------------------------------------------------------
Place == {"start", "signing", "trusted", "opening", "in", "body", "call", "lost"}

\* Type correctness of the key file, the documents, the session table and the clients; no
\* document reaches an age the shared cache could not give it.
TypeOK ==
    /\ up \in BOOLEAN /\ key \in KeyPair \cup {Missing} /\ keyFile \in KeyPair \cup {Missing, Torn}
    /\ up => key \in KeyPair
    /\ issued \in 0..MaxKeys /\ retired \subseteq 1..issued
    /\ cache = NoDocument \/ cache \in [age: 0..(TTL + SignTime), stamp: 0..TTL]
    /\ copy = NoDocument \/ copy \in [age: 0..(Fresh + SignTime + TTL), held: 0..TTL, key: KeyPair]
    /\ sessions \subseteq 1..opened /\ opened \in 0..MaxSessions
    /\ at \in [Buyer -> Place] /\ sid \in [Buyer -> 0..opened]
    /\ signing \in [Buyer -> 0..SignTime]
    /\ stops \in 0..MaxStops /\ faults \in 0..MaxFaults

\* "A cached doc handed to a buyer is never seen expiring mid-flight" (well-known.ts 90-91): a
\* document has not expired when the node hands it out, however signatures overlap; and
\* "cached well-known signatures survive a reboot" (server.ts 673-674): until it expires, a
\* document held by a buyer verifies against the running node, whatever boots and crashes
\* came between, unless an operator replaced the key pair or a boot could not read it.
DocumentVerifies ==
    copy # NoDocument =>
        /\ copy.age - copy.held < TTL
        /\ (up /\ copy.age < TTL) => copy.key \in {key} \cup retired

\* A call is handled in a session that is open at that time, by the node that runs, and that
\* no other client uses, whatever was deleted or restarted while its body was being read.
ServedLive ==
    \A b \in Buyer : at[b] = "call" =>
        /\ up /\ sid[b] \in sessions
        /\ \A c \in Buyer \ {b} : sid[c] # sid[b]

\* No buyer is shut out for good: through expired copies in the shared cache, lost sessions
\* and restarts, a buyer gets to a live session, unless the key file was torn by a crash,
\* which the node refuses to repair.
EventuallyIn ==
    \A b \in Buyer :
        (sid[b] \notin sessions) ~> (sid[b] \in sessions \/ keyFile = Torn \/ opened = MaxSessions)

=============================================================================
