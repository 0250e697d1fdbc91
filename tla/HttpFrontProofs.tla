--------------------------- MODULE HttpFrontProofs ---------------------------
(***************************************************************************)
(* Theorems about what a buyer meets first, for every number of buyers,    *)
(* sessions, key pairs, stops and faults and every lifetime of a document: *)
(* type correctness, documents that verify, calls that reach live          *)
(* sessions.                                                               *)
(***************************************************************************)
EXTENDS HttpFront, TLAPS

\* The key file: the running node's key pair is the one in the file, and every key pair
\* was issued.
NodeInv ==
    /\ up \in BOOLEAN /\ key \in KeyPair \cup {Missing} /\ keyFile \in KeyPair \cup {Missing, Torn}
    /\ up => key \in KeyPair /\ key = keyFile
    /\ issued \in 0..MaxKeys /\ retired \subseteq 1..issued
    /\ keyFile \in KeyPair => keyFile <= issued

\* The documents: one in the node's cache is older than its stamp by a signature at most, a
\* copy was less than TTL old when it was handed out, and it is under the key pair in the
\* file or a retired one, whether the node runs or not.
CacheInv ==
    cache = NoDocument \/ /\ cache \in [age: Nat, stamp: 0..TTL]
                          /\ cache.age <= cache.stamp + SignTime

CopyInv ==
    copy = NoDocument \/ /\ copy \in [age: Nat, held: 0..TTL, key: KeyPair]
                         /\ copy.age - copy.held < TTL
                         /\ copy.age - copy.held <= Fresh + SignTime
                         /\ copy.key \in {keyFile} \cup retired

DocInv == CacheInv /\ CopyInv

\* The sessions: a request the node works on has a running node, a call has its session, and
\* no two clients hold one session.
ClientInv ==
    /\ sessions \subseteq 1..opened /\ opened \in 0..MaxSessions
    /\ at \in [Buyer -> Place] /\ sid \in [Buyer -> 0..opened]
    /\ signing \in [Buyer -> 0..SignTime]
    /\ \A b \in Buyer : at[b] \in {"signing", "opening", "body", "call"} => up
    /\ \A b \in Buyer : at[b] = "call" => sid[b] \in sessions
    /\ \A b, c \in Buyer : (b # c /\ sid[b] = sid[c]) => sid[b] = NoSession

BoundInv == stops \in 0..MaxStops /\ faults \in 0..MaxFaults

FrontInv == NodeInv /\ DocInv /\ ClientInv /\ BoundInv

\* The invariant implies the properties the runs check.
LEMMA FrontImplies == FrontInv => TypeOK /\ DocumentVerifies /\ ServedLive
  <1> SUFFICES ASSUME FrontInv PROVE TypeOK /\ DocumentVerifies /\ ServedLive
    OBVIOUS
  <1> USE HttpConstants
  <1>1. TypeOK
    <2>1. cache = NoDocument \/ cache \in [age: 0..(TTL + SignTime), stamp: 0..TTL]
      BY DEF FrontInv, DocInv, CacheInv, CopyInv
    <2>2. copy = NoDocument \/ copy \in [age: 0..(Fresh + SignTime + TTL), held: 0..TTL, key: KeyPair]
      BY DEF FrontInv, DocInv, CacheInv, CopyInv
    <2> QED BY <2>1, <2>2 DEF FrontInv, NodeInv, ClientInv, BoundInv, TypeOK
  <1>2. DocumentVerifies
    BY DEF FrontInv, NodeInv, DocInv, CopyInv, DocumentVerifies
  <1>3. ServedLive
    BY DEF FrontInv, ClientInv, ServedLive, NoSession
  <1> QED BY <1>1, <1>2, <1>3

\* Nothing is issued, cached or opened before the first boot.
LEMMA FrontInit == Init => FrontInv
  <1> SUFFICES ASSUME Init PROVE FrontInv
    OBVIOUS
  <1> USE HttpConstants DEF Init
  <1>1. NodeInv
    <2>1. issued \in 0..MaxKeys /\ retired \subseteq 1..issued /\ keyFile <= issued
      BY DEF Missing
    <2> QED BY <2>1 DEF NodeInv
  <1>2. DocInv
    BY DEF DocInv, CacheInv, CopyInv
  <1>3. ClientInv
    BY DEF ClientInv, Place, NoSession
  <1>4. BoundInv
    BY DEF BoundInv
  <1> QED BY <1>1, <1>2, <1>3, <1>4 DEF FrontInv

\* loadOrCreateKeyPair, the rotation by an operator and the end of the process.
LEMMA NodeStep ==
  ASSUME FrontInv, Boot \/ BootFirst \/ BootTorn \/ Rotate \/ Stop
  PROVE  FrontInv'
  <1> USE HttpConstants
  <1>0. NodeInv /\ DocInv /\ ClientInv /\ BoundInv
    BY DEF FrontInv
  <1>a. CreatesKey => /\ {keyFile} \cap KeyPair \subseteq retired'
                      /\ retired' \subseteq retired \cup ({keyFile} \cap KeyPair)
                      /\ retired \subseteq retired'
                      /\ faults' \in 0..MaxFaults
    BY <1>0 DEF CreatesKey, NodeInv, BoundInv, KeyPair, Missing
  <1>b. ASSUME UNCHANGED docVars, retired \subseteq retired',
               keyFile' = keyFile \/ {keyFile} \cap KeyPair \subseteq retired'
        PROVE  DocInv'
    BY <1>0, <1>b DEF DocInv, CacheInv, CopyInv, docVars
  <1>c. ASSUME ~up, UNCHANGED <<sessionVars, clientVars>>
        PROVE  ClientInv'
    BY <1>0, <1>c DEF ClientInv, sessionVars, clientVars
  <1>1. CASE Boot
    <2>1. NodeInv'
      BY <1>0, <1>1 DEF Boot, NodeInv, KeyPair
    <2>2. DocInv' /\ ClientInv'
      BY <1>1, <1>b, <1>c DEF Boot
    <2> QED BY <1>0, <1>1, <2>1, <2>2 DEF Boot, FrontInv, BoundInv, boundVars
  <1>2. CASE BootFirst
    <2>a. issued' = issued + 1 /\ issued' \in 1..MaxKeys /\ issued' \in KeyPair
      BY <1>0, <1>2 DEF BootFirst, NodeInv, KeyPair
    <2>b. retired' \subseteq 1..issued'
      <3>1. retired \cup ({keyFile} \cap KeyPair) \subseteq 1..issued
        BY <1>0 DEF NodeInv, KeyPair
      <3>2. 1..issued \subseteq 1..issued'
        BY <1>0, <2>a DEF NodeInv
      <3> QED BY <1>2, <1>a, <3>1, <3>2 DEF BootFirst
    <2>1. NodeInv'
      BY <1>0, <1>2, <2>a, <2>b DEF BootFirst, NodeInv
    <2>2. DocInv' /\ ClientInv'
      BY <1>2, <1>a, <1>b, <1>c DEF BootFirst
    <2> QED BY <1>0, <1>2, <1>a, <2>1, <2>2 DEF BootFirst, FrontInv, BoundInv
  <1>3. CASE BootTorn
    <2>a. issued' = issued + 1 /\ issued' \in 1..MaxKeys /\ issued' \in KeyPair
      BY <1>0, <1>3 DEF BootTorn, NodeInv, KeyPair
    <2>b. retired' \subseteq 1..issued'
      <3>1. retired \cup ({keyFile} \cap KeyPair) \subseteq 1..issued
        BY <1>0 DEF NodeInv, KeyPair
      <3>2. 1..issued \subseteq 1..issued'
        BY <1>0, <2>a DEF NodeInv
      <3> QED BY <1>3, <1>a, <3>1, <3>2 DEF BootTorn
    <2>1. NodeInv'
      BY <1>0, <1>3, <2>a, <2>b DEF BootTorn, NodeInv, KeyPair, Torn
    <2>2. DocInv' /\ ClientInv'
      BY <1>3, <1>a, <1>b, <1>c DEF BootTorn
    <2> QED BY <1>0, <1>3, <1>a, <2>1, <2>2 DEF BootTorn, FrontInv, BoundInv
  <1>4. CASE Rotate
    <2>1. NodeInv'
      BY <1>0, <1>4 DEF Rotate, NodeInv, KeyPair, Missing, Torn
    <2>2. DocInv' /\ ClientInv'
      BY <1>4, <1>b, <1>c DEF Rotate
    <2> QED BY <1>0, <1>4, <2>1, <2>2 DEF Rotate, FrontInv, BoundInv, boundVars
  <1>5. CASE Stop
    <2>1. NodeInv'
      BY <1>0, <1>5 DEF Stop, NodeInv
    <2>2. DocInv'
      BY <1>0, <1>5 DEF Stop, DocInv, CacheInv, CopyInv
    <2>3. ClientInv'
      BY <1>0, <1>5 DEF Stop, ClientInv, Place
    <2> QED BY <1>0, <1>5, <2>1, <2>2, <2>3 DEF Stop, FrontInv, BoundInv
  <1> QED BY <1>1, <1>2, <1>3, <1>4, <1>5

\* A client goes to another place, and the node's answer with it: what the place asks for.
LEMMA ClientMoves ==
  ASSUME ClientInv, NEW b \in Buyer, NEW place \in Place,
         at' = [at EXCEPT ![b] = place], signing' \in [Buyer -> 0..SignTime],
         place \in {"signing", "opening", "body", "call"} => up,
         place = "call" => sid[b] \in sessions,
         UNCHANGED <<up, sid, sessions, opened>>
  PROVE  ClientInv'
  BY DEF ClientInv

\* A document that is handed out was signed by the running node and has not expired.
LEMMA ServeKeeps ==
  ASSUME FrontInv, up, NEW b \in Buyer, NEW a \in Nat, a < TTL, a <= Fresh + SignTime,
         Serve(b, a), UNCHANGED nodeVars
  PROVE  /\ CopyInv'
         /\ \E place \in {"trusted", "start"} : at' = [at EXCEPT ![b] = place]
  <1>1. copy' = [age |-> a, held |-> 0, key |-> key]
    BY DEF Serve
  <1>2. key \in KeyPair /\ key = keyFile /\ keyFile' = keyFile /\ retired' = retired
    BY DEF FrontInv, NodeInv, nodeVars
  <1>3. CopyInv'
    BY <1>1, <1>2, HttpConstants DEF CopyInv
  <1>4. \E place \in {"trusted", "start"} : at' = [at EXCEPT ![b] = place]
    BY DEF Serve, Judge
  <1> QED BY <1>3, <1>4

\* The capability document: fetched from the shared cache, from the node's cache, or signed.
LEMMA DocumentStep ==
  ASSUME FrontInv, NEW b \in Buyer,
         GetFromCopy(b) \/ GetCached(b) \/ GetSigned(b) \/ Signed(b)
  PROVE  FrontInv'
  <1> USE HttpConstants
  <1>0. NodeInv /\ CacheInv /\ CopyInv /\ ClientInv /\ BoundInv
    BY DEF FrontInv, DocInv
  <1>a. UNCHANGED <<nodeVars, boundVars, sid, sessions, opened>>
    BY DEF GetFromCopy, GetCached, GetSigned, Signed, sessionVars
  <1>b. NodeInv' /\ BoundInv' /\ (UNCHANGED cache => CacheInv') /\ (UNCHANGED copy => CopyInv')
    BY <1>0, <1>a DEF NodeInv, BoundInv, CacheInv, CopyInv, nodeVars, boundVars
  <1>c. UNCHANGED up
    BY <1>a DEF nodeVars
  <1>1. CASE GetFromCopy(b)
    <2>1. PICK place \in {"trusted", "start"} : at' = [at EXCEPT ![b] = place]
      BY <1>1 DEF GetFromCopy, Judge
    <2>2. UNCHANGED <<cache, copy, signing>>
      BY <1>1 DEF GetFromCopy, docVars
    <2>3. place \in Place
      BY DEF Place
    <2>4. ClientInv'
      BY <1>0, <1>a, <1>c, <2>1, <2>2, <2>3, ClientMoves DEF ClientInv
    <2> QED BY <1>b, <2>2, <2>4 DEF FrontInv, DocInv
  <1>2. CASE GetCached(b)
    <2>1. /\ up /\ UNCHANGED <<cache, signing>>
          /\ cache # NoDocument /\ cache.stamp < Fresh /\ Serve(b, cache.age)
      BY <1>2 DEF GetCached, IsFresh
    <2>2. cache.age \in Nat /\ cache.age < TTL /\ cache.age <= Fresh + SignTime
      BY <1>0, <2>1, SignsWithinMargin DEF CacheInv
    <2>3. /\ CopyInv'
          /\ \E place \in {"trusted", "start"} : at' = [at EXCEPT ![b] = place]
      BY <1>a, <2>1, <2>2, ServeKeeps
    <2>4. PICK place \in {"trusted", "start"} : at' = [at EXCEPT ![b] = place]
      BY <2>3
    <2>5. place \in Place
      BY DEF Place
    <2>6. ClientInv'
      BY <1>0, <1>a, <1>c, <2>1, <2>4, <2>5, ClientMoves DEF ClientInv
    <2> QED BY <1>b, <2>1, <2>3, <2>6 DEF FrontInv, DocInv
  <1>3. CASE GetSigned(b)
    <2>1. /\ up /\ UNCHANGED <<cache, copy>> /\ at' = [at EXCEPT ![b] = "signing"]
          /\ signing' = [signing EXCEPT ![b] = 0]
      BY <1>3 DEF GetSigned, docVars
    <2>2. signing' \in [Buyer -> 0..SignTime] /\ "signing" \in Place
      BY <1>0, <2>1 DEF ClientInv, Place
    <2>3. ClientInv'
      BY <1>0, <1>a, <1>c, <2>1, <2>2, ClientMoves
    <2> QED BY <1>b, <2>1, <2>3 DEF FrontInv, DocInv
  <1>4. CASE Signed(b)
    <2>1. /\ at[b] = "signing" /\ cache' = [age |-> signing[b], stamp |-> 0]
          /\ Serve(b, signing[b]) /\ signing' = [signing EXCEPT ![b] = 0]
      BY <1>4 DEF Signed
    <2>2. up /\ signing[b] \in 0..SignTime /\ signing' \in [Buyer -> 0..SignTime]
      BY <1>0, <2>1 DEF ClientInv
    <2>3. signing[b] \in Nat /\ signing[b] < TTL /\ signing[b] <= Fresh + SignTime
      BY <2>2, SignsWithinMargin
    <2>4. /\ CopyInv'
          /\ \E place \in {"trusted", "start"} : at' = [at EXCEPT ![b] = place]
      BY <1>a, <2>1, <2>2, <2>3, ServeKeeps
    <2>5. CacheInv'
      BY <2>1, <2>2, <2>3 DEF CacheInv
    <2>6. PICK place \in {"trusted", "start"} : at' = [at EXCEPT ![b] = place]
      BY <2>4
    <2>7. place \in Place
      BY DEF Place
    <2>8. ClientInv'
      BY <1>0, <1>a, <1>c, <2>2, <2>6, <2>7, ClientMoves
    <2> QED BY <1>b, <2>4, <2>5, <2>8 DEF FrontInv, DocInv
  <1> QED BY <1>1, <1>2, <1>3, <1>4

\* POST and DELETE /mcp: every step of a client in, or on its way to, a session.
LEMMA SessionStep ==
  ASSUME FrontInv, NEW b \in Buyer,
         \/ Connect(b) \/ Opened(b) \/ Call(b) \/ Refuse(b) \/ Route(b)
         \/ Answer(b) \/ Delete(b) \/ Close(b)
  PROVE  FrontInv'
  <1> USE HttpConstants
  <1>0. NodeInv /\ DocInv /\ ClientInv /\ BoundInv
    BY DEF FrontInv
  <1>a. UNCHANGED <<nodeVars, docVars, signing>> /\ BoundInv'
    BY <1>0 DEF Connect, Opened, Call, Refuse, Route, Answer, Delete, Close, BoundInv, boundVars
  <1>b. NodeInv' /\ DocInv' /\ UNCHANGED <<up, signing>>
    BY <1>0, <1>a DEF NodeInv, DocInv, CacheInv, CopyInv, nodeVars, docVars
  <1> SUFFICES ClientInv'
    BY <1>a, <1>b DEF FrontInv
  <1>t. signing' \in [Buyer -> 0..SignTime] /\ at[b] \in Place
    BY <1>0, <1>b DEF ClientInv
  <1>1. CASE Connect(b)
    <2>1. PICK place : /\ place = (IF up THEN "opening" ELSE "start")
                       /\ at' = [at EXCEPT ![b] = place]
      BY <1>1 DEF Connect
    <2>2. UNCHANGED <<sid, sessions, opened>> /\ place \in Place
      BY <1>1, <2>1 DEF Connect, sessionVars, Place
    <2> QED BY <1>0, <1>b, <1>t, <2>1, <2>2, ClientMoves
  <1>2. CASE Opened(b)
    <2>1. /\ at[b] = "opening" /\ opened < MaxSessions /\ opened' = opened + 1
          /\ sessions' = sessions \cup {opened'}
          /\ at' = [at EXCEPT ![b] = "in"] /\ sid' = [sid EXCEPT ![b] = opened']
      BY <1>2 DEF Opened
    <2>2. opened' \in 0..MaxSessions /\ sessions' \subseteq 1..opened'
      BY <1>0, <2>1 DEF ClientInv
    <2>3. at' \in [Buyer -> Place] /\ sid' \in [Buyer -> 0..opened']
      <3>1. \A c \in Buyer : sid[c] \in 0..opened'
        BY <1>0, <2>1 DEF ClientInv
      <3>2. opened' \in 0..opened'
        BY <2>2
      <3> QED BY <1>0, <2>1, <3>1, <3>2 DEF ClientInv, Place
    <2>4. /\ \A c \in Buyer : at'[c] \in {"signing", "opening", "body", "call"} => up'
          /\ \A c \in Buyer : at'[c] = "call" => sid'[c] \in sessions'
      BY <1>0, <1>b, <2>1 DEF ClientInv
    <2>5. \A c, d \in Buyer : (c # d /\ sid'[c] = sid'[d]) => sid'[c] = NoSession
      <3>1. \A c \in Buyer : sid[c] \in 0..opened /\ sid[c] # opened'
        BY <1>0, <2>1 DEF ClientInv
      <3> QED BY <1>0, <2>1, <3>1 DEF ClientInv
    <2> QED BY <1>t, <2>2, <2>3, <2>4, <2>5 DEF ClientInv
  <1>3. CASE Call(b)
    <2>1. PICK place : /\ place = (IF up THEN "body" ELSE "lost")
                       /\ at' = [at EXCEPT ![b] = place]
      BY <1>3 DEF Call
    <2>2. UNCHANGED <<sid, sessions, opened>> /\ place \in Place
      BY <1>3, <2>1 DEF Call, sessionVars, Place
    <2> QED BY <1>0, <1>b, <1>t, <2>1, <2>2, ClientMoves
  <1>4. CASE Refuse(b)
    <2>1. PICK place \in {"start", "in"} : at' = [at EXCEPT ![b] = place]
      BY <1>0, <1>4 DEF Refuse, ClientInv
    <2>2. UNCHANGED <<sid, sessions, opened>> /\ place \in Place
      BY <1>4 DEF Refuse, sessionVars, Place
    <2> QED BY <1>0, <1>b, <1>t, <2>1, <2>2, ClientMoves
  <1>5. CASE Route(b)
    <2>1. PICK place : /\ place = (IF sid[b] \in sessions THEN "call" ELSE "lost")
                       /\ at' = [at EXCEPT ![b] = place]
      BY <1>5 DEF Route
    <2>2. UNCHANGED <<sid, sessions, opened>> /\ place \in Place
      BY <1>5, <2>1 DEF Route, sessionVars, Place
    <2>3. up
      BY <1>0, <1>5 DEF Route, ClientInv
    <2> QED BY <1>0, <1>b, <1>t, <2>1, <2>2, <2>3, ClientMoves
  <1>6. CASE Answer(b)
    <2>1. at' = [at EXCEPT ![b] = "in"] /\ UNCHANGED <<sid, sessions, opened>> /\ "in" \in Place
      BY <1>6 DEF Answer, sessionVars, Place
    <2> QED BY <1>0, <1>b, <1>t, <2>1, ClientMoves
  <1>7. CASE Delete(b)
    <2>1. /\ sessions' = sessions \ {sid[b]} /\ UNCHANGED <<opened, sid>>
          /\ up /\ at[b] \in {"in", "body", "call"}
          /\ at' = [at EXCEPT ![b] = IF @ = "body" THEN @ ELSE "lost"]
      BY <1>7 DEF Delete
    <2>2. at' \in [Buyer -> Place] /\ at'[b] # "call"
          /\ \A c \in Buyer \ {b} : at'[c] = at[c]
      BY <1>0, <2>1 DEF ClientInv, Place
    <2>3. \A c \in Buyer : at'[c] = "call" => sid'[c] \in sessions'
      <3> SUFFICES ASSUME NEW c \in Buyer, at'[c] = "call" PROVE sid[c] \in sessions \ {sid[b]}
        BY <2>1
      <3>1. c # b /\ at[c] = "call" /\ sid[c] \in sessions
        BY <1>0, <2>2 DEF ClientInv
      <3>2. sid[c] # NoSession
        BY <1>0, <3>1 DEF ClientInv, NoSession
      <3> QED BY <1>0, <3>1, <3>2 DEF ClientInv
    <2> QED BY <1>0, <1>b, <1>t, <2>1, <2>2, <2>3 DEF ClientInv
  <1>8. CASE Close(b)
    <2>1. /\ at' = [at EXCEPT ![b] = "start"] /\ sid' = [sid EXCEPT ![b] = NoSession]
          /\ UNCHANGED <<sessions, opened>>
      BY <1>8 DEF Close, sessionVars
    <2>2. at' \in [Buyer -> Place] /\ sid' \in [Buyer -> 0..opened]
      BY <1>0, <2>1 DEF ClientInv, Place, NoSession
    <2> QED BY <1>0, <1>b, <1>t, <2>1, <2>2 DEF ClientInv
  <1> QED BY <1>1, <1>2, <1>3, <1>4, <1>5, <1>6, <1>7, <1>8

\* Time ages every document, and drops what is too old to be used.
LEMMA TickStep == ASSUME FrontInv, Tick PROVE FrontInv'
  <1> USE HttpConstants
  <1>0. NodeInv /\ CacheInv /\ CopyInv /\ ClientInv /\ BoundInv
    BY DEF FrontInv, DocInv
  <1>1. UNCHANGED <<up, key, keyFile, issued, retired, sessions, opened, at, sid, stops, faults>>
    BY DEF Tick, nodeVars, sessionVars, boundVars
  <1>2. NodeInv' /\ BoundInv'
    BY <1>0, <1>1 DEF NodeInv, BoundInv
  <1>3. CacheInv'
    BY <1>0 DEF Tick, CacheInv
  <1>4. CopyInv'
    <2>1. CASE CopyUsable
      <3>1. copy' = [copy EXCEPT !.age = copy.age + 1, !.held = copy.held + 1]
        BY <2>1 DEF Tick
      <3>2. /\ copy \in [age: Nat, held: 0..TTL, key: KeyPair] /\ copy.held < TTL
            /\ copy.age - copy.held < TTL /\ copy.age - copy.held <= Fresh + SignTime
            /\ copy.key \in {keyFile} \cup retired
        BY <1>0, <2>1 DEF CopyInv, CopyUsable
      <3>a. copy.age + 1 \in Nat /\ copy.held + 1 \in 0..TTL /\ copy.key \in KeyPair
        BY <3>2
      <3>b. copy' = [age |-> copy.age + 1, held |-> copy.held + 1, key |-> copy.key]
        BY <3>1, <3>2
      <3>3. /\ copy'.age = copy.age + 1 /\ copy'.held = copy.held + 1 /\ copy'.key = copy.key
            /\ copy' \in [age: Nat, held: 0..TTL, key: KeyPair]
        BY <3>a, <3>b
      <3>4. copy'.key \in {keyFile'} \cup retired'
        BY <1>1, <3>2, <3>3
      <3>5. copy.age \in Nat /\ copy.held \in Nat
        BY <3>2
      <3>6. copy'.age - copy'.held = copy.age - copy.held
        BY <3>3, <3>5
      <3> QED BY <3>2, <3>3, <3>4, <3>6 DEF CopyInv
    <2>2. CASE ~CopyUsable
      BY <2>2 DEF Tick, CopyInv
    <2> QED BY <2>1, <2>2
  <1>5. ClientInv'
    <2>1. signing' \in [Buyer -> 0..SignTime]
      BY <1>0 DEF Tick, ClientInv
    <2> QED BY <1>0, <1>1, <2>1 DEF ClientInv
  <1> QED BY <1>2, <1>3, <1>4, <1>5 DEF FrontInv, DocInv

\* FrontInv is inductive.
LEMMA FrontStep == FrontInv /\ [Next]_vars => FrontInv'
  <1> SUFFICES ASSUME FrontInv, [Next]_vars PROVE FrontInv'
    OBVIOUS
  <1>1. CASE Boot \/ BootFirst \/ BootTorn \/ Rotate \/ Stop
    BY <1>1, NodeStep
  <1>2. CASE Tick
    BY <1>2, TickStep
  <1>3. ASSUME NEW b \in Buyer, GetFromCopy(b) \/ GetCached(b) \/ GetSigned(b) \/ Signed(b)
        PROVE  FrontInv'
    BY <1>3, DocumentStep
  <1>4. ASSUME NEW b \in Buyer,
               \/ Connect(b) \/ Opened(b) \/ Call(b) \/ Refuse(b) \/ Route(b)
               \/ Answer(b) \/ Delete(b) \/ Close(b)
        PROVE  FrontInv'
    BY <1>4, SessionStep
  <1>5. CASE UNCHANGED vars
    BY <1>5 DEF vars, nodeVars, docVars, sessionVars, clientVars, boundVars, FrontInv, NodeInv,
       DocInv, CacheInv, CopyInv, ClientInv, BoundInv
  <1> QED BY <1>1, <1>2, <1>3, <1>4, <1>5 DEF Next

\* The invariant in every state of the node, its sessions and its clients.
LEMMA FrontAlways == Spec => []FrontInv
  BY FrontInit, FrontStep, PTL DEF Spec

\* Key file, documents, session table and clients keep their types, and no document gets
\* older than the shared cache can make it.
THEOREM FrontTypeCorrect == Spec => []TypeOK
  BY FrontAlways, FrontImplies, PTL

\* WellKnownService.sign never hands out an expired document, however many signatures
\* overlap; and through any boots, torn writes and restarts of the key file, a document
\* that has not expired verifies against the running node, unless its key was replaced.
THEOREM DocumentsAlwaysVerify == Spec => []DocumentVerifies
  BY FrontAlways, FrontImplies, PTL

\* The lookup after the body's await is enough: whatever is deleted or restarted while
\* bodies are read, a call is handled only in an open session of its own client.
THEOREM CallsReachLiveSessions == Spec => []ServedLive
  BY FrontAlways, FrontImplies, PTL

=============================================================================
