--------------------------- MODULE RequestPipeline ---------------------------
(***************************************************************************)
(* The prologue every authenticated tool runs behind (guardedTool in       *)
(* server.ts): idempotency key, replay guard, token validation, policy,    *)
(* rate limit, handler.  Requests interleave where the code awaits: in the *)
(* token's signature check and in the forecast source.  The replay guard   *)
(* and the limiters live in memory; the denylist is a file that the token  *)
(* CLI writes while the node is stopped (identity/token-cli.ts).           *)
(***************************************************************************)
EXTENDS Integers, Sequences, FiniteSets

CONSTANTS
    MaxReq,       \* bound: requests, numbered as they arrive
    Buyer,
    Token,        \* bearer tokens
    Sub,          \* Sub[t]: the buyer a token was issued to
    ClientId,     \* values of client_request_id
    Tool,         \* tools with a handler that answers at once
    ForecastTool, \* tools that await the forecast source
    Granted,      \* the <<buyer, tool>> pairs the policy engine allows
    TokenExp,     \* TokenExp[t]: when the token expires
    ReplayWindow, \* ReplayGuard.windowMs
    RateWindow,   \* RATE_LIMIT_WINDOW_MS
    MaxTime,      \* bound: the clock
    MaxStops,     \* bound: restarts
    MaxFaults     \* bound: denylist saves that fail

NoId == "undefined"     \* client_request_id left out
NoToken == "no token"

ASSUME PipelineConstants ==
    /\ Sub \in [Token -> Buyer] /\ TokenExp \in [Token -> Nat]
    /\ Granted \subseteq Buyer \X (Tool \cup ForecastTool) /\ Tool \cup ForecastTool # {}
    /\ ReplayWindow \in Nat \ {0} /\ RateWindow \in Nat
    /\ MaxReq \in Nat /\ MaxTime \in Nat /\ MaxStops \in Nat /\ MaxFaults \in Nat
    /\ NoId \notin ClientId /\ NoToken \notin Token

VARIABLES
    up,        \* is the node running?
    now,
    seen,      \* ReplayGuard.seen: client id -> expiresAt
    last,      \* lastAllowed of the limiters: <<buyer, tool>> -> time
    deny,      \* Denylist.mem: revoked tokens
    denyFile,  \* denylist.json
    pc,        \* where each request is
    call,      \* what each request asked: [token, id, tool]
    events,    \* audit events of each request, oldest first
    at,        \* history: [in, out, run]: when it passed the replay guard and the limiter
    run,       \* history: which run of the process this is
    stops, faults,
    revoked,   \* history: tokens an operator revoked, and the last run before that
    lostRevoke \* history: of those, the ones whose denylist save failed

guardVars == <<seen, last, deny>>
reqVars == <<pc, call, events, at>>
tokenVars == <<denyFile, revoked, lostRevoke, faults>>
vars == <<up, now, guardVars, reqVars, tokenVars, run, stops>>

-----------------------------------------------------------------------------
Req == 1..MaxReq
Tools == Tool \cup ForecastTool
NoCall == [token |-> NoToken, id |-> NoId, tool |-> CHOOSE t \in Tools : TRUE]
NoMark == [in |-> 0, out |-> 0, run |-> 0]
Empty == [x \in {} |-> 0]
Put(f, x, v) == [y \in DOMAIN f \cup {x} |-> IF y = x THEN v ELSE f[y]]

IsReplay(c) == c \in DOMAIN seen /\ now < seen[c]

\* The same clock rules the token's exp claim and its denylist entry.
Expired(t) == now >= TokenExp[t]

\* Mutant: an entry is dropped from the denylist too early.
DenylistHasEarly(t) == t \in deny /\ now + 1 < TokenExp[t]

DenylistHas(t) == t \in deny /\ ~Expired(t)

\* Mutant: the limiter lets a second request through at any time.
WithinQuotaAlways(k) == TRUE

WithinQuota(k) == k \in DOMAIN last => now - last[k] >= RateWindow

\* PolicyEngine.decide: default-deny on the buyer's entitlement for the tool's surface.
PolicyAllows(k) == k \in Granted

Init ==
    /\ up = FALSE /\ now = 0 /\ run = 0 /\ stops = 0
    /\ seen = Empty /\ last = Empty /\ deny = {} /\ denyFile = {}
    /\ pc = [r \in Req |-> "new"] /\ call = [r \in Req |-> NoCall]
    /\ events = [r \in Req |-> <<>>] /\ at = [r \in Req |-> NoMark]
    /\ faults = 0 /\ revoked = Empty /\ lostRevoke = {}

NextToArrive(r) == pc[r] = "new" /\ \A q \in Req : q < r => pc[q] # "new"
Goto(r, place) == pc' = [pc EXCEPT ![r] = place]
Log(r, new) == events' = [events EXCEPT ![r] = @ \o new]

-----------------------------------------------------------------------------
(* The steps of a request, each up to the next await. *)

\* A request without the mandatory idempotency key.
Keyless(r) ==
    /\ up /\ NextToArrive(r)
    /\ Goto(r, "invalid")
    /\ UNCHANGED <<up, now, guardVars, call, events, at, tokenVars, run, stops>>

\* Mutant: the id is checked and never recorded.
ArriveUnrecorded(r, c) ==
    /\ up /\ NextToArrive(r)
    /\ call' = [call EXCEPT ![r] = c]
    /\ IF IsReplay(c.id)
       THEN Goto(r, "replay") /\ UNCHANGED at
       ELSE /\ Goto(r, IF c.token = NoToken THEN "denied" ELSE "verify")
            /\ at' = [at EXCEPT ![r] = [in |-> now, out |-> 0, run |-> run]]
    /\ UNCHANGED <<up, now, guardVars, events, tokenVars, run, stops>>

\* The replay guard, before authentication; a first use is recorded at once.
Arrive(r, c) ==
    /\ up /\ NextToArrive(r)
    /\ call' = [call EXCEPT ![r] = c]
    /\ IF IsReplay(c.id)
       THEN Goto(r, "replay") /\ UNCHANGED <<seen, at>>
       ELSE /\ seen' = Put(seen, c.id, now + ReplayWindow)
            /\ Goto(r, IF c.token = NoToken THEN "denied" ELSE "verify")
            /\ at' = [at EXCEPT ![r] = [in |-> now, out |-> 0, run |-> run]]
    /\ UNCHANGED <<up, now, last, deny, events, tokenVars, run, stops>>

\* jwtVerify settles: the signature is good, and exp is compared with the clock.
Verify(r) ==
    /\ pc[r] = "verify"
    /\ IF Expired(call[r].token)
       THEN Log(r, <<"authDeny">>) /\ Goto(r, "denied")
       ELSE Goto(r, "decide") /\ UNCHANGED events
    /\ UNCHANGED <<up, now, guardVars, call, at, tokenVars, run, stops>>

\* Mutant: the limiter is asked before the policy engine, so an unauthorised request is
\* answered without a scope decision on record.
DecideUnscoped(r) ==
    LET c == call[r]  k == <<Sub[c.token], c.tool>> IN
    /\ pc[r] = "decide"
    /\ IF DenylistHas(c.token)
       THEN Log(r, <<"authDeny">>) /\ Goto(r, "denied") /\ UNCHANGED <<last, at>>
       ELSE IF ~WithinQuota(k)
       THEN Log(r, <<"authAllow">>) /\ Goto(r, "limited") /\ UNCHANGED <<last, at>>
       ELSE /\ last' = Put(last, k, now)
            /\ at' = [at EXCEPT ![r].out = now]
            /\ Log(r, <<"authAllow", "scopeAllow">>)
            /\ Goto(r, IF c.tool \in ForecastTool THEN "source" ELSE "handled")
    /\ UNCHANGED <<up, now, seen, deny, call, tokenVars, run, stops>>

\* The rest of the prologue, without another await: denylist, policy, limiter, and the
\* handler of a tool that answers at once.
Decide(r) ==
    LET c == call[r]  k == <<Sub[c.token], c.tool>> IN
    /\ pc[r] = "decide"
    /\ IF DenylistHas(c.token)
       THEN Log(r, <<"authDeny">>) /\ Goto(r, "denied") /\ UNCHANGED <<last, at>>
       ELSE IF ~PolicyAllows(k)
       THEN Log(r, <<"authAllow", "scopeDeny">>) /\ Goto(r, "denied") /\ UNCHANGED <<last, at>>
       ELSE /\ Log(r, <<"authAllow", "scopeAllow">>)
            /\ IF WithinQuota(k)
               THEN /\ last' = Put(last, k, now)
                    /\ at' = [at EXCEPT ![r].out = now]
                    /\ Goto(r, IF c.tool \in ForecastTool THEN "source" ELSE "handled")
               ELSE Goto(r, "limited") /\ UNCHANGED <<last, at>>
    /\ UNCHANGED <<up, now, seen, deny, call, tokenVars, run, stops>>

\* The forecast source answers, or fails: only an answer is audited as FORECAST_REQUEST.
Source(r) ==
    /\ pc[r] = "source"
    /\ \/ Log(r, <<"forecast">>) /\ Goto(r, "handled")
       \/ Goto(r, "unavailable") /\ UNCHANGED events
    /\ UNCHANGED <<up, now, guardVars, call, at, tokenVars, run, stops>>

Continue(r) == Verify(r) \/ Decide(r) \/ Source(r)
InFlight(r) == pc[r] \in {"verify", "decide", "source"}

-----------------------------------------------------------------------------
\* The denylist is read at boot, without the entries that have expired.
Boot ==
    /\ ~up /\ up' = TRUE
    /\ run' = run + 1
    /\ deny' = {t \in denyFile : ~Expired(t)}
    /\ UNCHANGED <<now, seen, last, reqVars, tokenVars, stops>>

\* The process ends: requests in flight are dropped, guard and limiters forgotten.
Stop ==
    /\ up /\ stops < MaxStops /\ stops' = stops + 1
    /\ up' = FALSE /\ seen' = Empty /\ last' = Empty /\ deny' = {}
    /\ pc' = [r \in Req |-> IF InFlight(r) THEN "dropped" ELSE pc[r]]
    /\ UNCHANGED <<now, call, events, at, tokenVars, run>>

\* Denylist.save, in the command's process: a failure is reported on stderr only.
SaveDenylist(t, tokens) ==
    \/ denyFile' = tokens /\ UNCHANGED <<lostRevoke, faults>>
    \/ /\ faults < MaxFaults /\ faults' = faults + 1
       /\ lostRevoke' = lostRevoke \cup {t}
       /\ UNCHANGED denyFile

\* revoke-token: the command loads the denylist, adds the token and saves.
Revoke(t) ==
    /\ ~up /\ t \notin DOMAIN revoked
    /\ revoked' = Put(revoked, t, run)
    /\ SaveDenylist(t, {u \in denyFile : ~Expired(u)} \cup {t})
    /\ UNCHANGED <<up, now, guardVars, reqVars, run, stops>>

Tick ==
    /\ now < MaxTime /\ now' = now + 1
    /\ UNCHANGED <<up, guardVars, reqVars, tokenVars, run, stops>>

Next ==
    \/ Boot \/ Stop \/ Tick
    \/ \E t \in Token : Revoke(t)
    \/ \E r \in Req : Keyless(r) \/ Continue(r)
    \/ \E r \in Req, t \in Token \cup {NoToken}, i \in ClientId, tool \in Tools :
          Arrive(r, [token |-> t, id |-> i, tool |-> tool])

Spec == Init /\ [][Next]_vars

-----------------------------------------------------------------------------
Call == [token: Token \cup {NoToken}, id: ClientId \cup {NoId}, tool: Tools]
EventName == {"authAllow", "authDeny", "scopeAllow", "scopeDeny", "forecast"}

\* Type correctness of the guards and of the requests' state.
TypeOK ==
    /\ up \in BOOLEAN /\ now \in 0..MaxTime /\ run \in Nat /\ stops \in Nat
    /\ DOMAIN seen \subseteq ClientId /\ \A c \in DOMAIN seen : seen[c] \in Nat
    /\ DOMAIN last \subseteq Granted /\ \A k \in DOMAIN last : last[k] \in 0..now
    /\ deny \subseteq Token /\ denyFile \subseteq Token
    /\ pc \in [Req -> {"new", "verify", "decide", "source", "handled", "denied", "limited",
                       "replay", "invalid", "unavailable", "dropped"}]
    /\ call \in [Req -> Call] /\ at \in [Req -> [in: Nat, out: Nat, run: Nat]]
    /\ events \in [Req -> Seq(EventName)]
    /\ DOMAIN revoked \subseteq Token /\ lostRevoke \subseteq DOMAIN revoked /\ faults \in Nat

\* Requests that got past the limiter.
Admitted == {r \in Req : pc[r] \in {"source", "handled", "unavailable"}}
Past == {r \in Req : at[r] # NoMark}

\* Two requests with one client_request_id do not both get past the guard within the window,
\* even when the second arrives while the first awaits its token's validation ("a replay
\* never reaches token validation"); a restart forgets the window.
NoReplay ==
    \A r, q \in Past :
        (r # q /\ call[r].id = call[q].id /\ at[r].run = at[q].run)
            => at[r].in - at[q].in >= ReplayWindow \/ at[q].in - at[r].in >= ReplayWindow

\* A buyer gets no two answers of one tool within the rate window, however the awaits
\* interleave (limiter.ts, N=1/T); a restart forgets it.
RateKept ==
    \A r, q \in Admitted :
        (/\ r # q /\ call[r].tool = call[q].tool /\ at[r].run = at[q].run
         /\ Sub[call[r].token] = Sub[call[q].token])
            => at[r].out - at[q].out >= RateWindow \/ at[q].out - at[r].out >= RateWindow

\* A revoked token is not admitted while it lives ("denylist check prevails over valid
\* signature").  Only a request whose token expires between the two checks, exp and
\* denylist, gets through, and only in that instant.
RevokedWithheld ==
    \A r \in Admitted :
        LET t == call[r].token IN
        (t \in DOMAIN revoked \ lostRevoke /\ at[r].run > revoked[t]) => at[r].out >= TokenExp[t]

\* No answer without its trail: an admitted request has its authentication and its scope
\* decision in the ledger before the handler's own event, for a pair the policy grants; a
\* refused one has the decision that refused it.
Audited ==
    \A r \in Req :
        /\ r \in Admitted =>
              /\ SubSeq(events[r], 1, 2) = <<"authAllow", "scopeAllow">>
              /\ <<Sub[call[r].token], call[r].tool>> \in Granted
        /\ (pc[r] = "denied" /\ call[r].token # NoToken) =>
              events[r] \in {<<"authDeny">>, <<"authAllow", "scopeDeny">>}

=============================================================================
