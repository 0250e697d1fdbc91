------------------------ MODULE RequestPipelineProofs ------------------------
(***************************************************************************)
(* Theorems about the prologue of the tools, for any number of requests,   *)
(* buyers, tokens, tools and restarts and any windows: the replay guard,   *)
(* the limiter, the denylist and the audit trail hold across the awaits.   *)
(***************************************************************************)
EXTENDS RequestPipeline, SequenceTheorems, TLAPS

\* A request that the node works on belongs to the present run of the process.
ReqInv ==
    /\ up => run > 0
    /\ \A r \in Req :
          /\ pc[r] \in {"verify", "decide", "source"} => up /\ at[r].run = run
          /\ pc[r] \in {"verify", "decide", "source", "handled", "unavailable"} =>
                call[r].token \in Token
          /\ pc[r] = "new" => at[r] = NoMark
          /\ at[r] = NoMark \/ at[r].run > 0
          /\ at[r].run <= run /\ at[r].in <= now /\ at[r].out <= now

\* The replay guard remembers every request of this run for its window.
GuardInv ==
    up => \A r \in Past : at[r].run = run =>
              call[r].id \in DOMAIN seen /\ at[r].in + ReplayWindow <= seen[call[r].id]

\* The limiter remembers the last admitted request of this run.
LimitInv ==
    up => \A r \in Admitted : at[r].run = run =>
              LET k == <<Sub[call[r].token], call[r].tool>> IN
              k \in DOMAIN last /\ at[r].out <= last[k]

\* A revocation that was saved stays in the file until the token expires, and every run
\* that began after it has it in memory.
DenyInv ==
    /\ \A t \in DOMAIN revoked : revoked[t] \in Nat /\ revoked[t] <= run /\ (up => revoked[t] < run)
    /\ \A t \in DOMAIN revoked \ lostRevoke :
          /\ t \in denyFile \/ Expired(t)
          /\ up => t \in deny \/ Expired(t)

\* The decisions that come before a handler.
Allowed == <<"authAllow", "scopeAllow">>

\* What each request has in the ledger, by where it is.
TrailInv ==
    \A r \in Req :
        /\ pc[r] \in {"new", "verify", "decide"} => events[r] = <<>>
        /\ pc[r] = "source" => events[r] = Allowed
        /\ r \in Admitted =>
              /\ events[r] \in {Allowed, Allowed \o <<"forecast">>}
              /\ <<Sub[call[r].token], call[r].tool>> \in Granted
        /\ (pc[r] = "denied" /\ call[r].token # NoToken) =>
              events[r] \in {<<"authDeny">>, <<"authAllow", "scopeDeny">>}

Inv == /\ ReqInv /\ GuardInv /\ LimitInv /\ DenyInv /\ TrailInv
       /\ NoReplay /\ RateKept /\ RevokedWithheld

-----------------------------------------------------------------------------
\* A node with no request satisfies the invariant.
LEMMA PipelineInit == Init => TypeOK /\ Inv
  <1> SUFFICES ASSUME Init PROVE TypeOK /\ Inv
    OBVIOUS
  <1> USE PipelineConstants
  <1>1. TypeOK
    <2>1. NoCall \in Call
      BY DEF NoCall, Call, Tools
    <2>2. call \in [Req -> Call] /\ at \in [Req -> [in: Nat, out: Nat, run: Nat]]
      BY <2>1 DEF Init, NoMark
    <2>3. events \in [Req -> Seq(EventName)]
      BY DEF Init
    <2>4. DOMAIN seen = {} /\ DOMAIN last = {} /\ DOMAIN revoked = {}
      BY DEF Init, Empty
    <2>5. now \in 0..MaxTime /\ run \in Nat /\ stops \in Nat /\ faults \in Nat
      BY DEF Init
    <2> QED BY <2>2, <2>3, <2>4, <2>5 DEF Init, TypeOK
  <1>2. \A r \in Req : pc[r] = "new" /\ at[r] = NoMark /\ events[r] = <<>>
    BY DEF Init
  <1>3. ReqInv /\ GuardInv /\ LimitInv /\ DenyInv
    BY <1>2 DEF Init, ReqInv, NoMark, GuardInv, LimitInv, DenyInv, Empty
  <1>4. Past = {} /\ Admitted = {}
    BY <1>2 DEF Past, Admitted
  <1>5. TrailInv /\ NoReplay /\ RateKept /\ RevokedWithheld
    BY <1>2, <1>4 DEF TrailInv, NoReplay, RateKept, RevokedWithheld
  <1> QED BY <1>1, <1>3, <1>5 DEF Inv

\* A map with one more entry.
LEMMA PutFacts ==
  ASSUME NEW f, NEW x, NEW v
  PROVE  /\ DOMAIN Put(f, x, v) = DOMAIN f \cup {x}
         /\ Put(f, x, v)[x] = v
         /\ \A y \in DOMAIN f : y # x => Put(f, x, v)[y] = f[y]
  BY DEF Put

\* A request's events stay a sequence of event names.
LEMMA LogType ==
  ASSUME events \in [Req -> Seq(EventName)], NEW r \in Req, NEW new \in Seq(EventName), Log(r, new)
  PROVE  events' \in [Req -> Seq(EventName)] /\ events'[r] = events[r] \o new
         /\ \A q \in Req : q # r => events'[q] = events[q]
  <1>1. events[r] \o new \in Seq(EventName)
    BY ConcatProperties
  <1> QED BY <1>1 DEF Log

Places == {"new", "verify", "decide", "source", "handled", "denied", "limited",
           "replay", "invalid", "unavailable", "dropped"}

\* Every step keeps the types; the guards' maps keep their keys because a request's id,
\* token and tool were checked before they get there.
LEMMA PipelineTypes == TypeOK /\ ReqInv /\ [Next]_vars => TypeOK'
  <1> SUFFICES ASSUME TypeOK, ReqInv, [Next]_vars PROVE TypeOK'
    OBVIOUS
  <1> USE PipelineConstants
  <1>1. ASSUME NEW r \in Req, Keyless(r) PROVE TypeOK'
    BY <1>1 DEF TypeOK, Keyless, Goto, guardVars, tokenVars
  <1>2. ASSUME NEW r \in Req, NEW t \in Token \cup {NoToken}, NEW i \in ClientId, NEW tool \in Tools,
               Arrive(r, [token |-> t, id |-> i, tool |-> tool])
        PROVE  TypeOK'
    <2> DEFINE c == [token |-> t, id |-> i, tool |-> tool]
    <2>1. c \in Call /\ c.id = i
      BY DEF Call
    <2>2. call' = [call EXCEPT ![r] = c] /\ UNCHANGED <<up, now, last, deny, events, tokenVars, run, stops>>
      BY <1>2 DEF Arrive
    <2>3. call' \in [Req -> Call]
      BY <2>1, <2>2 DEF TypeOK
    <2>4. pc' \in [Req -> Places]
      BY <1>2 DEF Arrive, Goto, TypeOK, Places
    <2>5. at' \in [Req -> [in: Nat, out: Nat, run: Nat]]
      <3>1. at' = at \/ at' = [at EXCEPT ![r] = [in |-> now, out |-> 0, run |-> run]]
        BY <1>2 DEF Arrive
      <3>2. now \in Nat /\ run \in Nat
        BY DEF TypeOK
      <3>3. [in |-> now, out |-> 0, run |-> run] \in [in: Nat, out: Nat, run: Nat]
        BY <3>2
      <3> QED BY <3>1, <3>3 DEF TypeOK
    <2>6. DOMAIN seen' \subseteq ClientId /\ \A x \in DOMAIN seen' : seen'[x] \in Nat
      <3>1. seen' = seen \/ seen' = Put(seen, i, now + ReplayWindow)
        BY <1>2, <2>1 DEF Arrive
      <3>2. now + ReplayWindow \in Nat
        BY DEF TypeOK
      <3>3. ASSUME seen' = Put(seen, i, now + ReplayWindow)
            PROVE  DOMAIN seen' = DOMAIN seen \cup {i} /\ \A x \in DOMAIN seen' : seen'[x] \in Nat
        <4>1. /\ DOMAIN seen' = DOMAIN seen \cup {i} /\ seen'[i] = now + ReplayWindow
              /\ \A y \in DOMAIN seen : y # i => seen'[y] = seen[y]
          BY <3>3 DEF Put
        <4> QED BY <3>2, <4>1 DEF TypeOK
      <3> QED BY <3>1, <3>3 DEF TypeOK
    <2> QED BY <2>2, <2>3, <2>4, <2>5, <2>6 DEF TypeOK, tokenVars, Places
  <1>3. ASSUME NEW r \in Req, Verify(r) PROVE TypeOK'
    <2>1. pc' \in [Req -> Places]
      BY <1>3 DEF Verify, Goto, TypeOK, Places
    <2>2. events' \in [Req -> Seq(EventName)]
      <3>1. <<"authDeny">> \in Seq(EventName)
        BY DEF EventName
      <3> QED BY <1>3, <3>1, LogType DEF Verify, TypeOK
    <2> QED BY <1>3, <2>1, <2>2 DEF TypeOK, Verify, guardVars, tokenVars, Places
  <1>4. ASSUME NEW r \in Req, Decide(r) PROVE TypeOK'
    <2> DEFINE k == <<Sub[call[r].token], call[r].tool>>
    <2>1. UNCHANGED <<up, now, seen, deny, call, tokenVars, run, stops>>
      BY <1>4 DEF Decide
    <2>2. pc' \in [Req -> Places]
      BY <1>4 DEF Decide, Goto, TypeOK, Places
    <2>3. events' \in [Req -> Seq(EventName)]
      <3>1. /\ <<"authDeny">> \in Seq(EventName) /\ <<"authAllow", "scopeDeny">> \in Seq(EventName)
            /\ <<"authAllow", "scopeAllow">> \in Seq(EventName)
        BY DEF EventName
      <3>2. \/ Log(r, <<"authDeny">>) \/ Log(r, <<"authAllow", "scopeDeny">>)
            \/ Log(r, <<"authAllow", "scopeAllow">>)
        BY <1>4 DEF Decide
      <3> QED BY <3>1, <3>2, LogType DEF TypeOK
    <2>4. at' \in [Req -> [in: Nat, out: Nat, run: Nat]]
      <3>1. at' = at \/ at' = [at EXCEPT ![r].out = now]
        BY <1>4 DEF Decide
      <3>2. now \in Nat /\ at[r] \in [in: Nat, out: Nat, run: Nat]
        BY DEF TypeOK
      <3>3. [at[r] EXCEPT !.out = now] \in [in: Nat, out: Nat, run: Nat]
        BY <3>2
      <3> QED BY <3>1, <3>3 DEF TypeOK
    <2>5. DOMAIN last' \subseteq Granted /\ \A x \in DOMAIN last' : last'[x] \in 0..now
      <3>1. last' = last \/ (k \in Granted /\ last' = Put(last, k, now))
        BY <1>4 DEF Decide, PolicyAllows
      <3>2. now \in 0..now
        BY DEF TypeOK
      <3> HIDE DEF k
      <3>3. ASSUME last' = Put(last, k, now)
            PROVE  DOMAIN last' = DOMAIN last \cup {k} /\ \A x \in DOMAIN last' : last'[x] \in 0..now
        <4>1. /\ DOMAIN last' = DOMAIN last \cup {k} /\ last'[k] = now
              /\ \A y \in DOMAIN last : y # k => last'[y] = last[y]
          BY <3>3 DEF Put
        <4> QED BY <3>2, <4>1 DEF TypeOK
      <3> QED BY <3>1, <3>3 DEF TypeOK
    <2> QED BY <2>1, <2>2, <2>3, <2>4, <2>5 DEF TypeOK, tokenVars, Places
  <1>5. ASSUME NEW r \in Req, Source(r) PROVE TypeOK'
    <2>1. pc' \in [Req -> Places]
      BY <1>5 DEF Source, Goto, TypeOK, Places
    <2>2. events' \in [Req -> Seq(EventName)]
      <3>1. <<"forecast">> \in Seq(EventName)
        BY DEF EventName
      <3> QED BY <1>5, <3>1, LogType DEF Source, TypeOK
    <2> QED BY <1>5, <2>1, <2>2 DEF TypeOK, Source, guardVars, tokenVars, Places
  <1>6. CASE Boot
    BY <1>6 DEF TypeOK, Boot, reqVars, tokenVars
  <1>7. CASE Stop
    <2>1. pc' \in [Req -> Places]
      BY <1>7 DEF Stop, TypeOK, Places
    <2>2. DOMAIN seen' = {} /\ DOMAIN last' = {}
      BY <1>7 DEF Stop, Empty
    <2>a. stops' = stops + 1 /\ up' = FALSE /\ deny' = {}
      BY <1>7 DEF Stop
    <2>b. stops' \in Nat
      BY <2>a DEF TypeOK
    <2>c. up' \in BOOLEAN /\ deny' \subseteq Token
      BY <2>a, Zenon
    <2>d. UNCHANGED <<now, call, events, at, denyFile, revoked, lostRevoke, faults, run>>
      BY <1>7 DEF Stop, tokenVars
    <2> QED BY <2>1, <2>2, <2>b, <2>c, <2>d DEF TypeOK, Places
  <1>8. ASSUME NEW t \in Token, Revoke(t) PROVE TypeOK'
    <2>1. DOMAIN revoked' = DOMAIN revoked \cup {t}
      BY <1>8, PutFacts DEF Revoke
    <2>2. denyFile' \subseteq Token /\ lostRevoke' \subseteq DOMAIN revoked' /\ faults' \in Nat
      BY <1>8, <2>1 DEF Revoke, SaveDenylist, TypeOK
    <2> QED BY <1>8, <2>1, <2>2 DEF TypeOK, Revoke, guardVars, reqVars
  <1>9. CASE Tick
    <2>1. now' \in 0..MaxTime /\ \A k \in DOMAIN last : last[k] \in 0..now'
      BY <1>9 DEF Tick, TypeOK
    <2> QED BY <1>9, <2>1 DEF TypeOK, Tick, guardVars, reqVars, tokenVars
  <1>10. CASE UNCHANGED vars
    BY <1>10 DEF vars, guardVars, reqVars, tokenVars, TypeOK
  <1> QED BY <1>1, <1>2, <1>3, <1>4, <1>5, <1>6, <1>7, <1>8, <1>9, <1>10 DEF Next, Continue

-----------------------------------------------------------------------------
\* What the steps of a request do to its place and its marks, and to those of the others.
LEMMA ArriveFacts ==
  ASSUME TypeOK, ReqInv, NEW r \in Req, NEW c \in Call, Arrive(r, c)
  PROVE  /\ pc[r] = "new" /\ at[r] = NoMark /\ up /\ run > 0
         /\ \A q \in Req \ {r} : pc'[q] = pc[q] /\ at'[q] = at[q] /\ call'[q] = call[q]
         /\ call'[r] = c
         /\ UNCHANGED <<up, now, last, deny, events, denyFile, revoked, lostRevoke, run>>
         /\ \/ IsReplay(c.id) /\ pc'[r] = "replay" /\ at' = at /\ seen' = seen
            \/ /\ ~IsReplay(c.id) /\ seen' = Put(seen, c.id, now + ReplayWindow)
               /\ at'[r] = [in |-> now, out |-> 0, run |-> run]
               /\ pc'[r] = IF c.token = NoToken THEN "denied" ELSE "verify"
  <1>1. pc[r] = "new" /\ up
    BY DEF Arrive, NextToArrive
  <1>2. at[r] = NoMark /\ run > 0
    BY <1>1 DEF ReqInv
  <1>3. pc \in [Req -> Places] /\ DOMAIN at = Req /\ DOMAIN call = Req
    BY DEF TypeOK, Places
  <1> QED BY <1>1, <1>2, <1>3 DEF Arrive, Goto, tokenVars

\* What the synchronous middle of a request does: it refuses the call without a trace in the
\* limiter, or marks the limiter now and goes on.
LEMMA DecideFacts ==
  ASSUME TypeOK, ReqInv, NEW r \in Req, Decide(r)
  PROVE  LET t == call[r].token
             k == <<Sub[t], call[r].tool>>
         IN  /\ pc[r] = "decide" /\ up /\ at[r].run = run /\ t \in Token /\ at[r] # NoMark
             /\ \A q \in Req \ {r} : pc'[q] = pc[q] /\ at'[q] = at[q]
             /\ at'[r].in = at[r].in /\ at'[r].run = at[r].run
             /\ UNCHANGED <<up, now, seen, deny, call, denyFile, revoked, lostRevoke, run>>
             /\ \/ /\ pc'[r] \in {"denied", "limited"} /\ at' = at /\ last' = last
                \/ /\ pc'[r] \in {"source", "handled"} /\ at'[r].out = now
                   /\ ~DenylistHas(t) /\ k \in Granted /\ WithinQuota(k)
                   /\ last' = Put(last, k, now)
  <1> DEFINE t == call[r].token
             k == <<Sub[t], call[r].tool>>
  <1>1. pc[r] = "decide"
    BY DEF Decide
  <1>2. up /\ at[r].run = run /\ t \in Token /\ run > 0
    BY <1>1 DEF ReqInv
  <1>3. at[r] # NoMark
    BY <1>2 DEF NoMark
  <1>4. /\ pc \in [Req -> Places] /\ DOMAIN at = Req
        /\ at[r] \in [in: Nat, out: Nat, run: Nat]
    BY DEF TypeOK, Places
  <1>5. UNCHANGED <<up, now, seen, deny, call, denyFile, revoked, lostRevoke, run>>
    BY DEF Decide, tokenVars
  <1>6. CASE Goto(r, "denied") \/ Goto(r, "limited")
    <2>1. at' = at /\ last' = last
      BY <1>1, <1>4, <1>6 DEF Decide, Goto
    <2> QED BY <1>1, <1>2, <1>3, <1>4, <1>5, <1>6, <2>1 DEF Goto
  <1>7. CASE ~(Goto(r, "denied") \/ Goto(r, "limited"))
    <2>1. /\ ~DenylistHas(t) /\ k \in Granted /\ WithinQuota(k)
          /\ last' = Put(last, k, now) /\ at' = [at EXCEPT ![r].out = now]
          /\ Goto(r, "source") \/ Goto(r, "handled")
      BY <1>7 DEF Decide, PolicyAllows
    <2>2. at'[r] = [at[r] EXCEPT !.out = now] /\ \A q \in Req \ {r} : at'[q] = at[q]
      BY <1>4, <2>1
    <2>3. at'[r].in = at[r].in /\ at'[r].run = at[r].run /\ at'[r].out = now
      BY <1>4, <2>2
    <2>4. /\ pc'[r] \in {"source", "handled"}
          /\ \A q \in Req \ {r} : pc'[q] = pc[q]
      BY <1>4, <2>1 DEF Goto
    <2> QED BY <1>1, <1>2, <1>3, <1>5, <2>1, <2>2, <2>3, <2>4
  <1> QED BY <1>6, <1>7

\* The other steps of a request move it on and leave the guards alone.
LEMMA OtherFacts ==
  ASSUME TypeOK, ReqInv, NEW r \in Req, Keyless(r) \/ Verify(r) \/ Source(r)
  PROVE  /\ \A q \in Req \ {r} : pc'[q] = pc[q]
         /\ UNCHANGED <<up, now, seen, last, deny, call, at, denyFile, revoked, lostRevoke, run>>
         /\ \/ pc[r] = "new" /\ pc'[r] = "invalid" /\ events' = events
            \/ pc[r] = "verify" /\ pc'[r] = "denied" /\ Log(r, <<"authDeny">>)
            \/ pc[r] = "verify" /\ pc'[r] = "decide" /\ events' = events
            \/ pc[r] = "source" /\ pc'[r] = "handled" /\ Log(r, <<"forecast">>)
            \/ pc[r] = "source" /\ pc'[r] = "unavailable" /\ events' = events
  <1>1. pc \in [Req -> Places]
    BY DEF TypeOK, Places
  <1> QED BY <1>1 DEF Keyless, Verify, Source, NextToArrive, Goto, guardVars, tokenVars

\* The marks of a request and its place stay consistent with the run of the process.
LEMMA ReqStep == TypeOK /\ ReqInv /\ [Next]_vars => ReqInv'
  <1> SUFFICES ASSUME TypeOK, ReqInv, [Next]_vars PROVE ReqInv'
    OBVIOUS
  <1> USE PipelineConstants
  <1>0. /\ now \in Nat /\ run \in Nat /\ \A q \in Req : at[q] \in [in: Nat, out: Nat, run: Nat]
    BY DEF TypeOK
  <1>1. ASSUME NEW r \in Req, NEW c \in Call, c.id \in ClientId, Arrive(r, c) PROVE ReqInv'
    <2>1. c.token # NoToken => c.token \in Token
      BY DEF Call
    <2>2. [in |-> now, out |-> 0, run |-> run] # NoMark
      BY <1>0, <1>1, ArriveFacts DEF NoMark
    <2> QED BY <1>0, <1>1, <2>1, <2>2, ArriveFacts DEF ReqInv
  <1>2. ASSUME NEW r \in Req, Decide(r) PROVE ReqInv'
    <2>1. at'[r].out = now \/ at' = at
      BY <1>2, DecideFacts
    <2>2. at'[r] = NoMark \/ at'[r].run > 0
      BY <1>0, <1>2, DecideFacts DEF ReqInv
    <2>3. /\ \A q \in Req \ {r} : pc'[q] = pc[q] /\ at'[q] = at[q]
          /\ pc'[r] \in {"denied", "limited", "source", "handled"}
          /\ up /\ at[r].run = run /\ call[r].token \in Token
          /\ at'[r].in = at[r].in /\ at'[r].run = at[r].run /\ UNCHANGED <<up, now, call, run>>
      BY <1>2, DecideFacts
    <2>4. at'[r].out <= now /\ at[r].in <= now
      BY <1>0, <2>1 DEF ReqInv
    <2> QED BY <2>2, <2>3, <2>4 DEF ReqInv
  <1>3. ASSUME NEW r \in Req, Keyless(r) \/ Verify(r) \/ Source(r) PROVE ReqInv'
    BY <1>3, OtherFacts DEF ReqInv
  <1>4. CASE Boot
    <2>1. \A r \in Req : pc[r] \notin {"verify", "decide", "source"}
      BY <1>4 DEF Boot, ReqInv
    <2> QED BY <1>0, <1>4, <2>1 DEF Boot, ReqInv, reqVars
  <1>5. CASE Stop
    <2>1. \A r \in Req : pc'[r] = IF InFlight(r) THEN "dropped" ELSE pc[r]
      BY <1>5 DEF Stop
    <2> QED BY <1>5, <2>1 DEF Stop, ReqInv, InFlight
  <1>6. CASE Tick
    BY <1>0, <1>6 DEF Tick, ReqInv, guardVars, reqVars
  <1>7. CASE UNCHANGED <<up, now, reqVars, run>>
    BY <1>7 DEF ReqInv, reqVars
  <1> QED BY <1>1, <1>2, <1>3, <1>4, <1>5, <1>6, <1>7 DEF Next, Continue, Revoke, vars, Call

\* A second use of an id within the window finds the first one's record, even while the
\* first awaits its validation.
LEMMA GuardStep ==
  TypeOK /\ ReqInv /\ GuardInv /\ NoReplay /\ [Next]_vars => GuardInv' /\ NoReplay'
  <1> SUFFICES ASSUME TypeOK, ReqInv, GuardInv, NoReplay, [Next]_vars PROVE GuardInv' /\ NoReplay'
    OBVIOUS
  <1> USE PipelineConstants
  <1>0. /\ now \in Nat /\ run \in Nat
        /\ \A q \in Req : at[q].in \in Nat /\ at[q].run \in Nat
        /\ \A x \in DOMAIN seen : seen[x] \in Nat
    BY DEF TypeOK
  <1>a. ASSUME Past' = Past, \A q \in Past : at'[q].in = at[q].in /\ at'[q].run = at[q].run,
               \A q \in Past : call'[q] = call[q]
        PROVE  NoReplay'
    BY <1>a DEF NoReplay
  <1>1. ASSUME NEW r \in Req, NEW c \in Call, c.id \in ClientId, Arrive(r, c)
        PROVE  GuardInv' /\ NoReplay'
    <2>0. /\ pc[r] = "new" /\ at[r] = NoMark /\ up /\ run > 0
          /\ \A q \in Req \ {r} : at'[q] = at[q] /\ call'[q] = call[q]
          /\ call'[r] = c /\ UNCHANGED <<up, now, run>>
      BY <1>1, ArriveFacts
    <2>1. CASE at' = at /\ seen' = seen
      <3>1. r \notin Past /\ Past' = Past
        BY <2>0, <2>1 DEF Past
      <3>2. \A q \in Past : call'[q] = call[q]
        BY <2>0, <3>1 DEF Past
      <3> QED BY <1>a, <2>0, <2>1, <3>1, <3>2 DEF GuardInv, Past
    <2>2. CASE /\ ~IsReplay(c.id) /\ seen' = Put(seen, c.id, now + ReplayWindow)
               /\ at'[r] = [in |-> now, out |-> 0, run |-> run]
      <3>1. at'[r].in = now /\ at'[r].run = run
        BY <2>2
      <3>2. Past' \subseteq Past \cup {r}
        BY <2>0 DEF Past
      <3>3. /\ DOMAIN seen' = DOMAIN seen \cup {c.id} /\ seen'[c.id] = now + ReplayWindow
            /\ \A y \in DOMAIN seen : y # c.id => seen'[y] = seen[y]
        BY <2>2 DEF Put
      <3>4. c.id \in DOMAIN seen => seen[c.id] <= now
        BY <1>0, <2>2 DEF IsReplay
      <3>5. \A q \in Past : q \in Req \ {r}
        BY <2>0 DEF Past
      <3>6. \A q \in Past : (at[q].run = run /\ call[q].id = c.id) => now - at[q].in >= ReplayWindow
        BY <1>0, <2>0, <3>4 DEF GuardInv, Past
      <3>7. GuardInv'
        <4> SUFFICES ASSUME NEW q \in Past', at'[q].run = run
                     PROVE  /\ call'[q].id \in DOMAIN seen'
                            /\ at'[q].in + ReplayWindow <= seen'[call'[q].id]
          BY <2>0 DEF GuardInv
        <4>1. CASE q = r
          BY <1>0, <2>0, <3>1, <3>3, <4>1
        <4>2. CASE q # r
          <5>1. /\ q \in Past /\ q \in Req \ {r} /\ at'[q] = at[q] /\ call'[q] = call[q]
            BY <2>0, <3>2, <3>5, <4>2
          <5>2. call[q].id \in DOMAIN seen /\ at[q].in + ReplayWindow <= seen[call[q].id]
            BY <2>0, <5>1 DEF GuardInv
          <5>3. CASE call[q].id = c.id
            BY <1>0, <3>3, <5>1, <5>3 DEF ReqInv
          <5>4. CASE call[q].id # c.id
            BY <3>3, <5>1, <5>2, <5>4
          <5> QED BY <5>3, <5>4
        <4> QED BY <4>1, <4>2
      <3>8. NoReplay'
        <4> SUFFICES ASSUME NEW p \in Past', NEW q \in Past',
                            p # q, call'[p].id = call'[q].id, at'[p].run = at'[q].run
                     PROVE  \/ at'[p].in - at'[q].in >= ReplayWindow
                            \/ at'[q].in - at'[p].in >= ReplayWindow
          BY DEF NoReplay
        <4>1. CASE p # r /\ q # r
          <5>1. p \in Past /\ q \in Past /\ p \in Req \ {r} /\ q \in Req \ {r}
            BY <3>2, <3>5, <4>1
          <5> QED BY <2>0, <5>1 DEF NoReplay
        <4>2. CASE p = r
          <5>1. q \in Past /\ q \in Req \ {r}
            BY <3>2, <3>5, <4>2
          <5> QED BY <2>0, <3>1, <3>6, <4>2, <5>1
        <4>3. CASE q = r
          <5>1. p \in Past /\ p \in Req \ {r}
            BY <3>2, <3>5, <4>3
          <5> QED BY <2>0, <3>1, <3>6, <4>3, <5>1
        <4> QED BY <4>1, <4>2, <4>3
      <3> QED BY <3>7, <3>8
    <2> QED BY <1>1, <2>1, <2>2, ArriveFacts
  <1>2. ASSUME NEW r \in Req, Decide(r) PROVE GuardInv' /\ NoReplay'
    <2>1. /\ at[r] # NoMark /\ at'[r].in = at[r].in /\ at'[r].run = at[r].run
          /\ \A q \in Req \ {r} : at'[q] = at[q]
          /\ UNCHANGED <<up, seen, call, run>> /\ at[r].run = run /\ up
      BY <1>2, DecideFacts
    <2>2. at'[r] # NoMark
      BY <1>0, <2>1 DEF NoMark, ReqInv
    <2>3. Past' = Past /\ \A q \in Past : at'[q].in = at[q].in /\ at'[q].run = at[q].run
      BY <2>1, <2>2 DEF Past
    <2> QED BY <1>a, <2>1, <2>3 DEF GuardInv
  <1>3. ASSUME NEW r \in Req, Keyless(r) \/ Verify(r) \/ Source(r) PROVE GuardInv' /\ NoReplay'
    <2>1. UNCHANGED <<up, seen, call, run, at>>
      BY <1>3, OtherFacts
    <2>2. Past' = Past
      BY <2>1 DEF Past
    <2> QED BY <1>a, <2>1, <2>2 DEF GuardInv
  <1>4. CASE Boot
    <2>1. UNCHANGED <<call, at>> /\ run' = run + 1
      BY <1>4 DEF Boot, reqVars
    <2>2. Past' = Past
      BY <2>1 DEF Past
    <2>3. \A q \in Past : at'[q].run # run'
      BY <1>0, <2>1 DEF ReqInv, Past
    <2> QED BY <1>a, <2>1, <2>2, <2>3 DEF GuardInv
  <1>5. CASE Stop
    <2>1. UNCHANGED <<call, at>> /\ ~up'
      BY <1>5 DEF Stop
    <2>2. Past' = Past
      BY <2>1 DEF Past
    <2> QED BY <1>a, <2>1, <2>2 DEF GuardInv
  <1>6. CASE UNCHANGED <<up, seen, reqVars, run>>
    <2>1. Past' = Past
      BY <1>6 DEF Past, reqVars
    <2> QED BY <1>a, <1>6, <2>1 DEF GuardInv, reqVars
  <1> QED BY <1>1, <1>2, <1>3, <1>4, <1>5, <1>6
       DEF Next, Continue, Revoke, Tick, vars, guardVars, Call

\* What the limiter compares: the buyer and the tool of a request.
Quota(r) == <<Sub[call[r].token], call[r].tool>>

\* Admission is decided and recorded in one step, after the last await, so two requests of
\* one buyer cannot both find the limiter empty.
LEMMA LimitStep ==
  TypeOK /\ ReqInv /\ LimitInv /\ RateKept /\ [Next]_vars => LimitInv' /\ RateKept'
  <1> SUFFICES ASSUME TypeOK, ReqInv, LimitInv, RateKept, [Next]_vars PROVE LimitInv' /\ RateKept'
    OBVIOUS
  <1> USE PipelineConstants
  <1>0. /\ now \in Nat /\ run \in Nat
        /\ \A q \in Req : at[q].out \in Nat /\ at[q].run \in Nat
        /\ \A k \in DOMAIN last : last[k] \in Nat
    BY DEF TypeOK
  <1>a. ASSUME Admitted' \subseteq Admitted, \A q \in Admitted : at'[q] = at[q] /\ call'[q] = call[q]
        PROVE  RateKept'
    BY <1>a DEF RateKept
  <1>b. ASSUME Admitted' \subseteq Admitted, \A q \in Admitted : at'[q] = at[q] /\ call'[q] = call[q],
               UNCHANGED <<up, last, run>>
        PROVE  LimitInv'
    BY <1>b DEF LimitInv
  <1>1. ASSUME NEW r \in Req, NEW c \in Call, Arrive(r, c) PROVE LimitInv' /\ RateKept'
    <2>1. /\ pc[r] = "new" /\ pc'[r] \in {"replay", "denied", "verify"}
          /\ \A q \in Req \ {r} : pc'[q] = pc[q] /\ at'[q] = at[q] /\ call'[q] = call[q]
          /\ UNCHANGED <<up, last, run>>
      BY <1>1, ArriveFacts
    <2>2. Admitted' = Admitted /\ r \notin Admitted
      BY <2>1 DEF Admitted
    <2>3. \A q \in Admitted : q \in Req \ {r}
      BY <2>2 DEF Admitted
    <2> QED BY <1>a, <1>b, <2>1, <2>2, <2>3
  <1>2. ASSUME NEW r \in Req, Decide(r) PROVE LimitInv' /\ RateKept'
    <2>0. /\ pc[r] = "decide" /\ up /\ at[r].run = run
          /\ \A q \in Req \ {r} : pc'[q] = pc[q] /\ at'[q] = at[q]
          /\ at'[r].run = at[r].run /\ UNCHANGED <<up, now, call, run>>
          /\ \/ pc'[r] \in {"denied", "limited"} /\ at' = at /\ last' = last
             \/ /\ pc'[r] \in {"source", "handled"} /\ at'[r].out = now
                /\ WithinQuota(Quota(r)) /\ last' = Put(last, Quota(r), now)
      BY <1>2, DecideFacts DEF Quota
    <2>1. r \notin Admitted /\ \A q \in Admitted : q \in Req \ {r}
      BY <2>0 DEF Admitted
    <2>2. CASE pc'[r] \in {"denied", "limited"} /\ at' = at /\ last' = last
      <3>1. Admitted' = Admitted
        BY <2>0, <2>2 DEF Admitted
      <3> QED BY <1>a, <1>b, <2>0, <2>2, <3>1
    <2>3. CASE /\ pc'[r] \in {"source", "handled"} /\ at'[r].out = now
               /\ WithinQuota(Quota(r)) /\ last' = Put(last, Quota(r), now)
      <3> DEFINE k == Quota(r)
      <3>1. Admitted' = Admitted \cup {r}
        BY <2>0, <2>3 DEF Admitted
      <3>2. /\ DOMAIN last' = DOMAIN last \cup {k} /\ last'[k] = now
            /\ \A y \in DOMAIN last : y # k => last'[y] = last[y]
        BY <2>3 DEF Put
      <3>3. \A q \in Admitted : (at[q].run = run /\ Quota(q) = k) => now - at[q].out >= RateWindow
        <4> SUFFICES ASSUME NEW q \in Admitted, at[q].run = run, Quota(q) = k
                     PROVE  now - at[q].out >= RateWindow
          OBVIOUS
        <4>1. k \in DOMAIN last /\ at[q].out <= last[k]
          BY <2>0 DEF LimitInv, Quota
        <4>2. now - last[k] >= RateWindow
          BY <2>3, <4>1 DEF WithinQuota
        <4>3. at[q].out \in Nat /\ last[k] \in Nat
          BY <1>0, <2>1, <4>1
        <4> HIDE DEF k
        <4> QED BY <1>0, <4>1, <4>2, <4>3
      <3>4. \A q \in Req : (Quota(q))' = Quota(q)
        BY <2>0 DEF Quota
      <3>5. LimitInv'
        <4> SUFFICES ASSUME NEW q \in Admitted', at'[q].run = run
                     PROVE  Quota(q) \in DOMAIN last' /\ at'[q].out <= last'[Quota(q)]
          BY <2>0 DEF LimitInv, Quota
        <4>1. CASE q = r
          BY <1>0, <2>3, <3>2, <4>1
        <4>2. CASE q # r
          <5>1. q \in Admitted /\ q \in Req \ {r} /\ at'[q] = at[q]
            BY <2>0, <2>1, <3>1, <4>2
          <5>2. Quota(q) \in DOMAIN last /\ at[q].out <= last[Quota(q)]
            BY <2>0, <5>1 DEF LimitInv, Quota
          <5>3. at[q].out <= now
            BY <5>1 DEF ReqInv
          <5> HIDE DEF k
          <5> QED BY <3>2, <5>1, <5>2, <5>3
        <4> QED BY <4>1, <4>2
      <3>6. RateKept'
        <4> SUFFICES ASSUME NEW p \in Admitted', NEW q \in Admitted',
                            p # q, Quota(p) = Quota(q), at'[p].run = at'[q].run
                     PROVE  \/ at'[p].out - at'[q].out >= RateWindow
                            \/ at'[q].out - at'[p].out >= RateWindow
          BY <2>0 DEF RateKept, Quota
        <4>1. CASE p # r /\ q # r
          <5>1. p \in Admitted /\ q \in Admitted /\ p \in Req \ {r} /\ q \in Req \ {r}
            BY <2>1, <3>1, <4>1
          <5>2. at'[p] = at[p] /\ at'[q] = at[q]
            BY <2>0, <5>1
          <5> QED BY <5>1, <5>2 DEF RateKept, Quota
        <4>2. CASE p = r
          <5>1. q \in Admitted /\ q \in Req \ {r} /\ at'[q] = at[q]
            BY <2>0, <2>1, <3>1, <4>2
          <5> QED BY <2>0, <2>3, <3>3, <4>2, <5>1
        <4>3. CASE q = r
          <5>1. p \in Admitted /\ p \in Req \ {r} /\ at'[p] = at[p]
            BY <2>0, <2>1, <3>1, <4>3
          <5> QED BY <2>0, <2>3, <3>3, <4>3, <5>1
        <4> QED BY <4>1, <4>2, <4>3
      <3> QED BY <3>5, <3>6
    <2> QED BY <2>0, <2>2, <2>3
  <1>3. ASSUME NEW r \in Req, Keyless(r) \/ Verify(r) \/ Source(r) PROVE LimitInv' /\ RateKept'
    <2>1. Admitted' = Admitted /\ UNCHANGED <<up, last, call, run, at>>
      BY <1>3, OtherFacts DEF Admitted
    <2> QED BY <1>a, <1>b, <2>1
  <1>4. CASE Boot
    <2>1. Admitted' = Admitted /\ UNCHANGED <<call, at>> /\ run' = run + 1
      BY <1>4 DEF Boot, reqVars, Admitted
    <2>2. \A q \in Admitted : at'[q].run # run'
      BY <1>0, <2>1 DEF ReqInv, Admitted
    <2> QED BY <1>a, <2>1, <2>2 DEF LimitInv
  <1>5. CASE Stop
    <2>1. Admitted' \subseteq Admitted /\ UNCHANGED <<call, at>> /\ ~up'
      BY <1>5 DEF Stop, Admitted, InFlight
    <2> QED BY <1>a, <2>1 DEF LimitInv
  <1>6. CASE UNCHANGED <<up, last, reqVars, run>>
    <2>1. Admitted' = Admitted /\ UNCHANGED <<call, at>>
      BY <1>6 DEF reqVars, Admitted
    <2> QED BY <1>a, <1>b, <1>6, <2>1
  <1>7. \A t, i, tool : (t \in Token \cup {NoToken} /\ i \in ClientId /\ tool \in Tools) =>
            [token |-> t, id |-> i, tool |-> tool] \in Call
    BY DEF Call
  <1> QED BY <1>1, <1>2, <1>3, <1>4, <1>5, <1>6, <1>7
       DEF Next, Continue, Revoke, Tick, vars, guardVars

\* The denylist keeps a revocation as long as the token lives, and is read before a run
\* serves anything; the check comes after the await of the signature.
LEMMA DenyStep ==
  TypeOK /\ ReqInv /\ DenyInv /\ RevokedWithheld /\ [Next]_vars => DenyInv' /\ RevokedWithheld'
  <1> SUFFICES ASSUME TypeOK, ReqInv, DenyInv, RevokedWithheld, [Next]_vars
               PROVE  DenyInv' /\ RevokedWithheld'
    OBVIOUS
  <1> USE PipelineConstants
  <1>0. /\ now \in Nat /\ run \in Nat /\ DOMAIN revoked \subseteq Token
        /\ \A q \in Req : at[q].out \in Nat /\ at[q].run \in Nat
        /\ \A t \in Token : TokenExp[t] \in Nat
    BY DEF TypeOK
  <1>a. ASSUME Admitted' \subseteq Admitted, \A q \in Admitted : at'[q] = at[q] /\ call'[q] = call[q],
               UNCHANGED <<revoked, lostRevoke>>
        PROVE  RevokedWithheld'
    BY <1>a DEF RevokedWithheld
  <1>b. ASSUME UNCHANGED <<up, now, deny, denyFile, revoked, lostRevoke, run>>
        PROVE  DenyInv'
    BY <1>b DEF DenyInv, Expired
  <1>1. ASSUME NEW r \in Req, NEW c \in Call, Arrive(r, c) PROVE DenyInv' /\ RevokedWithheld'
    <2>1. /\ pc[r] = "new" /\ pc'[r] \in {"replay", "denied", "verify"}
          /\ \A q \in Req \ {r} : pc'[q] = pc[q] /\ at'[q] = at[q] /\ call'[q] = call[q]
          /\ UNCHANGED <<up, now, deny, denyFile, revoked, lostRevoke, run>>
      BY <1>1, ArriveFacts
    <2>2. Admitted' = Admitted /\ r \notin Admitted
      BY <2>1 DEF Admitted
    <2>3. \A q \in Admitted : q \in Req \ {r}
      BY <2>2 DEF Admitted
    <2> QED BY <1>a, <1>b, <2>1, <2>2, <2>3
  <1>2. ASSUME NEW r \in Req, Decide(r) PROVE DenyInv' /\ RevokedWithheld'
    <2>0. /\ pc[r] = "decide" /\ up /\ call[r].token \in Token
          /\ \A q \in Req \ {r} : pc'[q] = pc[q] /\ at'[q] = at[q]
          /\ UNCHANGED <<up, now, deny, call, denyFile, revoked, lostRevoke, run>>
          /\ \/ pc'[r] \in {"denied", "limited"} /\ at' = at
             \/ /\ pc'[r] \in {"source", "handled"} /\ at'[r].out = now
                /\ ~DenylistHas(call[r].token)
      BY <1>2, DecideFacts
    <2>1. DenyInv'
      BY <1>b, <2>0
    <2>2. r \notin Admitted /\ \A q \in Admitted : q \in Req \ {r}
      BY <2>0 DEF Admitted
    <2>3. CASE pc'[r] \in {"denied", "limited"} /\ at' = at
      <3>1. Admitted' = Admitted
        BY <2>0, <2>3 DEF Admitted
      <3> QED BY <1>a, <2>0, <2>1, <2>3, <3>1
    <2>4. CASE pc'[r] \in {"source", "handled"} /\ at'[r].out = now /\ ~DenylistHas(call[r].token)
      <3>1. Admitted' = Admitted \cup {r}
        BY <2>0, <2>4 DEF Admitted
      <3>2. call[r].token \in DOMAIN revoked \ lostRevoke => now >= TokenExp[call[r].token]
        BY <2>0, <2>4 DEF DenyInv, DenylistHas, Expired
      <3>3. RevokedWithheld'
        <4> SUFFICES ASSUME NEW q \in Admitted', call[q].token \in DOMAIN revoked \ lostRevoke,
                            at'[q].run > revoked[call[q].token]
                     PROVE  at'[q].out >= TokenExp[call[q].token]
          BY <2>0 DEF RevokedWithheld
        <4>1. CASE q = r
          BY <2>4, <3>2, <4>1
        <4>2. CASE q # r
          <5>1. q \in Admitted /\ at'[q] = at[q]
            BY <2>0, <2>2, <3>1, <4>2
          <5> QED BY <5>1 DEF RevokedWithheld
        <4> QED BY <4>1, <4>2
      <3> QED BY <2>1, <3>3
    <2> QED BY <2>0, <2>3, <2>4
  <1>3. ASSUME NEW r \in Req, Keyless(r) \/ Verify(r) \/ Source(r) PROVE DenyInv' /\ RevokedWithheld'
    <2>1. /\ Admitted' = Admitted
          /\ UNCHANGED <<up, now, deny, call, denyFile, revoked, lostRevoke, run, at>>
      BY <1>3, OtherFacts DEF Admitted
    <2> QED BY <1>a, <1>b, <2>1
  <1>4. CASE Boot
    <2>1. /\ UNCHANGED <<now, call, at, denyFile, revoked, lostRevoke>> /\ run' = run + 1
          /\ deny' = {t \in denyFile : ~Expired(t)} /\ Admitted' = Admitted
      BY <1>4 DEF Boot, reqVars, tokenVars, Admitted
    <2>2. DenyInv'
      BY <1>0, <2>1 DEF DenyInv, Expired
    <2> QED BY <1>a, <2>1, <2>2
  <1>5. CASE Stop
    <2>1. /\ Admitted' \subseteq Admitted /\ ~up'
          /\ UNCHANGED <<now, call, at, denyFile, revoked, lostRevoke, run>>
      BY <1>5 DEF Stop, Admitted, InFlight, tokenVars
    <2>2. DenyInv'
      BY <2>1 DEF DenyInv, Expired
    <2> QED BY <1>a, <2>1, <2>2
  <1>6. ASSUME NEW t \in Token, Revoke(t) PROVE DenyInv' /\ RevokedWithheld'
    <2>1. /\ ~up /\ t \notin DOMAIN revoked /\ UNCHANGED <<up, now, pc, call, at, run>>
          /\ revoked' = Put(revoked, t, run)
          /\ SaveDenylist(t, {u \in denyFile : ~Expired(u)} \cup {t})
      BY <1>6 DEF Revoke, reqVars
    <2>2. /\ DOMAIN revoked' = DOMAIN revoked \cup {t} /\ revoked'[t] = run
          /\ \A u \in DOMAIN revoked : revoked'[u] = revoked[u]
      BY <2>1 DEF Put
    <2>3. \/ denyFile' = {u \in denyFile : ~Expired(u)} \cup {t} /\ lostRevoke' = lostRevoke
          \/ denyFile' = denyFile /\ lostRevoke' = lostRevoke \cup {t}
      BY <2>1 DEF SaveDenylist
    <2>4. \A u : (Expired(u))' = Expired(u)
      BY <2>1 DEF Expired
    <2>5. DenyInv'
      BY <1>0, <2>1, <2>2, <2>3, <2>4 DEF DenyInv
    <2>6. Admitted' = Admitted
      BY <2>1 DEF Admitted
    <2>7. RevokedWithheld'
      <3> SUFFICES ASSUME NEW q \in Admitted, call[q].token \in DOMAIN revoked' \ lostRevoke',
                          at[q].run > revoked'[call[q].token]
                   PROVE  at[q].out >= TokenExp[call[q].token]
        BY <2>1, <2>6 DEF RevokedWithheld
      <3>1. at[q].run <= run /\ at[q].run \in Nat
        BY <1>0 DEF ReqInv, Admitted
      <3>2. call[q].token # t
        BY <1>0, <2>2, <3>1
      <3>3. /\ call[q].token \in DOMAIN revoked \ lostRevoke
            /\ revoked'[call[q].token] = revoked[call[q].token]
        BY <2>2, <2>3, <3>2
      <3> QED BY <3>3 DEF RevokedWithheld
    <2> QED BY <2>5, <2>7
  <1>7. CASE Tick
    <2>1. /\ now' = now + 1 /\ Admitted' = Admitted
          /\ UNCHANGED <<up, deny, call, denyFile, revoked, lostRevoke, run, at>>
      BY <1>7 DEF Tick, guardVars, reqVars, tokenVars, Admitted
    <2>2. \A t \in Token : Expired(t) => (Expired(t))'
      BY <1>0, <2>1 DEF Expired
    <2>3. DenyInv'
      BY <1>0, <2>1, <2>2 DEF DenyInv
    <2> QED BY <1>a, <2>1, <2>3
  <1>8. CASE UNCHANGED vars
    <2>1. /\ Admitted' = Admitted
          /\ UNCHANGED <<up, now, deny, call, denyFile, revoked, lostRevoke, run, at>>
      BY <1>8 DEF vars, guardVars, reqVars, tokenVars, Admitted
    <2> QED BY <1>a, <1>b, <2>1
  <1>9. \A t, i, tool : (t \in Token \cup {NoToken} /\ i \in ClientId /\ tool \in Tools) =>
            [token |-> t, id |-> i, tool |-> tool] \in Call
    BY DEF Call
  <1> QED BY <1>1, <1>2, <1>3, <1>4, <1>5, <1>6, <1>7, <1>8, <1>9 DEF Next, Continue

\* A request's first events are its trail.
LEMMA FirstEvents ==
  /\ <<>> \o <<"authDeny">> = <<"authDeny">>
  /\ <<>> \o <<"authAllow", "scopeDeny">> = <<"authAllow", "scopeDeny">>
  /\ <<>> \o Allowed = Allowed
  /\ SubSeq(Allowed, 1, 2) = Allowed /\ SubSeq(Allowed \o <<"forecast">>, 1, 2) = Allowed
  <1>1. /\ <<"authDeny">> \in Seq(EventName) /\ <<"authAllow", "scopeDeny">> \in Seq(EventName)
        /\ Allowed \in Seq(EventName) /\ <<"forecast">> \in Seq(EventName) /\ Len(Allowed) = 2
    BY DEF EventName, Allowed
  <1>2. SubSeq(Allowed, 1, 2) = Allowed
    BY <1>1, SubSeqFull
  <1>3. SubSeq(Allowed \o <<"forecast">>, 1, 2) = SubSeq(Allowed, 1, 2)
    BY <1>1, SubSeqOfConcat1
  <1> QED BY <1>1, <1>2, <1>3, ConcatEmptySeq

\* Each refusal and each admission is logged in the step that decides it.
LEMMA TrailStep == TypeOK /\ ReqInv /\ TrailInv /\ [Next]_vars => TrailInv'
  <1> SUFFICES ASSUME TypeOK, ReqInv, TrailInv, [Next]_vars PROVE TrailInv'
    OBVIOUS
  <1> USE PipelineConstants
  <1>0. pc \in [Req -> Places] /\ events \in [Req -> Seq(EventName)]
    BY DEF TypeOK, Places
  <1>1. ASSUME NEW r \in Req, NEW c \in Call, Arrive(r, c) PROVE TrailInv'
    <2>1. /\ pc[r] = "new" /\ UNCHANGED events /\ call'[r] = c
          /\ pc'[r] \in {"replay", "verify"} \/ (pc'[r] = "denied" /\ c.token = NoToken)
          /\ \A q \in Req \ {r} : pc'[q] = pc[q] /\ call'[q] = call[q]
      BY <1>1, ArriveFacts
    <2> QED BY <2>1 DEF TrailInv, Admitted
  <1>2. ASSUME NEW r \in Req, Decide(r) PROVE TrailInv'
    <2>1. pc[r] = "decide" /\ events[r] = <<>> /\ UNCHANGED call
      BY <1>2 DEF Decide, TrailInv
    <2>2. \/ Log(r, <<"authDeny">>) /\ Goto(r, "denied")
          \/ Log(r, <<"authAllow", "scopeDeny">>) /\ Goto(r, "denied")
          \/ /\ Log(r, Allowed)
             /\ \/ Goto(r, "limited")
                \/ /\ Goto(r, "source") \/ Goto(r, "handled")
                   /\ <<Sub[call[r].token], call[r].tool>> \in Granted
      BY <1>2 DEF Decide, PolicyAllows, Allowed
    <2>3. \A q \in Req \ {r} : pc'[q] = pc[q] /\ events'[q] = events[q]
      BY <1>0, <2>2 DEF Log, Goto
    <2>4. \/ events'[r] = <<"authDeny">> /\ pc'[r] = "denied"
          \/ events'[r] = <<"authAllow", "scopeDeny">> /\ pc'[r] = "denied"
          \/ /\ events'[r] = Allowed
             /\ \/ pc'[r] = "limited"
                \/ /\ pc'[r] \in {"source", "handled"}
                   /\ <<Sub[call[r].token], call[r].tool>> \in Granted
      <3>1. \A place : Goto(r, place) => pc'[r] = place
        BY <1>0 DEF Goto
      <3>2. \A new : Log(r, new) => events'[r] = <<>> \o new
        BY <1>0, <2>1 DEF Log
      <3> QED BY <2>2, <3>1, <3>2, FirstEvents
    <2> QED BY <2>1, <2>3, <2>4 DEF TrailInv, Admitted
  <1>3. ASSUME NEW r \in Req, Keyless(r) \/ Verify(r) \/ Source(r) PROVE TrailInv'
    <2>1. /\ \A q \in Req \ {r} : pc'[q] = pc[q]
          /\ UNCHANGED call
          /\ \/ pc[r] = "new" /\ pc'[r] = "invalid" /\ events' = events
             \/ pc[r] = "verify" /\ pc'[r] = "denied" /\ Log(r, <<"authDeny">>)
             \/ pc[r] = "verify" /\ pc'[r] = "decide" /\ events' = events
             \/ pc[r] = "source" /\ pc'[r] = "handled" /\ Log(r, <<"forecast">>)
             \/ pc[r] = "source" /\ pc'[r] = "unavailable" /\ events' = events
      BY <1>3, OtherFacts
    <2>2. \A q \in Req \ {r} : events'[q] = events[q]
      BY <1>0, <2>1 DEF Log
    <2>3. pc[r] = "verify" => events[r] = <<>>
      BY DEF TrailInv
    <2>4. pc[r] = "source" => /\ events[r] = Allowed /\ r \in Admitted
      BY DEF TrailInv, Admitted
    <2>5. \A new : Log(r, new) => events'[r] = events[r] \o new
      BY <1>0 DEF Log
    <2>6. \/ pc[r] = "new" /\ pc'[r] = "invalid"
          \/ pc[r] = "verify" /\ pc'[r] = "denied" /\ events'[r] = <<"authDeny">>
          \/ pc[r] = "verify" /\ pc'[r] = "decide" /\ events'[r] = <<>>
          \/ /\ pc[r] = "source" /\ pc'[r] = "handled"
             /\ events'[r] = Allowed \o <<"forecast">>
          \/ pc[r] = "source" /\ pc'[r] = "unavailable" /\ events'[r] = Allowed
      BY <2>1, <2>3, <2>4, <2>5, FirstEvents
    <2>7. pc[r] = "source" => <<Sub[call[r].token], call[r].tool>> \in Granted
      BY <2>4 DEF TrailInv
    <2> QED BY <2>1, <2>2, <2>6, <2>7 DEF TrailInv, Admitted
  <1>4. CASE Stop
    <2>1. /\ \A r \in Req : pc'[r] = pc[r] \/ pc'[r] = "dropped"
          /\ UNCHANGED <<call, events>>
      BY <1>4 DEF Stop
    <2> QED BY <2>1 DEF TrailInv, Admitted
  <1>5. CASE UNCHANGED reqVars
    BY <1>5 DEF reqVars, TrailInv, Admitted
  <1>6. \A t, i, tool : (t \in Token \cup {NoToken} /\ i \in ClientId /\ tool \in Tools) =>
            [token |-> t, id |-> i, tool |-> tool] \in Call
    BY DEF Call
  <1> QED BY <1>1, <1>2, <1>3, <1>4, <1>5, <1>6 DEF Next, Continue, Boot, Revoke, Tick, vars

-----------------------------------------------------------------------------
\* The invariant in every state of the pipeline.
LEMMA PipelineAlways == Spec => [](TypeOK /\ Inv)
  <1>1. TypeOK /\ Inv /\ [Next]_vars => TypeOK' /\ Inv'
    BY PipelineTypes, ReqStep, GuardStep, LimitStep, DenyStep, TrailStep DEF Inv
  <1> QED BY <1>1, PipelineInit, PTL DEF Spec

\* The state of the guards, the denylist and the requests keeps its types.
THEOREM PipelineTypeCorrect == Spec => []TypeOK
  BY PipelineAlways, PTL

\* ReplayGuard and the idempotency key: within a run, two requests with one id do not both
\* get past the guard inside the window, for any number of requests interleaved at any
\* await.
THEOREM ReplaysStopped == Spec => []NoReplay
  BY PipelineAlways, PTL DEF Inv

\* limiter.ts, N=1/T: a buyer has at most one admitted request of a tool per rate window
\* and run, however many are between their awaits.
THEOREM RateAlwaysKept == Spec => []RateKept
  BY PipelineAlways, PTL DEF Inv

\* Denylist: a revocation that reached the file is never admitted in a later run before the
\* token itself expires.
THEOREM RevokedNeverAdmitted == Spec => []RevokedWithheld
  BY PipelineAlways, PTL DEF Inv

\* guardedTool: no handler answers without its two decisions on record, and no refusal
\* without the decision that refused.
THEOREM AlwaysAudited == Spec => []Audited
  <1>1. Inv => Audited
    <2> SUFFICES ASSUME TrailInv PROVE Audited
      BY DEF Inv
    <2> QED BY FirstEvents DEF TrailInv, Audited, Allowed
  <1> QED BY <1>1, PipelineAlways, PTL

=============================================================================
