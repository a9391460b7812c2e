------------------------------- MODULE UdpReceive -------------------------------
(***************************************************************************)
(* The UDP side of the server: UDPManager's receive chain,                 *)
(* DataHandler::on_udp_receive with its checks and limits, the map from    *)
(* endpoints to sessions, the udp_register handler, and the closing and    *)
(* recycling of sessions that other threads do meanwhile.                  *)
(*                                                                         *)
(* One receive is outstanding at a time and the next is started when the   *)
(* handler ends, so packets are handled one after the other, each on the   *)
(* thread that happens to run it.  A packet that is empty, too long or not *)
(* JSON is refused before anything modelled here; one without a nickname   *)
(* counts as one of an unknown nickname.  expire_stale_udp_endpoints only  *)
(* acts on sessions with closed_ set, which nothing sets.                  *)
(*                                                                         *)
(* Time is counted in ticks, TicksPerSec to the second.                    *)
(***************************************************************************)
EXTENDS Integers, FiniteSets, FiniteSetsExt

CONSTANTS
  Sessions, Nicknames, Endpoints,
  None,                       \* nullptr, nullopt, the empty token
  Shards,                     \* shards of the limiter; a thread has one
  total_limit_per_sec,
  maxTokens, refillRatePerSec, TicksPerSec,
  udp_token_ttl_seconds,
  MaxConns, MaxPackets, MaxTime   \* bounds of the model

ASSUME UdpAssumption ==
  /\ None \notin Sessions \cup Nicknames \cup Endpoints /\ None \notin Nat
  /\ IsFiniteSet(Shards)
  /\ total_limit_per_sec \in Nat /\ maxTokens \in Nat /\ refillRatePerSec \in Nat
  /\ TicksPerSec \in Nat \ {0} /\ udp_token_ttl_seconds \in Nat
  /\ MaxConns \in Nat /\ MaxPackets \in Nat /\ MaxTime \in Nat

Tokens == 1 .. MaxPackets        \* generate_random_token(): never the same twice
Packets ==
  [type : {"udp_register"}, from : Endpoints, nickname : Nicknames, token : {None}] \cup
  [type : {"udp"}, from : Endpoints, nickname : Nicknames, token : Tokens \cup {None}]

VARIABLES
  \* Session, one value per object
  phase,           \* "pooled", "open", "erase" and "release" while it is closed
  user,            \* nickname_
  udp_endpoint, udp_token,
  issued,          \* udp_token_issued_, None before the first and after a reset
  udpTokens, lastRefill,
  trailing,        \* close_session() calls before their last cleanup()
  \* SessionManager and DataHandler
  nickname_index,
  endpoint_map,    \* udp_endpoint_to_session_
  counts, window_secs,      \* udp_global_limiter_
  now,
  \* the receive chain
  pc, pkt,
  session,         \* on_udp_receive's local
  prev,            \* prev_ep_snapshot
  \* history
  packets,         \* received so far; also numbers the tokens
  conns, conn,     \* connections so far, and the one of each object
  holder,          \* whom a token was issued to: connection and endpoint
  entered,         \* the connection the map was last given for an endpoint
  registered,      \* who registered what: connection and endpoint
  passed,          \* packets the global limit let pass in this second
  charged,         \* tokens taken from each bucket
  stray            \* a packet or a cleanup() met a connection it was not for

sessVars  == <<phase, user, trailing, conns, conn>>
udpVars   == <<udp_endpoint, udp_token, issued>>
rateVars  == <<udpTokens, lastRefill, charged>>
limitVars == <<counts, window_secs, passed>>
chainVars == <<pc, pkt, session, prev, packets>>
mapVars   == <<endpoint_map, entered, registered>>
vars == <<sessVars, udpVars, rateVars, nickname_index, mapVars, limitVars, now, chainVars,
          holder, stray>>

Second == now \div TicksPerSec

NoPacket == [type |-> "none", from |-> None, nickname |-> None, token |-> None]

Init ==
  /\ phase = [s \in Sessions |-> "pooled"]
  /\ user = [s \in Sessions |-> None]
  /\ udp_endpoint = [s \in Sessions |-> None]
  /\ udp_token = [s \in Sessions |-> None]
  /\ issued = [s \in Sessions |-> None]
  /\ udpTokens = [s \in Sessions |-> maxTokens]
  /\ lastRefill = [s \in Sessions |-> 0]
  /\ trailing = [s \in Sessions |-> 0]
  /\ nickname_index = [n \in Nicknames |-> None]
  /\ endpoint_map = [e \in Endpoints |-> None]
  /\ counts = [k \in Shards |-> 0] /\ window_secs = [k \in Shards |-> 0]
  /\ now = 0
  /\ pc = "receive" /\ pkt = NoPacket /\ session = None /\ prev = None
  /\ packets = 0 /\ conns = 0 /\ conn = [s \in Sessions |-> 0]
  /\ holder = [t \in Tokens |-> None]
  /\ entered = [e \in Endpoints |-> 0] /\ registered = {}
  /\ passed = 0 /\ charged = [s \in Sessions |-> 0] /\ stray = FALSE

-----------------------------------------------------------------------------
(* Sessions: login, close and reuse.                                       *)

\* Mutant: the endpoint stays.
KeepEndpoint(s) ==
  /\ udp_token' = [udp_token EXCEPT ![s] = None]
  /\ UNCHANGED udp_endpoint

\* cleanup() and reset(), as far as UDP goes; the bucket is not refilled.
cleanup(s) ==
  /\ udp_endpoint' = [udp_endpoint EXCEPT ![s] = None]
  /\ udp_token' = [udp_token EXCEPT ![s] = None]

Unissue(s) == issued' = [issued EXCEPT ![s] = None]

\* A connection gets the object and logs in under a free nickname.
Login(s, n) ==
  /\ phase[s] = "pooled" /\ conns < MaxConns
  /\ \A t \in Sessions : phase[t] = "open" => user[t] # n
  /\ phase' = [phase EXCEPT ![s] = "open"]
  /\ user' = [user EXCEPT ![s] = n]
  /\ conns' = conns + 1 /\ conn' = [conn EXCEPT ![s] = conns + 1]
  /\ nickname_index' = [nickname_index EXCEPT ![n] = s]
  /\ cleanup(s) /\ Unissue(s)
  /\ UNCHANGED <<trailing, rateVars, mapVars, limitVars, now, chainVars, holder, stray>>

\* close_session() reaches DataHandler::remove_session, which looks for an
\* endpoint before it locks the map.
Close(s) ==
  /\ phase[s] = "open"
  /\ phase' = [phase EXCEPT ![s] = IF udp_endpoint[s] = None THEN "release" ELSE "erase"]
  /\ stray' = (stray \/ session = s)
  /\ UNCHANGED <<user, trailing, conns, conn, udpVars, rateVars, nickname_index, mapVars,
                 limitVars, now, chainVars, holder>>

\* Mutant: the entry goes whoever it leads to.
EraseAny(s, e) == [endpoint_map EXCEPT ![e] = None]

\* The map without the entry of endpoint e, if it leads to s.
EraseOwn(s, e) ==
  [x \in Endpoints |-> IF x = e /\ endpoint_map[x] = s THEN None ELSE endpoint_map[x]]

\* A cleanup() since Close leaves nothing to dereference, which is undefined: any
\* endpoint may be read then, or none that the map knows.
EraseEndpoint(s) ==
  /\ phase[s] = "erase"
  /\ \E e \in IF udp_endpoint[s] = None THEN Endpoints \cup {None} ELSE {udp_endpoint[s]} :
       endpoint_map' = EraseOwn(s, e)
  /\ phase' = [phase EXCEPT ![s] = "release"]
  /\ UNCHANGED <<user, trailing, conns, conn, udpVars, rateVars, nickname_index, entered,
                 registered, limitVars, now, chainVars, holder, stray>>

\* clear_udp_token() and SessionPool::release with its cleanup().  The nickname
\* stays in the index.
Release(s) ==
  /\ phase[s] = "release"
  /\ phase' = [phase EXCEPT ![s] = "pooled"]
  /\ user' = [user EXCEPT ![s] = None]
  /\ trailing' = [trailing EXCEPT ![s] = @ + 1]
  /\ cleanup(s) /\ Unissue(s)
  /\ UNCHANGED <<conns, conn, rateVars, nickname_index, mapVars, limitVars, now, chainVars, holder,
                 stray>>

\* The end of close_session(); the object may have its next connection.
TrailingCleanup(s) ==
  /\ trailing[s] > 0
  /\ trailing' = [trailing EXCEPT ![s] = @ - 1]
  /\ cleanup(s)
  /\ user' = [user EXCEPT ![s] = None]
  /\ stray' = (stray \/ phase[s] # "pooled")
  /\ UNCHANGED <<phase, conns, conn, issued, rateVars, nickname_index, mapVars, limitVars, now,
                 chainVars, holder>>

Tick ==
  /\ now < MaxTime
  /\ now' = now + 1
  /\ passed' = IF now' \div TicksPerSec = Second THEN passed ELSE 0
  /\ UNCHANGED <<sessVars, udpVars, rateVars, nickname_index, mapVars, counts, window_secs,
                 chainVars, holder, stray>>

-----------------------------------------------------------------------------
(* Limits.                                                                 *)

\* Mutant: the time of the last refill is not kept up.
RefillAgain(s) ==
  [tokens |-> LET filled == udpTokens[s] + ((now - lastRefill[s]) * refillRatePerSec) \div TicksPerSec
              IN IF filled < maxTokens THEN filled ELSE maxTokens,
   at     |-> lastRefill[s]]

\* checkUdpRateLimit, first half: whole tokens for the time since the last
\* refill; what does not make a token waits for the next call, what exceeds the
\* last whole token is lost.
Refill(s) ==
  LET refill == ((now - lastRefill[s]) * refillRatePerSec) \div TicksPerSec
      filled == udpTokens[s] + refill
  IN IF refill > 0
     THEN [tokens |-> IF filled < maxTokens THEN filled ELSE maxTokens, at |-> now]
     ELSE [tokens |-> udpTokens[s], at |-> lastRefill[s]]

\* checkUdpRateLimit, second half.
Allowed(s) == Refill(s).tokens > 0

\* Mutant: a token is taken before it is looked whether there is one.
ChargeFirst(s) ==
  /\ udpTokens' = [udpTokens EXCEPT ![s] = Refill(s).tokens - 1]
  /\ lastRefill' = [lastRefill EXCEPT ![s] = Refill(s).at]
  /\ charged' = [charged EXCEPT ![s] = IF Allowed(s) THEN @ + 1 ELSE @]

\* The call as a whole.
checkUdpRateLimit(s) ==
  /\ udpTokens' = [udpTokens EXCEPT ![s] = IF Allowed(s) THEN Refill(s).tokens - 1
                                                         ELSE Refill(s).tokens]
  /\ lastRefill' = [lastRefill EXCEPT ![s] = Refill(s).at]
  /\ charged' = [charged EXCEPT ![s] = IF Allowed(s) THEN @ + 1 ELSE @]

\* sharded_udp_rate_limit on the thread of shard k: only its own shard starts
\* the new second, the others keep what they last counted.
Counted(k) ==
  [counts EXCEPT ![k] = IF window_secs[k] = Second THEN @ + 1 ELSE 1]

\* Mutant: a thread sums up its own shard only.
OwnShardPasses(k) == Counted(k)[k] <= total_limit_per_sec

Passes(k) == MapThenSumSet(LAMBDA i : Counted(k)[i], Shards) <= total_limit_per_sec

Count(k) ==
  /\ counts' = Counted(k)
  /\ window_secs' = [window_secs EXCEPT ![k] = Second]
  /\ passed' = IF Passes(k) THEN passed + 1 ELSE passed

-----------------------------------------------------------------------------
(* Receiving a packet.                                                     *)

\* The handler ends; start_receive().
Done == pc' = "receive" /\ pkt' = NoPacket /\ session' = None /\ prev' = None /\ UNCHANGED packets

Continue(next) == pc' = next /\ UNCHANGED <<pkt, prev, packets>>

\* UDPManager: a sender whose endpoint is in the map is charged here already.
\* A token nobody was issued is refused like no token at all.
Receive(p) ==
  LET known == endpoint_map[p.from]
      fine  == IF known = None THEN TRUE ELSE Allowed(known)
  IN
  /\ pc = "receive" /\ packets < MaxPackets
  /\ p.token # None => holder[p.token] # None
  /\ packets' = packets + 1
  /\ \/ fine /\ pc' = "check" /\ pkt' = p
     \/ ~fine /\ UNCHANGED <<pc, pkt>>
  /\ IF known = None THEN UNCHANGED rateVars ELSE checkUdpRateLimit(known)
  /\ UNCHANGED <<sessVars, udpVars, nickname_index, mapVars, limitVars, now, session, prev, holder,
                 stray>>

\* is_udp_token_valid: whole seconds since the token was issued.
is_udp_token_valid(s) ==
  /\ udp_token[s] # None /\ issued[s] # None
  /\ (now - issued[s]) \div TicksPerSec <= udp_token_ttl_seconds

TokenMatches(s) == pkt.token # None /\ udp_token[s] = pkt.token

\* Mutant: the token alone is enough.
AnyEndpoint(s) == TRUE

BoundHere(s) == udp_endpoint[s] = pkt.from

\* on_udp_receive up to the rate limit of the session, on the thread of shard
\* k: the global limit, the session of the nickname, and for all but
\* udp_register the token, its age and the endpoint.
OnUdpReceive(k) ==
  LET s        == nickname_index[pkt.nickname]
      register == pkt.type = "udp_register"
      genuine  == TokenMatches(s) /\ is_udp_token_valid(s) /\ BoundHere(s)
  IN
  /\ pc = "check"
  /\ Count(k)
  /\ \/ /\ ~Passes(k) \/ s = None
        /\ Done /\ UNCHANGED <<udpVars, rateVars>>
     \/ /\ Passes(k) /\ s # None /\ ~register /\ ~genuine
        /\ Done
        /\ IF TokenMatches(s) /\ ~is_udp_token_valid(s)
           THEN /\ udp_token' = [udp_token EXCEPT ![s] = None]
                /\ Unissue(s)
                /\ UNCHANGED udp_endpoint
           ELSE UNCHANGED udpVars
        /\ UNCHANGED rateVars
     \/ /\ Passes(k) /\ s # None /\ (register \/ genuine)
        /\ checkUdpRateLimit(s)
        /\ \/ ~Allowed(s) /\ Done
           \/ /\ Allowed(s) /\ session' = s
              /\ Continue(IF register THEN "snapshot" ELSE "dispatch")
        /\ UNCHANGED udpVars
  /\ UNCHANGED <<sessVars, nickname_index, mapVars, now, holder, stray>>

\* The handlers of "udp" and of the broadcasts send and change nothing.
Dispatch ==
  /\ pc = "dispatch"
  /\ Done
  /\ UNCHANGED <<sessVars, udpVars, rateVars, nickname_index, mapVars, limitVars, now, holder, stray>>

\* What a registration does to a session that is not open under the nickname.
Astray == stray \/ phase[session] # "open" \/ user[session] # pkt.nickname

\* udp_register: the previous endpoint is read before the map is locked.
Snapshot ==
  /\ pc = "snapshot"
  /\ prev' = udp_endpoint[session]
  /\ pc' = IF prev' = pkt.from THEN "handler" ELSE "map"
  /\ stray' = Astray
  /\ UNCHANGED <<pkt, session, packets, sessVars, udpVars, rateVars, nickname_index, mapVars,
                 limitVars, now, holder>>

\* Under udp_endpoint_mutex_: the entry of the previous endpoint goes, and whoever
\* had the new endpoint loses it.
UpdateMap ==
  /\ pc = "map"
  /\ endpoint_map' = [EraseOwn(session, prev) EXCEPT ![pkt.from] = session]
  /\ entered' = [entered EXCEPT ![pkt.from] = conn[session]]
  /\ registered' = registered \cup {<<conn[session], pkt.from>>}
  /\ Continue("bind") /\ UNCHANGED session
  /\ stray' = Astray
  /\ UNCHANGED <<sessVars, udpVars, rateVars, nickname_index, limitVars, now, holder>>

\* set_udp_endpoint, after the lock was dropped.
Bind ==
  /\ pc = "bind"
  /\ udp_endpoint' = [udp_endpoint EXCEPT ![session] = pkt.from]
  /\ Continue("handler") /\ UNCHANGED session
  /\ stray' = Astray
  /\ UNCHANGED <<sessVars, udp_token, issued, rateVars, nickname_index, mapVars, limitVars, now,
                 holder>>

\* Udpregister_handler: the endpoint once more, and a new token.
Udpregister_handler ==
  /\ pc = "handler"
  /\ udp_endpoint' = [udp_endpoint EXCEPT ![session] = pkt.from]
  /\ udp_token' = [udp_token EXCEPT ![session] = packets]
  /\ issued' = [issued EXCEPT ![session] = now]
  /\ holder' = [holder EXCEPT ![packets] = <<conn[session], pkt.from>>]
  /\ Done
  /\ stray' = Astray
  /\ UNCHANGED <<sessVars, rateVars, nickname_index, mapVars, limitVars, now>>

-----------------------------------------------------------------------------
Next ==
  \/ \E s \in Sessions :
       \/ \E n \in Nicknames : Login(s, n)
       \/ Close(s) \/ EraseEndpoint(s) \/ Release(s) \/ TrailingCleanup(s)
  \/ Tick
  \/ \E p \in Packets : Receive(p)
  \/ \E k \in Shards : OnUdpReceive(k)
  \/ Dispatch \/ Snapshot \/ UpdateMap \/ Bind \/ Udpregister_handler

Spec == Init /\ [][Next]_vars

-----------------------------------------------------------------------------
(* Properties.                                                             *)

\* Types.
TypeOK ==
  /\ phase \in [Sessions -> {"pooled", "open", "erase", "release"}]
  /\ user \in [Sessions -> Nicknames \cup {None}]
  /\ udp_endpoint \in [Sessions -> Endpoints \cup {None}]
  /\ udp_token \in [Sessions -> Tokens \cup {None}]
  /\ issued \in [Sessions -> (0 .. now) \cup {None}] /\ lastRefill \in [Sessions -> 0 .. now]
  /\ udpTokens \in [Sessions -> 0 .. maxTokens]
  /\ trailing \in [Sessions -> Nat]
  /\ nickname_index \in [Nicknames -> Sessions \cup {None}]
  /\ endpoint_map \in [Endpoints -> Sessions \cup {None}]
  /\ counts \in [Shards -> 0 .. MaxPackets] /\ window_secs \in [Shards -> 0 .. Second]
  /\ now \in 0 .. MaxTime
  /\ pc \in {"receive", "check", "dispatch", "snapshot", "map", "bind", "handler"}
  /\ pkt \in Packets \cup {NoPacket}
  /\ session \in Sessions \cup {None} /\ prev \in Endpoints \cup {None}
  /\ packets \in 0 .. MaxPackets /\ conns \in 0 .. MaxConns /\ conn \in [Sessions -> 0 .. conns]
  /\ holder \in [Tokens -> {None} \cup ((0 .. MaxConns) \X Endpoints)]
  /\ entered \in [Endpoints -> 0 .. conns] /\ registered \subseteq (0 .. conns) \X Endpoints
  /\ passed \in 0 .. MaxPackets /\ charged \in [Sessions -> Nat] /\ stray \in BOOLEAN

\* An entry of the map leads to a session that is bound to its endpoint, and an
\* open session keeps the entry it made until it binds another endpoint or
\* another session is entered: no entry survives a change of endpoint or a close,
\* and nobody's change or close takes the entry of another, although two sessions
\* may be bound to one endpoint.  It does not say that the last to register an
\* endpoint is entered for it, as the replace policy of DataHandler.cpp:412 means:
\* a session that registers once more the endpoint it has gets a token, but line
\* 382 skips the map, which may lead to another session or nowhere by then.  It
\* ends where a registration hits a session that is not open under the nickname
\* (the index keeps the names of users who left), a close meets a packet under
\* way, or a cleanup() the next user of the object.
EndpointsAgree ==
  ~stray =>
    \A e \in Endpoints :
      /\ endpoint_map[e] # None =>
           \/ udp_endpoint[endpoint_map[e]] = e
           \/ pc = "bind" /\ session = endpoint_map[e] /\ pkt.from = e
      /\ \A s \in Sessions :
           phase[s] = "open" /\ udp_endpoint[s] = e /\ entered[e] = conn[s] /\ pc # "bind"
             => endpoint_map[e] = s

\* A packet other than udp_register reaches a handler only if its token was
\* issued to this connection at the endpoint it comes from, whatever was
\* registered, closed and recycled in between (README.md:128).
DoubleChecked ==
  [][pc = "check" /\ pc' = "dispatch" =>
       holder[pkt.token] = <<conn[session'], pkt.from>>]_vars

\* The endpoints udp_broadcast sends to on behalf of a nickname: those of the
\* sessions logged in under another one.
Recipients(n) ==
  {s \in Sessions : phase[s] = "open" /\ user[s] \notin {n, None} /\ udp_endpoint[s] # None}

\* A broadcast goes only to endpoints that the connections of the moment
\* registered themselves: what a user bound is forgotten before the next one
\* has the object.
Audience ==
  ~stray => \A n \in Nicknames : \A s \in Recipients(n) :
              <<conn[s], udp_endpoint[s]>> \in registered

\* In no second do more packets pass the global limit than configured, although
\* each thread starts the second of its own shard only.
GlobalLimit == passed <= total_limit_per_sec

\* A session's bucket yields no more than its size and the refill rate allow,
\* over all connections that use the object: no fraction of a token is counted
\* twice.
BucketLimit ==
  \A s \in Sessions :
    charged[s] * TicksPerSec <= maxTokens * TicksPerSec + now * refillRatePerSec
================================================================================
