---------------------------- MODULE UdpReceiveProofs ----------------------------
(***************************************************************************)
(* Proofs about UdpReceive, for any sessions, nicknames, endpoints and     *)
(* shards, and any limits.                                                 *)
(***************************************************************************)
EXTENDS UdpReceive, FiniteSetTheorems, WellFoundedInduction, TLAPS

-----------------------------------------------------------------------------
(* The inductive invariant.                                                *)

\* A packet under way has its session once the checks are past.
Chain ==
  /\ pc # "receive" => pkt \in Packets /\ packets >= 1
  /\ pc \notin {"receive", "check"} => session \in Sessions

\* Packets received and not yet counted by the global limiter.
Uncounted == IF pc = "check" THEN 1 ELSE 0

Counting ==
  /\ \A k \in Shards : counts[k] + Uncounted <= packets
  /\ passed + Uncounted <= packets

\* A token belongs to the connection and the endpoint of its session, except
\* while that session is about to get its next one.
Issued ==
  \A s \in Sessions :
    udp_token[s] # None =>
      /\ udp_token[s] <= packets /\ (pc # "receive" => udp_token[s] < packets)
      /\ \/ pc = "handler" /\ session = s
         \/ holder[udp_token[s]] = <<conn[s], udp_endpoint[s]>>

\* No two connections have a number.
Numbered ==
  /\ \A s \in Sessions : phase[s] # "pooled" => conn[s] >= 1
  /\ \A s, t \in Sessions : conn[s] = conn[t] /\ conn[s] >= 1 => s = t

\* What was taken from a bucket and what is left in it came with the bucket or
\* was refilled in time.
Filled ==
  \A s \in Sessions :
    (charged[s] + udpTokens[s]) * TicksPerSec
      <= maxTokens * TicksPerSec + lastRefill[s] * refillRatePerSec

\* A registration under way: its session is open, knows its previous endpoint
\* until the map is changed, has the entry of its new one alone until the
\* endpoint is set, and the endpoint from then on.
Registering ==
  /\ pc \in {"map", "bind", "handler"} => phase[session] = "open"
  /\ pc = "map" => prev = udp_endpoint[session]
  /\ pc = "bind" => /\ \A e \in Endpoints : endpoint_map[e] = session <=> e = pkt.from
                    /\ <<conn[session], pkt.from>> \in registered
  /\ pc = "handler" => udp_endpoint[session] = pkt.from

Registered ==
  \A s \in Sessions : udp_endpoint[s] # None => <<conn[s], udp_endpoint[s]>> \in registered

\* The map and the sessions agree, and a session on its way to the pool has no
\* entry any more.
Leads ==
  \A e \in Endpoints : endpoint_map[e] # None =>
    \/ udp_endpoint[endpoint_map[e]] = e
    \/ pc = "bind" /\ session = endpoint_map[e] /\ pkt.from = e

Entered ==
  \A s \in Sessions : \A e \in Endpoints :
    (phase[s] = "open" /\ udp_endpoint[s] = e /\ entered[e] = conn[s]
       /\ ~(pc = "bind" /\ session = s))
      => endpoint_map[e] = s

Gone ==
  \A s \in Sessions :
    /\ phase[s] \in {"release", "pooled"} => \A e \in Endpoints : endpoint_map[e] # s
    /\ phase[s] = "erase" => udp_endpoint[s] # None

Agreed == Registering /\ Registered /\ Leads /\ Entered /\ Gone

IInv == TypeOK /\ Chain /\ Counting /\ Issued /\ Numbered /\ Filled /\ (~stray => Agreed)

-----------------------------------------------------------------------------
(* Arithmetic of seconds and buckets.                                      *)

LEMMA Division ==
  ASSUME NEW a \in Nat, NEW d \in Nat \ {0}
  PROVE  a \div d \in Nat /\ (a \div d) * d <= a /\ a < (a \div d) * d + d
<1>1. (a \div d) * d <= a
  OBVIOUS
<1>2. a < (a \div d) * d + d
  OBVIOUS
<1>3. a \div d \in Int
  OBVIOUS
<1>4. a \div d >= 0
  OBVIOUS
<1> QED
  BY <1>1, <1>2, <1>3, <1>4

LEMMA TimesMonotone ==
  ASSUME NEW a \in Nat, NEW b \in Nat, NEW r \in Nat, a <= b
  PROVE  a * r <= b * r /\ a * r \in Nat /\ b * r \in Nat
OBVIOUS

LEMMA DivisionMonotone ==
  ASSUME NEW a \in Nat, NEW b \in Nat, NEW d \in Nat \ {0}, a <= b
  PROVE  a \div d <= b \div d
<1>1. PICK p \in Nat : p = a \div d /\ p * d <= a
  BY Division
<1>2. PICK q \in Nat : q = b \div d /\ b < q * d + d
  BY Division
<1>3. p * d < q * d + d
  BY <1>1, <1>2
<1>4. p <= q
  <2> SUFFICES ASSUME q + 1 <= p PROVE FALSE
    BY <1>1, <1>2
  <2>1. (q + 1) * d <= p * d
    BY TimesMonotone
  <2>2. (q + 1) * d = q * d + d
    OBVIOUS
  <2> QED
    BY <1>3, <2>1, <2>2
<1> QED
  BY <1>1, <1>2, <1>4

\* A refill keeps the bucket within its size and grants no more than the time
\* since the last one allows, the fraction of a token included.
LEMMA RefillFilled ==
  ASSUME NEW tokens \in Nat, NEW last \in Nat, NEW time \in Nat, last <= time, NEW taken \in Nat,
         (taken + tokens) * TicksPerSec <= maxTokens * TicksPerSec + last * refillRatePerSec,
         NEW refill, refill = ((time - last) * refillRatePerSec) \div TicksPerSec
  PROVE  /\ refill \in Nat
         /\ (taken + (tokens + refill)) * TicksPerSec
              <= maxTokens * TicksPerSec + time * refillRatePerSec
<1>1. /\ maxTokens \in Nat /\ refillRatePerSec \in Nat /\ TicksPerSec \in Nat \ {0}
      /\ time - last \in Nat
  BY UdpAssumption
<1>2. (time - last) * refillRatePerSec \in Nat
  BY <1>1
<1>3. refill \in Nat /\ refill * TicksPerSec <= (time - last) * refillRatePerSec
  BY <1>1, <1>2, Division
<1>4. (time - last) * refillRatePerSec = time * refillRatePerSec - last * refillRatePerSec
  BY <1>1
<1>5. (taken + (tokens + refill)) * TicksPerSec
        = (taken + tokens) * TicksPerSec + refill * TicksPerSec
  BY <1>1, <1>3
<1>6. PICK x \in Nat, y \in Nat, m \in Nat, l \in Nat, t \in Nat :
        /\ x = (taken + tokens) * TicksPerSec /\ y = refill * TicksPerSec
        /\ m = maxTokens * TicksPerSec
        /\ l = last * refillRatePerSec /\ t = time * refillRatePerSec
  <2>1. /\ (taken + tokens) * TicksPerSec \in Nat /\ refill * TicksPerSec \in Nat
        /\ maxTokens * TicksPerSec \in Nat
        /\ last * refillRatePerSec \in Nat /\ time * refillRatePerSec \in Nat
    BY <1>1, <1>3
  <2> QED
    BY <2>1
<1>7. x <= m + l /\ y <= t - l
  BY <1>3, <1>4, <1>6
<1>8. x + y <= m + t
  BY <1>7
<1> QED
  BY <1>3, <1>5, <1>6, <1>8


LEMMA RefillEffect ==
  ASSUME TypeOK, Filled, NEW s \in Sessions
  PROVE  /\ Refill(s).tokens \in 0 .. maxTokens /\ Refill(s).at \in 0 .. now
         /\ (charged[s] + Refill(s).tokens) * TicksPerSec
              <= maxTokens * TicksPerSec + Refill(s).at * refillRatePerSec
<1>1. /\ maxTokens \in Nat /\ refillRatePerSec \in Nat /\ TicksPerSec \in Nat \ {0}
      /\ now \in Nat /\ udpTokens[s] \in 0 .. maxTokens /\ lastRefill[s] \in 0 .. now
      /\ charged[s] \in Nat
  BY UdpAssumption DEF TypeOK
<1>2. PICK refill : refill = ((now - lastRefill[s]) * refillRatePerSec) \div TicksPerSec
  OBVIOUS
<1>3. (charged[s] + udpTokens[s]) * TicksPerSec
        <= maxTokens * TicksPerSec + lastRefill[s] * refillRatePerSec
  BY DEF Filled
<1>4. /\ refill \in Nat
      /\ (charged[s] + (udpTokens[s] + refill)) * TicksPerSec
           <= maxTokens * TicksPerSec + now * refillRatePerSec
  BY <1>1, <1>2, <1>3, RefillFilled
<1>5. CASE refill > 0
  <2> DEFINE tokens == IF udpTokens[s] + refill < maxTokens THEN udpTokens[s] + refill
                                                            ELSE maxTokens
  <2>1. Refill(s) = [tokens |-> tokens, at |-> now]
    BY <1>2, <1>5 DEF Refill
  <2>2. tokens \in 0 .. maxTokens /\ tokens <= udpTokens[s] + refill
    BY <1>1, <1>4
  <2> HIDE DEF tokens
  <2>3. (charged[s] + tokens) * TicksPerSec <= (charged[s] + (udpTokens[s] + refill)) * TicksPerSec
    <3>1. /\ charged[s] + tokens \in Nat /\ charged[s] + (udpTokens[s] + refill) \in Nat
          /\ charged[s] + tokens <= charged[s] + (udpTokens[s] + refill)
      BY <1>1, <1>4, <2>2
    <3> QED
      BY <1>1, <3>1, TimesMonotone
  <2>4. PICK x \in Nat, y \in Nat, z \in Nat :
          /\ x = (charged[s] + tokens) * TicksPerSec
          /\ y = (charged[s] + (udpTokens[s] + refill)) * TicksPerSec
          /\ z = maxTokens * TicksPerSec + now * refillRatePerSec
    <3>1. /\ (charged[s] + tokens) * TicksPerSec \in Nat
          /\ (charged[s] + (udpTokens[s] + refill)) * TicksPerSec \in Nat
          /\ maxTokens * TicksPerSec + now * refillRatePerSec \in Nat
      BY <1>1, <1>4, <2>2
    <3> QED
      BY <3>1
  <2>5. x <= z
    BY <1>4, <2>3, <2>4
  <2> QED
    BY <1>1, <2>1, <2>2, <2>4, <2>5
<1>6. CASE ~(refill > 0)
  <2>1. Refill(s) = [tokens |-> udpTokens[s], at |-> lastRefill[s]]
    BY <1>2, <1>6 DEF Refill
  <2> QED
    BY <1>1, <1>3, <2>1
<1> QED
  BY <1>5, <1>6

\* checkUdpRateLimit: a token is taken where there is one, and none appears.
LEMMA RateEffect ==
  ASSUME TypeOK, Filled, NEW s \in Sessions, checkUdpRateLimit(s)
  PROVE  /\ udpTokens' \in [Sessions -> 0 .. maxTokens] /\ lastRefill' \in [Sessions -> 0 .. now]
         /\ charged' \in [Sessions -> Nat]
         /\ Filled'
<1>1. PICK t \in 0 .. maxTokens, at \in 0 .. now :
        /\ t = Refill(s).tokens /\ at = Refill(s).at
        /\ (charged[s] + t) * TicksPerSec <= maxTokens * TicksPerSec + at * refillRatePerSec
  BY RefillEffect
<1>2. /\ maxTokens \in Nat /\ now \in Nat /\ udpTokens \in [Sessions -> 0 .. maxTokens]
      /\ lastRefill \in [Sessions -> 0 .. now] /\ charged \in [Sessions -> Nat]
  BY UdpAssumption DEF TypeOK
<1>3. /\ udpTokens' = [udpTokens EXCEPT ![s] = IF t > 0 THEN t - 1 ELSE t]
      /\ lastRefill' = [lastRefill EXCEPT ![s] = at]
      /\ charged' = [charged EXCEPT ![s] = IF t > 0 THEN @ + 1 ELSE @]
  BY <1>1 DEF checkUdpRateLimit, Allowed
<1>4. /\ udpTokens' \in [Sessions -> 0 .. maxTokens] /\ lastRefill' \in [Sessions -> 0 .. now]
      /\ charged' \in [Sessions -> Nat]
  BY <1>1, <1>2, <1>3
<1>5. charged'[s] + udpTokens'[s] = charged[s] + t /\ lastRefill'[s] = at
  BY <1>1, <1>2, <1>3
<1>6. \A u \in Sessions : u # s => /\ charged'[u] = charged[u] /\ udpTokens'[u] = udpTokens[u]
                                   /\ lastRefill'[u] = lastRefill[u]
  BY <1>2, <1>3
<1>7. ASSUME NEW u \in Sessions
      PROVE  (charged'[u] + udpTokens'[u]) * TicksPerSec
               <= maxTokens * TicksPerSec + lastRefill'[u] * refillRatePerSec
  <2>1. CASE u = s
    BY <1>1, <1>5, <2>1
  <2>2. CASE u # s
    <3>1. /\ charged'[u] = charged[u] /\ udpTokens'[u] = udpTokens[u]
          /\ lastRefill'[u] = lastRefill[u]
      BY <1>6, <2>2
    <3> QED
      BY <3>1 DEF Filled
  <2> QED
    BY <2>1, <2>2
<1> QED
  BY <1>4, <1>7 DEF Filled


-----------------------------------------------------------------------------
(* Every step preserves the invariant.                                     *)

\* What a packet holds.
LEMMA PacketTypes ==
  ASSUME NEW p \in Packets
  PROVE  /\ p.from \in Endpoints /\ p.nickname \in Nicknames /\ p.token \in Tokens \cup {None}
         /\ p.type # "udp_register" => p.type = "udp"
BY DEF Packets

LEMMA InitInv == Init => IInv
<1> SUFFICES ASSUME Init PROVE IInv
  OBVIOUS
<1> USE UdpAssumption
<1>1. TypeOK
  <2>1. 0 \div TicksPerSec \in Nat
    BY Division
  <2>2. Second \in Nat
    BY <2>1 DEF Init, Second
  <2>3. stray \in BOOLEAN
    BY DEF Init
  <2> QED
    BY <2>2, <2>3 DEF Init, TypeOK
<1>2. Chain /\ Counting /\ Numbered
  BY DEF Init, Chain, Counting, Uncounted, Numbered
<1>3. Issued
  BY DEF Init, Issued
<1>4. Filled
  <2>1. maxTokens * TicksPerSec \in Nat /\ 0 * refillRatePerSec = 0
    OBVIOUS
  <2>2. ASSUME NEW s \in Sessions
        PROVE  charged[s] + udpTokens[s] = maxTokens /\ lastRefill[s] = 0
    BY DEF Init
  <2> QED
    BY <2>1, <2>2 DEF Filled
<1>5. Agreed
  BY DEF Init, Agreed, Registering, Registered, Leads, Entered, Gone
<1> QED
  BY <1>1, <1>2, <1>3, <1>4, <1>5 DEF IInv

LEMMA LoginInv ==
  ASSUME NEW s \in Sessions, NEW n \in Nicknames PROVE IInv /\ Login(s, n) => IInv'
<1> SUFFICES ASSUME IInv, Login(s, n) PROVE IInv'
  OBVIOUS
<1>1. TypeOK /\ Chain /\ Counting /\ Issued /\ Numbered /\ Filled
  BY DEF IInv
<1>2. /\ phase[s] = "pooled" /\ conns < MaxConns
      /\ phase' = [phase EXCEPT ![s] = "open"]
      /\ user' = [user EXCEPT ![s] = n]
      /\ conns' = conns + 1 /\ conn' = [conn EXCEPT ![s] = conns + 1]
      /\ nickname_index' = [nickname_index EXCEPT ![n] = s]
      /\ udp_endpoint' = [udp_endpoint EXCEPT ![s] = None]
      /\ udp_token' = [udp_token EXCEPT ![s] = None]
      /\ issued' = [issued EXCEPT ![s] = None]
  BY DEF Login, cleanup, Unissue
<1>3. UNCHANGED <<trailing, udpTokens, lastRefill, charged, endpoint_map, entered, registered,
                  counts, window_secs, passed, now, pc, pkt, session, prev, packets, holder, stray>>
  BY DEF Login, rateVars, mapVars, limitVars, chainVars
<1>4. TypeOK'
  <2>1. /\ conns' \in 0 .. MaxConns /\ conn' \in [Sessions -> 0 .. conns']
        /\ entered' \in [Endpoints -> 0 .. conns']
        /\ registered' \subseteq (0 .. conns') \X Endpoints
    BY <1>1, <1>2, <1>3, UdpAssumption DEF TypeOK
  <2>2. /\ phase' \in [Sessions -> {"pooled", "open", "erase", "release"}]
        /\ user' \in [Sessions -> Nicknames \cup {None}]
        /\ udp_endpoint' \in [Sessions -> Endpoints \cup {None}]
        /\ udp_token' \in [Sessions -> Tokens \cup {None}]
        /\ issued' \in [Sessions -> (0 .. now) \cup {None}]
        /\ nickname_index' \in [Nicknames -> Sessions \cup {None}]
    BY <1>1, <1>2 DEF TypeOK
  <2> QED
    BY <1>1, <1>3, <2>1, <2>2 DEF TypeOK, Second
<1>5. Chain' /\ Counting' /\ Filled'
  BY <1>1, <1>3 DEF Chain, Counting, Uncounted, Filled
<1>6. Issued'
  BY <1>1, <1>2, <1>3 DEF Issued, TypeOK
<1>7. Numbered'
  BY <1>1, <1>2, UdpAssumption DEF Numbered, TypeOK
<1>8. ~stray' => Agreed'
  <2> SUFFICES ASSUME ~stray PROVE Agreed'
    BY <1>3
  <2>1. Registering /\ Registered /\ Leads /\ Entered /\ Gone
    BY DEF IInv, Agreed
  <2>2. pc \in {"map", "bind", "handler"} => session \in Sessions /\ session # s
    BY <1>1, <1>2, <2>1 DEF Chain, Registering
  <2>3. Registering'
    BY <1>1, <1>2, <1>3, <2>1, <2>2 DEF Registering, TypeOK
  <2>4. Registered'
    BY <1>1, <1>2, <1>3, <2>1 DEF Registered, TypeOK
  <2>5. \A e \in Endpoints : endpoint_map[e] # s
    BY <1>2, <2>1 DEF Gone
  <2>6. Leads'
    BY <1>1, <1>2, <1>3, <2>1, <2>5 DEF Leads, TypeOK
  <2>7. Entered'
    BY <1>1, <1>2, <1>3, <2>1, UdpAssumption DEF Entered, TypeOK
  <2>8. Gone'
    BY <1>1, <1>2, <1>3, <2>1 DEF Gone, TypeOK
  <2> QED
    BY <2>3, <2>4, <2>6, <2>7, <2>8 DEF Agreed
<1> QED
  BY <1>4, <1>5, <1>6, <1>7, <1>8 DEF IInv


LEMMA CloseInv == ASSUME NEW s \in Sessions PROVE IInv /\ Close(s) => IInv'
<1> SUFFICES ASSUME IInv, Close(s) PROVE IInv'
  OBVIOUS
<1>1. TypeOK /\ Chain /\ Counting /\ Issued /\ Numbered /\ Filled
  BY DEF IInv
<1>2. /\ phase[s] = "open"
      /\ phase' = [phase EXCEPT ![s] = IF udp_endpoint[s] = None THEN "release" ELSE "erase"]
      /\ stray' = (stray \/ session = s)
  BY DEF Close
<1>3. UNCHANGED <<user, trailing, conns, conn, udp_endpoint, udp_token, issued, udpTokens,
                  lastRefill, charged, nickname_index, endpoint_map, entered, registered,
                  counts, window_secs, passed, now, pc, pkt, session, prev, packets, holder>>
  BY DEF Close, udpVars, rateVars, mapVars, limitVars, chainVars
<1>4. stray' \in BOOLEAN
  BY <1>2
<1>5. TypeOK'
  BY <1>1, <1>2, <1>3, <1>4 DEF TypeOK, Second
<1>6. Chain' /\ Counting' /\ Filled' /\ Issued'
  BY <1>1, <1>3 DEF Chain, Counting, Uncounted, Filled, Issued
<1>7. Numbered'
  BY <1>1, <1>2, <1>3 DEF Numbered, TypeOK
<1>8. ~stray' => Agreed'
  <2> SUFFICES ASSUME ~stray' PROVE Agreed'
    OBVIOUS
  <2>1. ~stray /\ session # s
    BY <1>2
  <2>2. Registering /\ Registered /\ Leads /\ Entered /\ Gone
    BY <2>1 DEF IInv, Agreed
  <2>3. Registering'
    BY <1>1, <1>2, <1>3, <2>1, <2>2 DEF Registering, TypeOK, Chain
  <2>4. Registered' /\ Leads'
    BY <1>3, <2>2 DEF Registered, Leads
  <2>5. Entered'
    BY <1>1, <1>2, <1>3, <2>2 DEF Entered, TypeOK
  <2>6. Gone'
    <3>1. udp_endpoint[s] = None => \A e \in Endpoints : endpoint_map[e] # s
      BY <2>1, <2>2, UdpAssumption DEF Leads
    <3> QED
      BY <1>1, <1>2, <1>3, <2>2, <3>1 DEF Gone, TypeOK
  <2> QED
    BY <2>3, <2>4, <2>5, <2>6 DEF Agreed
<1> QED
  BY <1>5, <1>6, <1>7, <1>8 DEF IInv

\* EraseOwn takes at most one entry, and one of the session.
LEMMA Erased ==
  ASSUME TypeOK, NEW s \in Sessions, NEW e
  PROVE  /\ EraseOwn(s, e) \in [Endpoints -> Sessions \cup {None}]
         /\ \A x \in Endpoints : EraseOwn(s, e)[x] = IF x = e /\ endpoint_map[x] = s THEN None
                                                     ELSE endpoint_map[x]
BY DEF EraseOwn, TypeOK

LEMMA EraseInv == ASSUME NEW s \in Sessions PROVE IInv /\ EraseEndpoint(s) => IInv'
<1> SUFFICES ASSUME IInv, EraseEndpoint(s) PROVE IInv'
  OBVIOUS
<1>1. TypeOK /\ Chain /\ Counting /\ Issued /\ Numbered /\ Filled
  BY DEF IInv
<1>2. /\ phase[s] = "erase" /\ phase' = [phase EXCEPT ![s] = "release"]
  BY DEF EraseEndpoint
<1>3. PICK x : /\ endpoint_map' = EraseOwn(s, x)
               /\ udp_endpoint[s] # None => x = udp_endpoint[s]
  BY DEF EraseEndpoint
<1>4. UNCHANGED <<user, trailing, conns, conn, udp_endpoint, udp_token, issued, udpTokens,
                  lastRefill, charged, nickname_index, entered, registered,
                  counts, window_secs, passed, now, pc, pkt, session, prev, packets, holder, stray>>
  BY DEF EraseEndpoint, udpVars, rateVars, limitVars, chainVars
<1>5. /\ endpoint_map' \in [Endpoints -> Sessions \cup {None}]
      /\ \A e \in Endpoints : endpoint_map'[e] = IF e = x /\ endpoint_map[e] = s THEN None
                                                 ELSE endpoint_map[e]
  BY <1>1, <1>3, Erased
<1>6. TypeOK'
  BY <1>1, <1>2, <1>4, <1>5 DEF TypeOK, Second
<1>7. Chain' /\ Counting' /\ Filled' /\ Issued'
  BY <1>1, <1>4 DEF Chain, Counting, Uncounted, Filled, Issued
<1>8. Numbered'
  BY <1>1, <1>2, <1>4 DEF Numbered, TypeOK
<1>9. ~stray' => Agreed'
  <2> SUFFICES ASSUME ~stray PROVE Agreed'
    BY <1>4
  <2>1. Registering /\ Registered /\ Leads /\ Entered /\ Gone
    BY DEF IInv, Agreed
  <2>2. pc \in {"map", "bind", "handler"} => session \in Sessions /\ session # s
    BY <1>1, <1>2, <2>1 DEF Chain, Registering
  <2>3. \A e \in Endpoints : \A t \in Sessions :
          t # s => (endpoint_map'[e] = t <=> endpoint_map[e] = t)
    BY <1>5, UdpAssumption
  <2>4. Registering'
    <3>1. pc \in {"map", "bind", "handler"} => phase'[session] = "open"
      BY <1>1, <1>2, <2>1, <2>2 DEF Registering, TypeOK
    <3>2. pc = "bind" => \A e \in Endpoints : endpoint_map'[e] = session <=> e = pkt.from
      BY <2>1, <2>2, <2>3 DEF Registering
    <3> QED
      BY <1>4, <2>1, <3>1, <3>2 DEF Registering
  <2>5. Registered'
    BY <1>4, <2>1 DEF Registered
  <2>6. Leads'
    BY <1>4, <1>5, <2>1 DEF Leads
  <2>7. Entered'
    <3>1. \A t \in Sessions : phase'[t] = "open" => phase[t] = "open" /\ t # s
      BY <1>1, <1>2 DEF TypeOK
    <3> QED
      BY <1>4, <2>1, <2>3, <3>1 DEF Entered
  <2>8. \A e \in Endpoints : endpoint_map'[e] # s
    <3> SUFFICES ASSUME NEW e \in Endpoints, endpoint_map'[e] = s PROVE FALSE
      OBVIOUS
    <3>1. endpoint_map[e] = s /\ e # x
      BY <1>5, UdpAssumption
    <3>2. udp_endpoint[s] = e
      BY <2>1, <2>2, <3>1, UdpAssumption DEF Leads
    <3> QED
      BY <1>3, <3>1, <3>2, UdpAssumption
  <2>9. Gone'
    BY <1>1, <1>2, <1>4, <1>5, <2>1, <2>3, <2>8 DEF Gone, TypeOK
  <2> QED
    BY <2>4, <2>5, <2>6, <2>7, <2>9 DEF Agreed
<1> QED
  BY <1>6, <1>7, <1>8, <1>9 DEF IInv

LEMMA ReleaseInv == ASSUME NEW s \in Sessions PROVE IInv /\ Release(s) => IInv'
<1> SUFFICES ASSUME IInv, Release(s) PROVE IInv'
  OBVIOUS
<1>1. TypeOK /\ Chain /\ Counting /\ Issued /\ Numbered /\ Filled
  BY DEF IInv
<1>2. /\ phase[s] = "release" /\ phase' = [phase EXCEPT ![s] = "pooled"]
      /\ user' = [user EXCEPT ![s] = None]
      /\ trailing' = [trailing EXCEPT ![s] = @ + 1]
      /\ udp_endpoint' = [udp_endpoint EXCEPT ![s] = None]
      /\ udp_token' = [udp_token EXCEPT ![s] = None]
      /\ issued' = [issued EXCEPT ![s] = None]
  BY DEF Release, cleanup, Unissue
<1>3. UNCHANGED <<conns, conn, udpTokens, lastRefill, charged, nickname_index, endpoint_map, entered,
                  registered, counts, window_secs, passed, now, pc, pkt, session, prev, packets,
                  holder, stray>>
  BY DEF Release, rateVars, mapVars, limitVars, chainVars
<1>4. TypeOK'
  <2>1. /\ phase' \in [Sessions -> {"pooled", "open", "erase", "release"}]
        /\ user' \in [Sessions -> Nicknames \cup {None}]
        /\ trailing' \in [Sessions -> Nat]
        /\ udp_endpoint' \in [Sessions -> Endpoints \cup {None}]
        /\ udp_token' \in [Sessions -> Tokens \cup {None}]
        /\ issued' \in [Sessions -> (0 .. now) \cup {None}]
    BY <1>1, <1>2 DEF TypeOK
  <2> QED
    BY <1>1, <1>3, <2>1 DEF TypeOK, Second
<1>5. Chain' /\ Counting' /\ Filled'
  BY <1>1, <1>3 DEF Chain, Counting, Uncounted, Filled
<1>6. Issued' /\ Numbered'
  BY <1>1, <1>2, <1>3 DEF Issued, Numbered, TypeOK
<1>7. ~stray' => Agreed'
  <2> SUFFICES ASSUME ~stray PROVE Agreed'
    BY <1>3
  <2>1. Registering /\ Registered /\ Leads /\ Entered /\ Gone
    BY DEF IInv, Agreed
  <2>2. pc \in {"map", "bind", "handler"} => session \in Sessions /\ session # s
    BY <1>1, <1>2, <2>1 DEF Chain, Registering
  <2>3. Registering'
    BY <1>1, <1>2, <1>3, <2>1, <2>2 DEF Registering, TypeOK
  <2>4. Registered'
    BY <1>1, <1>2, <1>3, <2>1 DEF Registered, TypeOK
  <2>5. \A e \in Endpoints : endpoint_map[e] # s
    BY <1>2, <2>1 DEF Gone
  <2>6. Leads'
    BY <1>1, <1>2, <1>3, <2>1, <2>5 DEF Leads, TypeOK
  <2>7. Entered' /\ Gone'
    BY <1>1, <1>2, <1>3, <2>1 DEF Entered, Gone, TypeOK
  <2> QED
    BY <2>3, <2>4, <2>6, <2>7 DEF Agreed
<1> QED
  BY <1>4, <1>5, <1>6, <1>7 DEF IInv

LEMMA TrailingInv == ASSUME NEW s \in Sessions PROVE IInv /\ TrailingCleanup(s) => IInv'
<1> SUFFICES ASSUME IInv, TrailingCleanup(s) PROVE IInv'
  OBVIOUS
<1>1. TypeOK /\ Chain /\ Counting /\ Issued /\ Numbered /\ Filled
  BY DEF IInv
<1>2. /\ trailing[s] > 0 /\ trailing' = [trailing EXCEPT ![s] = @ - 1]
      /\ user' = [user EXCEPT ![s] = None]
      /\ udp_endpoint' = [udp_endpoint EXCEPT ![s] = None]
      /\ udp_token' = [udp_token EXCEPT ![s] = None]
      /\ stray' = (stray \/ phase[s] # "pooled")
  BY DEF TrailingCleanup, cleanup
<1>3. UNCHANGED <<phase, conns, conn, issued, udpTokens, lastRefill, charged, nickname_index,
                  endpoint_map, entered, registered, counts, window_secs, passed, now,
                  pc, pkt, session, prev, packets, holder>>
  BY DEF TrailingCleanup, rateVars, mapVars, limitVars, chainVars
<1>4. TypeOK'
  <2>1. /\ user' \in [Sessions -> Nicknames \cup {None}]
        /\ trailing' \in [Sessions -> Nat]
        /\ udp_endpoint' \in [Sessions -> Endpoints \cup {None}]
        /\ udp_token' \in [Sessions -> Tokens \cup {None}]
    BY <1>1, <1>2 DEF TypeOK
  <2>2. stray' \in BOOLEAN
    BY <1>2
  <2> QED
    BY <1>1, <1>3, <2>1, <2>2 DEF TypeOK, Second
<1>5. Chain' /\ Counting' /\ Filled' /\ Numbered'
  BY <1>1, <1>3 DEF Chain, Counting, Uncounted, Filled, Numbered
<1>6. Issued'
  BY <1>1, <1>2, <1>3 DEF Issued, TypeOK
<1>7. ~stray' => Agreed'
  <2> SUFFICES ASSUME ~stray' PROVE Agreed'
    OBVIOUS
  <2>1. ~stray /\ phase[s] = "pooled"
    BY <1>2
  <2>2. Registering /\ Registered /\ Leads /\ Entered /\ Gone
    BY <2>1 DEF IInv, Agreed
  <2>3. pc \in {"map", "bind", "handler"} => session \in Sessions /\ session # s
    BY <1>1, <2>1, <2>2 DEF Chain, Registering
  <2>4. Registering'
    BY <1>1, <1>2, <1>3, <2>2, <2>3 DEF Registering, TypeOK
  <2>5. Registered'
    BY <1>1, <1>2, <1>3, <2>2 DEF Registered, TypeOK
  <2>6. \A e \in Endpoints : endpoint_map[e] # s
    BY <2>1, <2>2 DEF Gone
  <2>7. Leads'
    BY <1>1, <1>2, <1>3, <2>2, <2>6 DEF Leads, TypeOK
  <2>8. Entered' /\ Gone'
    BY <1>1, <1>2, <1>3, <2>1, <2>2 DEF Entered, Gone, TypeOK
  <2> QED
    BY <2>4, <2>5, <2>7, <2>8 DEF Agreed
<1> QED
  BY <1>4, <1>5, <1>6, <1>7 DEF IInv

LEMMA TickInv == IInv /\ Tick => IInv'
<1> SUFFICES ASSUME IInv, Tick PROVE IInv'
  OBVIOUS
<1>1. TypeOK /\ Chain /\ Counting /\ Issued /\ Numbered /\ Filled
  BY DEF IInv
<1>2. /\ now < MaxTime /\ now' = now + 1 /\ (passed' = passed \/ passed' = 0)
  BY DEF Tick
<1>3. UNCHANGED <<phase, user, trailing, conns, conn, udp_endpoint, udp_token, issued, udpTokens,
                  lastRefill, charged, nickname_index, endpoint_map, entered, registered,
                  counts, window_secs, pc, pkt, session, prev, packets, holder, stray>>
  BY DEF Tick, sessVars, udpVars, rateVars, mapVars, chainVars
<1>4. now \in Nat /\ now' \in 0 .. MaxTime /\ now' \in Nat /\ now <= now'
  BY <1>1, <1>2, UdpAssumption DEF TypeOK
<1>5. PICK a \in Nat, b \in Nat : a = now \div TicksPerSec /\ b = now' \div TicksPerSec /\ a <= b
  <2>1. TicksPerSec \in Nat \ {0}
    BY UdpAssumption
  <2>2. now \div TicksPerSec \in Nat /\ now' \div TicksPerSec \in Nat
    BY <1>4, <2>1, Division, Zenon
  <2>3. now \div TicksPerSec <= now' \div TicksPerSec
    BY <1>4, <2>1, DivisionMonotone, Zenon
  <2> QED
    BY <2>2, <2>3, Zenon
<1>6. TypeOK'
  <2>1. window_secs' \in [Shards -> 0 .. Second']
    <3>1. window_secs \in [Shards -> 0 .. a]
      BY <1>1, <1>5 DEF TypeOK, Second
    <3>2. Second' = b
      BY <1>5 DEF Second
    <3>3. window_secs \in [Shards -> 0 .. b]
      BY <3>1, <1>5
    <3> QED
      BY <1>3, <3>2, <3>3
  <2>2. /\ issued' \in [Sessions -> (0 .. now') \cup {None}]
        /\ lastRefill' \in [Sessions -> 0 .. now']
        /\ passed' \in 0 .. MaxPackets
    BY <1>1, <1>2, <1>3, <1>4, UdpAssumption DEF TypeOK
  <2> QED
    BY <1>1, <1>3, <1>4, <2>1, <2>2 DEF TypeOK
<1>7. Counting'
  <2>1. passed \in Nat /\ packets \in Nat
    BY <1>1, UdpAssumption DEF TypeOK
  <2>2. Uncounted' = Uncounted /\ Uncounted \in {0, 1}
    BY <1>3 DEF Uncounted
  <2>3. passed' + Uncounted <= packets
    <3>1. passed + Uncounted <= packets
      BY <1>1 DEF Counting
    <3> QED
      BY <1>2, <2>1, <2>2, <3>1
  <2> QED
    BY <1>1, <1>3, <2>2, <2>3 DEF Counting
<1>8. Chain' /\ Issued' /\ Numbered' /\ Filled'
  BY <1>1, <1>3 DEF Chain, Issued, Numbered, Filled
<1>9. ~stray' => Agreed'
  BY <1>3 DEF IInv, Agreed, Registering, Registered, Leads, Entered, Gone
<1> QED
  BY <1>6, <1>7, <1>8, <1>9 DEF IInv


\* Sessions and map agree on what no registration touches.
LEMMA AgreedQuiet ==
  ASSUME Agreed, pc \notin {"map", "bind", "handler"}, pc' \notin {"map", "bind", "handler"},
         UNCHANGED <<phase, conn, udp_endpoint, endpoint_map, entered, registered>>
  PROVE  Agreed'
<1>1. Registering /\ Registered /\ Leads /\ Entered /\ Gone
  BY DEF Agreed
<1>2. Registering'
  BY DEF Registering
<1>3. Registered' /\ Gone'
  BY <1>1 DEF Registered, Gone
<1>4. Leads' /\ Entered'
  BY <1>1 DEF Leads, Entered
<1> QED
  BY <1>2, <1>3, <1>4 DEF Agreed

LEMMA ReceiveInv == ASSUME NEW p \in Packets PROVE IInv /\ Receive(p) => IInv'
<1> SUFFICES ASSUME IInv, Receive(p) PROVE IInv'
  OBVIOUS
<1>1. TypeOK /\ Chain /\ Counting /\ Issued /\ Numbered /\ Filled
  BY DEF IInv
<1>2. /\ pc = "receive" /\ packets < MaxPackets /\ packets' = packets + 1
      /\ \/ pc' = "check" /\ pkt' = p
         \/ pc' = "receive" /\ pkt' = pkt
  BY DEF Receive
<1>3. UNCHANGED <<phase, user, trailing, conns, conn, udp_endpoint, udp_token, issued,
                  nickname_index, endpoint_map, entered, registered,
                  counts, window_secs, passed, now, session, prev, holder, stray>>
  BY DEF Receive, sessVars, udpVars, mapVars, limitVars
<1>4. packets \in Nat /\ packets' \in 0 .. MaxPackets /\ packets' \in Nat
  BY <1>1, <1>2, UdpAssumption DEF TypeOK
<1>5. /\ udpTokens' \in [Sessions -> 0 .. maxTokens] /\ lastRefill' \in [Sessions -> 0 .. now]
      /\ charged' \in [Sessions -> Nat] /\ Filled'
  <2>1. CASE endpoint_map[p.from] = None
    <3>1. UNCHANGED <<udpTokens, lastRefill, charged>>
      BY <2>1 DEF Receive, rateVars
    <3> QED
      BY <1>1, <3>1 DEF TypeOK, Filled
  <2>2. CASE endpoint_map[p.from] # None
    <3>1. checkUdpRateLimit(endpoint_map[p.from])
      BY <2>2 DEF Receive
    <3>2. endpoint_map[p.from] \in Sessions
      BY <1>1, <2>2, PacketTypes DEF TypeOK
    <3> QED
      BY <1>1, <3>1, <3>2, RateEffect
  <2> QED
    BY <2>1, <2>2
<1>6. TypeOK'
  BY <1>1, <1>2, <1>3, <1>4, <1>5 DEF TypeOK, Second
<1>7. Chain'
  BY <1>1, <1>2, <1>3, <1>4 DEF Chain
<1>8. Counting'
  <2>1. passed \in Nat /\ \A k \in Shards : counts[k] \in Nat
    BY <1>1, UdpAssumption DEF TypeOK
  <2>2. passed <= packets /\ \A k \in Shards : counts[k] <= packets
    BY <1>1, <1>2, <2>1 DEF Counting, Uncounted
  <2>3. PICK u \in {0, 1} : u = Uncounted'
    BY DEF Uncounted
  <2>4. passed + u <= packets' /\ \A k \in Shards : counts[k] + u <= packets'
    BY <1>2, <1>4, <2>1, <2>2
  <2> QED
    BY <1>3, <2>3, <2>4 DEF Counting
<1>9. Issued'
  <2>1. ASSUME NEW s \in Sessions, udp_token[s] # None
        PROVE  /\ udp_token[s] <= packets' /\ udp_token[s] < packets'
               /\ holder[udp_token[s]] = <<conn[s], udp_endpoint[s]>>
    <3>1. udp_token[s] <= packets /\ holder[udp_token[s]] = <<conn[s], udp_endpoint[s]>>
      BY <1>1, <1>2, <2>1 DEF Issued
    <3>2. udp_token[s] \in Nat
      <4>1. udp_token[s] \in 1 .. MaxPackets
        BY <1>1, <2>1 DEF TypeOK, Tokens
      <4> QED
        BY <4>1
    <3> QED
      BY <1>2, <1>4, <3>1, <3>2
  <2> QED
    BY <1>3, <2>1 DEF Issued
<1>10. Numbered'
  BY <1>1, <1>3 DEF Numbered
<1>11. ~stray' => Agreed'
  <2>1. ~stray' => Agreed
    BY <1>3 DEF IInv
  <2>2. pc \notin {"map", "bind", "handler"} /\ pc' \notin {"map", "bind", "handler"}
    BY <1>2
  <2> QED
    BY <1>3, <2>1, <2>2, AgreedQuiet
<1> QED
  BY <1>5, <1>6, <1>7, <1>8, <1>9, <1>10, <1>11 DEF IInv

\* The global limiter counts the packet, once.
LEMMA CountEffect ==
  ASSUME TypeOK, Chain, Counting, pc = "check", NEW k \in Shards, Count(k)
  PROVE  /\ counts' \in [Shards -> 0 .. MaxPackets] /\ window_secs' \in [Shards -> 0 .. Second]
         /\ passed' \in 0 .. MaxPackets /\ passed' <= packets
         /\ \A j \in Shards : counts'[j] <= packets
<1>1. /\ counts' = [counts EXCEPT ![k] = IF window_secs[k] = Second THEN @ + 1 ELSE 1]
      /\ window_secs' = [window_secs EXCEPT ![k] = Second]
      /\ passed' = passed + 1 \/ passed' = passed
  BY DEF Count, Counted
<1>2. /\ counts \in [Shards -> 0 .. MaxPackets] /\ window_secs \in [Shards -> 0 .. Second]
      /\ packets \in 0 .. MaxPackets /\ MaxPackets \in Nat /\ passed \in 0 .. MaxPackets
      /\ packets >= 1
  BY UdpAssumption DEF TypeOK, Chain
<1>3. passed + 1 <= packets /\ \A j \in Shards : counts[j] + 1 <= packets
  BY DEF Counting, Uncounted
<1>4. Second \in Nat
  <2>1. now \in Nat /\ TicksPerSec \in Nat \ {0}
    BY UdpAssumption DEF TypeOK
  <2> QED
    BY <2>1, Division DEF Second
<1>5. window_secs' \in [Shards -> 0 .. Second]
  BY <1>1, <1>2, <1>4
<1>6. counts' \in [Shards -> 0 .. MaxPackets] /\ \A j \in Shards : counts'[j] <= packets
  BY <1>1, <1>2, <1>3
<1> QED
  BY <1>1, <1>2, <1>3, <1>5, <1>6

LEMMA OnUdpReceiveInv == ASSUME NEW k \in Shards PROVE IInv /\ OnUdpReceive(k) => IInv'
<1> SUFFICES ASSUME IInv, OnUdpReceive(k) PROVE IInv'
  OBVIOUS
<1>1. TypeOK /\ Chain /\ Counting /\ Issued /\ Numbered /\ Filled
  BY DEF IInv
<1>2. PICK s : s = nickname_index[pkt.nickname]
  OBVIOUS
<1>3. pc = "check" /\ Count(k)
  BY DEF OnUdpReceive
<1>4. UNCHANGED <<phase, user, trailing, conns, conn, nickname_index, endpoint_map, entered,
                  registered, now, holder, stray>>
  BY DEF OnUdpReceive, sessVars, mapVars
<1>5. \/ /\ Done /\ UNCHANGED <<udp_endpoint, udp_token, issued, udpTokens, lastRefill, charged>>
      \/ /\ s # None /\ Done
         /\ \/ /\ udp_token' = [udp_token EXCEPT ![s] = None]
               /\ issued' = [issued EXCEPT ![s] = None]
               /\ UNCHANGED udp_endpoint
            \/ UNCHANGED <<udp_endpoint, udp_token, issued>>
         /\ UNCHANGED <<udpTokens, lastRefill, charged>>
      \/ /\ s # None /\ checkUdpRateLimit(s)
         /\ \/ Done
            \/ session' = s /\ Continue("snapshot")
            \/ session' = s /\ Continue("dispatch")
         /\ UNCHANGED <<udp_endpoint, udp_token, issued>>
  BY <1>2 DEF OnUdpReceive, udpVars, rateVars, Unissue
<1>6. pkt \in Packets /\ packets >= 1
  BY <1>1, <1>3 DEF Chain
<1>7. s \in Sessions \cup {None}
  BY <1>1, <1>2, <1>6, PacketTypes DEF TypeOK
<1>8. /\ counts' \in [Shards -> 0 .. MaxPackets] /\ window_secs' \in [Shards -> 0 .. Second]
      /\ passed' \in 0 .. MaxPackets /\ passed' <= packets
      /\ \A j \in Shards : counts'[j] <= packets
  BY <1>1, <1>3, CountEffect
<1>9. /\ udpTokens' \in [Sessions -> 0 .. maxTokens] /\ lastRefill' \in [Sessions -> 0 .. now]
      /\ charged' \in [Sessions -> Nat] /\ Filled'
  <2>1. CASE UNCHANGED <<udpTokens, lastRefill, charged>>
    BY <1>1, <2>1 DEF TypeOK, Filled
  <2>2. CASE s # None /\ checkUdpRateLimit(s)
    BY <1>1, <1>7, <2>2, RateEffect
  <2> QED
    BY <1>5, <2>1, <2>2
<1>10. /\ packets' = packets
       /\ \/ pc' = "receive" /\ pkt' = NoPacket /\ session' = None /\ prev' = None
          \/ pc' \in {"dispatch", "snapshot"} /\ pkt' = pkt /\ prev' = prev /\ session' = s /\ s # None
  BY <1>5 DEF Done, Continue
<1>11. /\ udp_endpoint' = udp_endpoint
       /\ udp_token' \in [Sessions -> Tokens \cup {None}]
       /\ issued' \in [Sessions -> (0 .. now) \cup {None}]
       /\ \A t \in Sessions : udp_token'[t] = udp_token[t] \/ udp_token'[t] = None
  <2>1. \/ UNCHANGED <<udp_endpoint, udp_token, issued>>
        \/ /\ udp_token' = [udp_token EXCEPT ![s] = None]
           /\ issued' = [issued EXCEPT ![s] = None]
           /\ UNCHANGED udp_endpoint
    BY <1>5
  <2> QED
    BY <1>1, <2>1 DEF TypeOK
<1>12. TypeOK'
  BY <1>1, <1>4, <1>7, <1>8, <1>9, <1>10, <1>11 DEF TypeOK, Second
<1>13. Chain'
  BY <1>6, <1>7, <1>10 DEF Chain
<1>14. Counting'
  <2>1. Uncounted' = 0
    BY <1>10 DEF Uncounted
  <2>2. passed' \in Int /\ \A j \in Shards : counts'[j] \in Int
    BY <1>8
  <2> QED
    BY <1>8, <1>10, <2>1, <2>2 DEF Counting
<1>15. Issued'
  <2> SUFFICES ASSUME NEW t \in Sessions, udp_token'[t] # None
               PROVE  /\ udp_token'[t] <= packets /\ udp_token'[t] < packets
                      /\ holder[udp_token'[t]] = <<conn[t], udp_endpoint[t]>>
    BY <1>4, <1>10, <1>11 DEF Issued
  <2>1. udp_token'[t] = udp_token[t]
    BY <1>11
  <2> QED
    BY <1>1, <1>3, <2>1 DEF Issued
<1>16. Numbered'
  BY <1>1, <1>4 DEF Numbered
<1>17. ~stray' => Agreed'
  <2>1. ~stray' => Agreed
    BY <1>4 DEF IInv
  <2>2. pc \notin {"map", "bind", "handler"} /\ pc' \notin {"map", "bind", "handler"}
    BY <1>3, <1>10
  <2> QED
    BY <1>4, <1>11, <2>1, <2>2, AgreedQuiet
<1> QED
  BY <1>9, <1>12, <1>13, <1>14, <1>15, <1>16, <1>17 DEF IInv


LEMMA DispatchInv == IInv /\ Dispatch => IInv'
<1> SUFFICES ASSUME IInv, Dispatch PROVE IInv'
  OBVIOUS
<1>1. TypeOK /\ Chain /\ Counting /\ Issued /\ Numbered /\ Filled
  BY DEF IInv
<1>2. /\ pc = "dispatch" /\ pc' = "receive" /\ pkt' = NoPacket /\ session' = None /\ prev' = None
      /\ packets' = packets
  BY DEF Dispatch, Done
<1>3. UNCHANGED <<phase, user, trailing, conns, conn, udp_endpoint, udp_token, issued, udpTokens,
                  lastRefill, charged, nickname_index, endpoint_map, entered, registered,
                  counts, window_secs, passed, now, holder, stray>>
  BY DEF Dispatch, sessVars, udpVars, rateVars, mapVars, limitVars
<1>4. TypeOK'
  BY <1>1, <1>2, <1>3 DEF TypeOK, Second
<1>5. Chain' /\ Counting' /\ Numbered' /\ Filled'
  BY <1>1, <1>2, <1>3 DEF Chain, Counting, Uncounted, Numbered, Filled
<1>6. Issued'
  BY <1>1, <1>2, <1>3 DEF Issued
<1>7. ~stray' => Agreed'
  <2>1. ~stray' => Agreed
    BY <1>3 DEF IInv
  <2>2. pc \notin {"map", "bind", "handler"} /\ pc' \notin {"map", "bind", "handler"}
    BY <1>2
  <2> QED
    BY <1>3, <2>1, <2>2, AgreedQuiet
<1> QED
  BY <1>4, <1>5, <1>6, <1>7 DEF IInv

LEMMA SnapshotInv == IInv /\ Snapshot => IInv'
<1> SUFFICES ASSUME IInv, Snapshot PROVE IInv'
  OBVIOUS
<1>1. TypeOK /\ Chain /\ Counting /\ Issued /\ Numbered /\ Filled
  BY DEF IInv
<1>2. /\ pc = "snapshot" /\ prev' = udp_endpoint[session]
      /\ pc' = IF prev' = pkt.from THEN "handler" ELSE "map"
      /\ stray' = (stray \/ phase[session] # "open" \/ user[session] # pkt.nickname)
  BY DEF Snapshot, Astray
<1>3. UNCHANGED <<phase, user, trailing, conns, conn, udp_endpoint, udp_token, issued, udpTokens,
                  lastRefill, charged, nickname_index, endpoint_map, entered, registered,
                  counts, window_secs, passed, now, pkt, session, packets, holder>>
  BY DEF Snapshot, sessVars, udpVars, rateVars, mapVars, limitVars
<1>4. session \in Sessions /\ pkt \in Packets
  BY <1>1, <1>2 DEF Chain
<1>5. pc' \in {"handler", "map"} /\ stray' \in BOOLEAN
  BY <1>2
<1>6. TypeOK'
  BY <1>1, <1>2, <1>3, <1>4, <1>5 DEF TypeOK, Second
<1>7. Chain' /\ Counting' /\ Numbered' /\ Filled'
  BY <1>1, <1>2, <1>3, <1>5 DEF Chain, Counting, Uncounted, Numbered, Filled
<1>8. Issued'
  BY <1>1, <1>2, <1>3, <1>5 DEF Issued
<1>9. ~stray' => Agreed'
  <2> SUFFICES ASSUME ~stray' PROVE Agreed'
    OBVIOUS
  <2>1. ~stray /\ phase[session] = "open"
    BY <1>2
  <2>2. Registering /\ Registered /\ Leads /\ Entered /\ Gone
    BY <2>1 DEF IInv, Agreed
  <2>3. Registering'
    BY <1>2, <1>3, <1>5, <2>1 DEF Registering
  <2>4. Registered' /\ Gone'
    BY <1>3, <2>2 DEF Registered, Gone
  <2>5. Leads' /\ Entered'
    BY <1>2, <1>3, <1>5, <2>2 DEF Leads, Entered
  <2> QED
    BY <2>3, <2>4, <2>5 DEF Agreed
<1> QED
  BY <1>6, <1>7, <1>8, <1>9 DEF IInv

LEMMA UpdateMapInv == IInv /\ UpdateMap => IInv'
<1> SUFFICES ASSUME IInv, UpdateMap PROVE IInv'
  OBVIOUS
<1>1. TypeOK /\ Chain /\ Counting /\ Issued /\ Numbered /\ Filled
  BY DEF IInv
<1>2. /\ pc = "map" /\ pc' = "bind"
      /\ endpoint_map' = [EraseOwn(session, prev) EXCEPT ![pkt.from] = session]
      /\ entered' = [entered EXCEPT ![pkt.from] = conn[session]]
      /\ registered' = registered \cup {<<conn[session], pkt.from>>}
      /\ stray' = (stray \/ phase[session] # "open" \/ user[session] # pkt.nickname)
  BY DEF UpdateMap, Astray, Continue
<1>3. UNCHANGED <<phase, user, trailing, conns, conn, udp_endpoint, udp_token, issued, udpTokens,
                  lastRefill, charged, nickname_index, counts, window_secs, passed, now,
                  pkt, session, prev, packets, holder>>
  BY DEF UpdateMap, Continue, sessVars, udpVars, rateVars, limitVars
<1>4. session \in Sessions /\ pkt \in Packets /\ pkt.from \in Endpoints
  BY <1>1, <1>2, PacketTypes DEF Chain
<1>5. /\ EraseOwn(session, prev) \in [Endpoints -> Sessions \cup {None}]
      /\ \A x \in Endpoints :
           EraseOwn(session, prev)[x] = IF x = prev /\ endpoint_map[x] = session THEN None
                                        ELSE endpoint_map[x]
  BY <1>1, <1>4, Erased
<1>6. /\ endpoint_map' \in [Endpoints -> Sessions \cup {None}]
      /\ endpoint_map'[pkt.from] = session
      /\ \A x \in Endpoints : x # pkt.from =>
           endpoint_map'[x] = IF x = prev /\ endpoint_map[x] = session THEN None
                              ELSE endpoint_map[x]
  BY <1>2, <1>4, <1>5
<1>7. stray' \in BOOLEAN
  BY <1>2
<1>8. TypeOK'
  <2>1. /\ entered' \in [Endpoints -> 0 .. conns]
        /\ registered' \subseteq (0 .. conns) \X Endpoints
    BY <1>1, <1>2, <1>4 DEF TypeOK
  <2> QED
    BY <1>1, <1>2, <1>3, <1>6, <1>7, <2>1 DEF TypeOK, Second
<1>9. Chain' /\ Counting' /\ Numbered' /\ Filled'
  BY <1>1, <1>2, <1>3 DEF Chain, Counting, Uncounted, Numbered, Filled
<1>10. Issued'
  BY <1>1, <1>2, <1>3 DEF Issued
<1>11. ~stray' => Agreed'
  <2> SUFFICES ASSUME ~stray' PROVE Agreed'
    OBVIOUS
  <2>1. ~stray /\ phase[session] = "open"
    BY <1>2
  <2>2. Registering /\ Registered /\ Leads /\ Entered /\ Gone
    BY <2>1 DEF IInv, Agreed
  <2>3. prev = udp_endpoint[session]
    BY <1>2, <2>2 DEF Registering
  <2>4. \A e \in Endpoints : endpoint_map[e] # None => udp_endpoint[endpoint_map[e]] = e
    BY <1>2, <2>2 DEF Leads
  <2>5. \A e \in Endpoints : e # pkt.from => endpoint_map'[e] # session
    <3> SUFFICES ASSUME NEW e \in Endpoints, e # pkt.from, endpoint_map'[e] = session PROVE FALSE
      OBVIOUS
    <3>1. endpoint_map[e] = session /\ e # prev
      BY <1>4, <1>6, UdpAssumption
    <3> QED
      BY <1>4, <2>3, <2>4, <3>1, UdpAssumption
  <2>6. Registering'
    <3>1. \A e \in Endpoints : endpoint_map'[e] = session <=> e = pkt.from
      BY <1>6, <2>5
    <3>2. <<conn[session], pkt.from>> \in registered'
      BY <1>2
    <3> QED
      BY <1>2, <1>3, <2>1, <3>1, <3>2 DEF Registering
  <2>7. Registered'
    BY <1>2, <1>3, <2>2 DEF Registered
  <2>8. Leads'
    <3> SUFFICES ASSUME NEW e \in Endpoints, endpoint_map'[e] # None
                 PROVE  \/ udp_endpoint[endpoint_map'[e]] = e
                        \/ session = endpoint_map'[e] /\ pkt.from = e
      BY <1>2, <1>3 DEF Leads
    <3>1. CASE e = pkt.from
      BY <1>6, <3>1
    <3>2. CASE e # pkt.from
      BY <1>6, <2>4, <3>2
    <3> QED
      BY <3>1, <3>2
  <2>9. Entered'
    <3> SUFFICES ASSUME NEW s \in Sessions, NEW e \in Endpoints, phase[s] = "open",
                        udp_endpoint[s] = e, entered'[e] = conn[s], s # session
                 PROVE  endpoint_map'[e] = s
      BY <1>2, <1>3 DEF Entered
    <3>1. e # pkt.from
      <4> SUFFICES ASSUME e = pkt.from PROVE FALSE
        OBVIOUS
      <4>1. conn[s] = conn[session]
        BY <1>1, <1>2, <1>4 DEF TypeOK
      <4>2. conn[s] >= 1
        BY <1>1 DEF Numbered
      <4> QED
        BY <1>1, <1>4, <4>1, <4>2 DEF Numbered
    <3>2. entered[e] = conn[s]
      BY <1>1, <1>2, <3>1 DEF TypeOK
    <3>3. endpoint_map[e] = s
      BY <1>2, <2>2, <3>2 DEF Entered
    <3> QED
      BY <1>6, <3>1, <3>3
  <2>10. Gone'
    <3>1. \A s \in Sessions : phase[s] \in {"release", "pooled"} => s # session
      BY <2>1
    <3>2. \A s \in Sessions : \A e \in Endpoints :
            s # session /\ endpoint_map'[e] = s => endpoint_map[e] = s
      BY <1>6, UdpAssumption
    <3> QED
      BY <1>3, <2>2, <3>1, <3>2 DEF Gone
  <2> QED
    BY <2>6, <2>7, <2>8, <2>9, <2>10 DEF Agreed
<1> QED
  BY <1>8, <1>9, <1>10, <1>11 DEF IInv

LEMMA BindInv == IInv /\ Bind => IInv'
<1> SUFFICES ASSUME IInv, Bind PROVE IInv'
  OBVIOUS
<1>1. TypeOK /\ Chain /\ Counting /\ Issued /\ Numbered /\ Filled
  BY DEF IInv
<1>2. /\ pc = "bind" /\ pc' = "handler"
      /\ udp_endpoint' = [udp_endpoint EXCEPT ![session] = pkt.from]
      /\ stray' = (stray \/ phase[session] # "open" \/ user[session] # pkt.nickname)
  BY DEF Bind, Astray, Continue
<1>3. UNCHANGED <<phase, user, trailing, conns, conn, udp_token, issued, udpTokens,
                  lastRefill, charged, nickname_index, endpoint_map, entered, registered,
                  counts, window_secs, passed, now, pkt, session, prev, packets, holder>>
  BY DEF Bind, Continue, sessVars, rateVars, mapVars, limitVars
<1>4. session \in Sessions /\ pkt \in Packets /\ pkt.from \in Endpoints
  BY <1>1, <1>2, PacketTypes DEF Chain
<1>5. /\ udp_endpoint' \in [Sessions -> Endpoints \cup {None}] /\ udp_endpoint'[session] = pkt.from
      /\ \A s \in Sessions : s # session => udp_endpoint'[s] = udp_endpoint[s]
  BY <1>1, <1>2, <1>4 DEF TypeOK
<1>6. stray' \in BOOLEAN
  BY <1>2
<1>7. TypeOK'
  BY <1>1, <1>2, <1>3, <1>5, <1>6 DEF TypeOK, Second
<1>8. Chain' /\ Counting' /\ Numbered' /\ Filled'
  BY <1>1, <1>2, <1>3 DEF Chain, Counting, Uncounted, Numbered, Filled
<1>9. Issued'
  BY <1>1, <1>2, <1>3, <1>5 DEF Issued
<1>10. ~stray' => Agreed'
  <2> SUFFICES ASSUME ~stray' PROVE Agreed'
    OBVIOUS
  <2>1. ~stray /\ phase[session] = "open"
    BY <1>2
  <2>2. Registering /\ Registered /\ Leads /\ Entered /\ Gone
    BY <2>1 DEF IInv, Agreed
  <2>3. /\ \A e \in Endpoints : endpoint_map[e] = session <=> e = pkt.from
        /\ <<conn[session], pkt.from>> \in registered
    BY <1>2, <2>2 DEF Registering
  <2>4. Registering'
    BY <1>2, <1>3, <1>5, <2>1 DEF Registering
  <2>5. Registered'
    BY <1>3, <1>5, <2>2, <2>3 DEF Registered
  <2>6. Leads'
    <3> SUFFICES ASSUME NEW e \in Endpoints, endpoint_map[e] # None
                 PROVE  udp_endpoint'[endpoint_map[e]] = e
      BY <1>3 DEF Leads
    <3>1. endpoint_map[e] \in Sessions
      BY <1>1 DEF TypeOK
    <3>2. CASE endpoint_map[e] = session
      BY <1>5, <2>3, <3>2
    <3>3. CASE endpoint_map[e] # session
      BY <1>5, <2>2, <3>1, <3>3 DEF Leads
    <3> QED
      BY <3>2, <3>3
  <2>7. Entered'
    <3> SUFFICES ASSUME NEW s \in Sessions, NEW e \in Endpoints, phase[s] = "open",
                        udp_endpoint'[s] = e, entered[e] = conn[s]
                 PROVE  endpoint_map[e] = s
      BY <1>3 DEF Entered
    <3>1. CASE s = session
      BY <1>5, <2>3, <3>1
    <3>2. CASE s # session
      BY <1>5, <2>2, <3>2 DEF Entered
    <3> QED
      BY <3>1, <3>2
  <2>8. Gone'
    BY <1>3, <1>5, <2>1, <2>2 DEF Gone
  <2> QED
    BY <2>4, <2>5, <2>6, <2>7, <2>8 DEF Agreed
<1> QED
  BY <1>7, <1>8, <1>9, <1>10 DEF IInv

LEMMA RegisterInv == IInv /\ Udpregister_handler => IInv'
<1> SUFFICES ASSUME IInv, Udpregister_handler PROVE IInv'
  OBVIOUS
<1>1. TypeOK /\ Chain /\ Counting /\ Issued /\ Numbered /\ Filled
  BY DEF IInv
<1>2. /\ pc = "handler" /\ pc' = "receive" /\ pkt' = NoPacket /\ session' = None /\ prev' = None
      /\ packets' = packets
      /\ udp_endpoint' = [udp_endpoint EXCEPT ![session] = pkt.from]
      /\ udp_token' = [udp_token EXCEPT ![session] = packets]
      /\ issued' = [issued EXCEPT ![session] = now]
      /\ holder' = [holder EXCEPT ![packets] = <<conn[session], pkt.from>>]
      /\ stray' = (stray \/ phase[session] # "open" \/ user[session] # pkt.nickname)
  BY DEF Udpregister_handler, Astray, Done
<1>3. UNCHANGED <<phase, user, trailing, conns, conn, udpTokens, lastRefill, charged,
                  nickname_index, endpoint_map, entered, registered,
                  counts, window_secs, passed, now>>
  BY DEF Udpregister_handler, sessVars, rateVars, mapVars, limitVars
<1>4. session \in Sessions /\ pkt \in Packets /\ pkt.from \in Endpoints /\ packets >= 1
  BY <1>1, <1>2, PacketTypes DEF Chain
<1>5. packets \in Tokens /\ packets \in Nat /\ now \in 0 .. now /\ conn[session] \in 0 .. MaxConns
  BY <1>1, <1>4, UdpAssumption DEF TypeOK, Tokens
<1>6. /\ udp_endpoint' \in [Sessions -> Endpoints \cup {None}]
      /\ udp_token' \in [Sessions -> Tokens \cup {None}]
      /\ issued' \in [Sessions -> (0 .. now) \cup {None}]
      /\ udp_endpoint'[session] = pkt.from /\ udp_token'[session] = packets
      /\ \A s \in Sessions : s # session => /\ udp_endpoint'[s] = udp_endpoint[s]
                                            /\ udp_token'[s] = udp_token[s]
  BY <1>1, <1>2, <1>4, <1>5 DEF TypeOK
<1>7. /\ holder' \in [Tokens -> {None} \cup ((0 .. MaxConns) \X Endpoints)]
      /\ holder'[packets] = <<conn[session], pkt.from>>
      /\ \A t \in Tokens : t # packets => holder'[t] = holder[t]
  BY <1>1, <1>2, <1>4, <1>5 DEF TypeOK
<1>8. stray' \in BOOLEAN
  BY <1>2
<1>9. TypeOK'
  BY <1>1, <1>2, <1>3, <1>6, <1>7, <1>8 DEF TypeOK, Second
<1>10. Chain' /\ Counting' /\ Numbered' /\ Filled'
  BY <1>1, <1>2, <1>3 DEF Chain, Counting, Uncounted, Numbered, Filled
<1>11. Issued'
  <2> SUFFICES ASSUME NEW s \in Sessions, udp_token'[s] # None
               PROVE  /\ udp_token'[s] <= packets
                      /\ holder'[udp_token'[s]] = <<conn[s], udp_endpoint'[s]>>
    BY <1>2, <1>3 DEF Issued
  <2>1. CASE s = session
    BY <1>5, <1>6, <1>7, <2>1
  <2>2. CASE s # session
    <3>1. udp_token'[s] = udp_token[s] /\ udp_endpoint'[s] = udp_endpoint[s]
      BY <1>6, <2>2
    <3>2. /\ udp_token[s] \in Tokens /\ udp_token[s] < packets
          /\ holder[udp_token[s]] = <<conn[s], udp_endpoint[s]>>
      BY <1>1, <1>2, <2>2, <3>1 DEF Issued, TypeOK
    <3>3. udp_token[s] # packets /\ udp_token[s] <= packets
      BY <1>5, <3>2, UdpAssumption DEF Tokens
    <3> QED
      BY <1>7, <3>1, <3>2, <3>3
  <2> QED
    BY <2>1, <2>2
<1>12. ~stray' => Agreed'
  <2> SUFFICES ASSUME ~stray' PROVE Agreed'
    OBVIOUS
  <2>1. ~stray
    BY <1>2
  <2>2. Registering /\ Registered /\ Leads /\ Entered /\ Gone
    BY <2>1 DEF IInv, Agreed
  <2>3. udp_endpoint' = udp_endpoint
    <3>1. udp_endpoint[session] = pkt.from
      BY <1>2, <2>2 DEF Registering
    <3> QED
      BY <1>1, <1>2, <1>4, <3>1 DEF TypeOK
  <2>4. Registering'
    BY <1>2 DEF Registering
  <2>5. Registered' /\ Gone'
    BY <1>3, <2>2, <2>3 DEF Registered, Gone
  <2>6. Leads' /\ Entered'
    BY <1>2, <1>3, <2>2, <2>3 DEF Leads, Entered
  <2> QED
    BY <2>4, <2>5, <2>6 DEF Agreed
<1> QED
  BY <1>9, <1>10, <1>11, <1>12 DEF IInv


LEMMA StutterInv == IInv /\ UNCHANGED vars => IInv'
<1> SUFFICES ASSUME IInv, UNCHANGED vars PROVE IInv'
  OBVIOUS
<1>1. UNCHANGED <<phase, user, trailing, conns, conn, udp_endpoint, udp_token, issued, udpTokens,
                  lastRefill, charged, nickname_index, endpoint_map, entered, registered,
                  counts, window_secs, passed, now, pc, pkt, session, prev, packets, holder, stray>>
  BY DEF vars, sessVars, udpVars, rateVars, mapVars, limitVars, chainVars
<1>2. TypeOK'
  BY <1>1 DEF IInv, TypeOK, Second
<1>3. Chain' /\ Counting' /\ Issued' /\ Numbered' /\ Filled'
  BY <1>1 DEF IInv, Chain, Counting, Uncounted, Issued, Numbered, Filled
<1>4. ~stray' => Agreed'
  BY <1>1 DEF IInv, Agreed, Registering, Registered, Leads, Entered, Gone
<1> QED
  BY <1>2, <1>3, <1>4 DEF IInv

LEMMA NextInv == IInv /\ [Next]_vars => IInv'
<1> SUFFICES ASSUME IInv, [Next]_vars PROVE IInv'
  OBVIOUS
<1>1. ASSUME NEW s \in Sessions, NEW n \in Nicknames, Login(s, n) PROVE IInv'
  BY <1>1, LoginInv
<1>2. ASSUME NEW s \in Sessions, Close(s) \/ EraseEndpoint(s) \/ Release(s) \/ TrailingCleanup(s)
      PROVE  IInv'
  BY <1>2, CloseInv, EraseInv, ReleaseInv, TrailingInv
<1>3. ASSUME NEW p \in Packets, Receive(p) PROVE IInv'
  BY <1>3, ReceiveInv
<1>4. ASSUME NEW k \in Shards, OnUdpReceive(k) PROVE IInv'
  BY <1>4, OnUdpReceiveInv
<1> QED
  BY <1>1, <1>2, <1>3, <1>4, TickInv, DispatchInv, SnapshotInv, UpdateMapInv, BindInv, RegisterInv,
     StutterInv DEF Next

-----------------------------------------------------------------------------
(* The theorems.                                                           *)

\* IInv holds of every state the UDP side can be in.
THEOREM UdpInductive == Spec => []IInv
<1>1. Init => IInv
  BY InitInv
<1>2. IInv /\ [Next]_vars => IInv'
  BY NextInv
<1> QED
  BY <1>1, <1>2, PTL DEF Spec

\* Every variable keeps its type: on_udp_receive's session is one, a bucket stays
\* between empty and full, and no shard is ahead of the clock.
THEOREM UdpTypeOK == Spec => []TypeOK
<1>1. IInv => TypeOK
  BY DEF IInv
<1> QED
  BY <1>1, UdpInductive, PTL

\* Every entry of the endpoint map leads to a session bound to the endpoint, and
\* an open session that was entered keeps its entry until it changes its endpoint
\* or another one is entered, through every registration, change of endpoint and
\* close, the gap between the map's lock and set_udp_endpoint included.
THEOREM UdpEndpointsAgree == Spec => []EndpointsAgree
<1>1. IInv => EndpointsAgree
  <2> SUFFICES ASSUME IInv, ~stray, NEW e \in Endpoints
               PROVE  /\ endpoint_map[e] # None =>
                           \/ udp_endpoint[endpoint_map[e]] = e
                           \/ pc = "bind" /\ session = endpoint_map[e] /\ pkt.from = e
                      /\ \A s \in Sessions :
                           phase[s] = "open" /\ udp_endpoint[s] = e /\ entered[e] = conn[s]
                             /\ pc # "bind" => endpoint_map[e] = s
    BY DEF EndpointsAgree
  <2> QED
    BY DEF IInv, Agreed, Leads, Entered
<1> QED
  BY <1>1, UdpInductive, PTL

\* A broadcast reaches only endpoints that the connections of the moment
\* registered themselves.
THEOREM UdpAudience == Spec => []Audience
<1>1. IInv => Audience
  BY DEF IInv, Agreed, Registered, Audience, Recipients
<1> QED
  BY <1>1, UdpInductive, PTL

LEMMA BucketBounded == IInv => BucketLimit
<1> SUFFICES ASSUME IInv, NEW s \in Sessions
             PROVE  charged[s] * TicksPerSec <= maxTokens * TicksPerSec + now * refillRatePerSec
  BY DEF BucketLimit
<1>1. PICK c \in Nat, t \in Nat, l \in Nat, n \in Nat :
        c = charged[s] /\ t = udpTokens[s] /\ l = lastRefill[s] /\ n = now /\ l <= n
  BY UdpAssumption DEF IInv, TypeOK
<1>2. maxTokens \in Nat /\ refillRatePerSec \in Nat /\ TicksPerSec \in Nat
  BY UdpAssumption
<1>3. (c + t) * TicksPerSec <= maxTokens * TicksPerSec + l * refillRatePerSec
  BY <1>1 DEF IInv, Filled
<1>4. c * TicksPerSec <= (c + t) * TicksPerSec
  <2>1. c + t \in Nat /\ c <= c + t
    OBVIOUS
  <2> QED
    BY <1>2, <2>1, TimesMonotone
<1>5. l * refillRatePerSec <= n * refillRatePerSec
  BY <1>1, <1>2, TimesMonotone
<1>6. PICK u \in Nat, v \in Nat, m \in Nat, x \in Nat, y \in Nat :
        /\ u = c * TicksPerSec /\ v = (c + t) * TicksPerSec /\ m = maxTokens * TicksPerSec
        /\ x = l * refillRatePerSec /\ y = n * refillRatePerSec
  <2>1. /\ c * TicksPerSec \in Nat /\ (c + t) * TicksPerSec \in Nat
        /\ maxTokens * TicksPerSec \in Nat
        /\ l * refillRatePerSec \in Nat /\ n * refillRatePerSec \in Nat
    BY <1>2
  <2> QED
    BY <2>1
<1>7. u <= m + y
  <2>1. u <= v /\ v <= m + x /\ x <= y
    BY <1>3, <1>4, <1>5, <1>6
  <2> QED
    BY <2>1
<1> QED
  BY <1>1, <1>6, <1>7

\* A session's bucket never yields more than its size and the refill rate
\* allow, however calls and ticks fall, for any rate and any resolution of time.
THEOREM UdpBucketLimit == Spec => []BucketLimit
BY BucketBounded, UdpInductive, PTL

\* Only on_udp_receive takes a packet from the checks to a handler, and for all
\* but udp_register it has seen the token and the endpoint.
LEMMA CheckedStep ==
  IInv /\ [Next]_vars /\ pc = "check" /\ pc' = "dispatch" =>
    holder[pkt.token] = <<conn[session'], pkt.from>>
<1> SUFFICES ASSUME IInv, Next, pc = "check", pc' = "dispatch"
             PROVE  holder[pkt.token] = <<conn[session'], pkt.from>>
  BY DEF vars, chainVars
<1>1. \E k \in Shards : OnUdpReceive(k)
  <2>1. ASSUME NEW s \in Sessions, NEW n \in Nicknames, Login(s, n) PROVE FALSE
    BY <2>1 DEF Login, chainVars
  <2>2. ASSUME NEW s \in Sessions, Close(s) \/ EraseEndpoint(s) \/ Release(s) \/ TrailingCleanup(s)
        PROVE  FALSE
    BY <2>2 DEF Close, EraseEndpoint, Release, TrailingCleanup, chainVars
  <2>3. ASSUME Tick PROVE FALSE
    BY <2>3 DEF Tick, chainVars
  <2>4. ASSUME NEW p \in Packets, Receive(p) PROVE FALSE
    BY <2>4 DEF Receive
  <2>5. ASSUME Dispatch \/ Snapshot \/ UpdateMap \/ Bind \/ Udpregister_handler PROVE FALSE
    BY <2>5 DEF Dispatch, Snapshot, UpdateMap, Bind, Udpregister_handler
  <2> QED
    BY <2>1, <2>2, <2>3, <2>4, <2>5 DEF Next
<1>2. PICK k \in Shards : OnUdpReceive(k)
  BY <1>1
<1>3. PICK s : s = nickname_index[pkt.nickname]
  OBVIOUS
<1>4. /\ s # None /\ session' = s /\ pkt.token # None /\ udp_token[s] = pkt.token
      /\ udp_endpoint[s] = pkt.from
  BY <1>2, <1>3 DEF OnUdpReceive, Done, Continue, TokenMatches, BoundHere
<1>5. s \in Sessions
  <2>1. pkt.nickname \in Nicknames
    BY PacketTypes DEF IInv, Chain
  <2> QED
    BY <1>3, <1>4, <2>1 DEF IInv, TypeOK
<1>6. holder[udp_token[s]] = <<conn[s], udp_endpoint[s]>>
  BY <1>4, <1>5 DEF IInv, Issued
<1> QED
  BY <1>4, <1>6

\* A packet other than udp_register reaches a handler only with a token that
\* was issued to this connection at this endpoint, whatever was registered,
\* closed and recycled meanwhile.
THEOREM UdpDoubleChecked == Spec => DoubleChecked
<1>1. IInv /\ [Next]_vars =>
        [pc = "check" /\ pc' = "dispatch" => holder[pkt.token] = <<conn[session'], pkt.from>>]_vars
  BY CheckedStep
<1> QED
  BY <1>1, UdpInductive, PTL DEF Spec, DoubleChecked

-----------------------------------------------------------------------------
(* Sums over the shards.  An induction over a set is an induction over the *)
(* set of the numbers, or of the subsets, that have the property.          *)

\* Induction on numbers, for a set of them.
LEMMA NumbersInduction ==
  ASSUME NEW Q, 0 \in Q, \A n \in Nat : n \in Q => n + 1 \in Q
  PROVE  \A n \in Nat : n \in Q
<1> SUFFICES ASSUME NEW m \in Nat, m \notin Q PROVE FALSE
  OBVIOUS
<1> DEFINE bad == {n \in Nat : n \notin Q}
<1>1. bad \subseteq Nat /\ bad # {}
  OBVIOUS
<1> HIDE DEF bad
<1>2. PICK x \in bad : \A y \in bad : ~(<<y, x>> \in OpToRel(<, Nat))
  BY <1>1, NatLessThanWellFounded, WFMin
<1>3. \A y \in bad : ~(y < x)
  <2> TAKE y \in bad
  <2>1. <<y, x>> \in Nat \X Nat
    BY <1>1
  <2>2. ~(<<y, x>> \in {ss \in Nat \X Nat : ss[1] < ss[2]})
    BY <1>2 DEF OpToRel
  <2> QED
    BY <2>1, <2>2
<1>4. x \in Nat /\ x \notin Q
  BY DEF bad
<1>5. x # 0
  BY <1>4
<1>6. x - 1 \in Nat /\ x - 1 < x /\ (x - 1) + 1 = x
  BY <1>4, <1>5
<1>7. x - 1 \in Q
  BY <1>3, <1>6 DEF bad
<1> QED
  BY <1>4, <1>6, <1>7

\* The element a sum over s takes first.
First(s) == CHOOSE x \in s : TRUE

\* g adds up f over the subsets in D, one element at a time.
Adds(f, D, g) == g = [s \in D |-> IF s = {} THEN 0 ELSE f[First(s)] + g[s \ {First(s)}]]

Sums(f, S) == CHOOSE g : Adds(f, SUBSET S, g)

\* The total that sharded_udp_rate_limit compares is such a sum.
LEMMA SumIsTotal ==
  ASSUME NEW f, NEW S
  PROVE  MapThenSumSet(LAMBDA i : f[i], S) = Sums(f, S)[S]
BY DEF MapThenSumSet, MapThenFoldSet, Sums, Adds, First

\* The first element is one.
LEMMA FirstIn == ASSUME NEW s, s # {} PROVE First(s) \in s
BY Zenon DEF First

\* The subsets of at most n elements.
Level(S, n) == {s \in SUBSET S : Cardinality(s) <= n}

\* What is left of a subset without its first element is smaller.
LEMMA Smaller ==
  ASSUME NEW S, IsFiniteSet(S), NEW s \in SUBSET S, s # {}
  PROVE  /\ s \ {First(s)} \in SUBSET S
         /\ Cardinality(s) \in Nat \ {0} /\ Cardinality(s \ {First(s)}) = Cardinality(s) - 1
<1>1. IsFiniteSet(s)
  BY FS_Subset
<1>2. First(s) \in s
  BY FirstIn
<1>3. Cardinality(s) \in Nat /\ Cardinality(s) # 0
  BY <1>1, FS_CardinalityType, FS_EmptySet
<1>4. Cardinality(s \ {First(s)}) = Cardinality(s) - 1
  BY <1>1, <1>2, FS_RemoveElement
<1> QED
  BY <1>3, <1>4

\* There is a function that adds up over all subsets of a finite set.
LEMMA SumsExist ==
  ASSUME NEW S, IsFiniteSet(S), NEW f
  PROVE  \E g : Adds(f, SUBSET S, g)
<1> DEFINE Q == {n \in Nat : \E g : Adds(f, Level(S, n), g)}
<1>1. \A s \in SUBSET S : IsFiniteSet(s) /\ Cardinality(s) \in Nat
  BY FS_Subset, FS_CardinalityType
<1>2. 0 \in Q
  <2> DEFINE g == [s \in Level(S, 0) |-> 0]
  <2>1. \A s \in Level(S, 0) : s = {}
    BY <1>1, FS_EmptySet DEF Level
  <2>2. Adds(f, Level(S, 0), g)
    BY <2>1 DEF Adds
  <2> QED
    BY <2>2
<1>3. \A n \in Nat : n \in Q => n + 1 \in Q
  <2> SUFFICES ASSUME NEW n \in Nat, n \in Q PROVE n + 1 \in Q
    OBVIOUS
  <2>1. PICK g : Adds(f, Level(S, n), g)
    OBVIOUS
  <2> DEFINE h == [s \in Level(S, n + 1) |-> IF s = {} THEN 0 ELSE f[First(s)] + g[s \ {First(s)}]]
  <2>2. \A s \in Level(S, n) : s \in Level(S, n + 1)
    BY <1>1 DEF Level
  <2>3. \A s \in Level(S, n) : g[s] = IF s = {} THEN 0 ELSE f[First(s)] + g[s \ {First(s)}]
    BY <2>1 DEF Adds
  <2>4. \A s \in Level(S, n) : h[s] = g[s]
    BY <2>2, <2>3
  <2>5. \A s \in Level(S, n + 1) : s # {} => s \ {First(s)} \in Level(S, n)
    <3> SUFFICES ASSUME NEW s \in Level(S, n + 1), s # {} PROVE s \ {First(s)} \in Level(S, n)
      OBVIOUS
    <3>1. s \in SUBSET S /\ Cardinality(s) <= n + 1
      BY DEF Level
    <3>2. /\ s \ {First(s)} \in SUBSET S
          /\ Cardinality(s) \in Nat \ {0} /\ Cardinality(s \ {First(s)}) = Cardinality(s) - 1
      BY <3>1, Smaller
    <3>3. Cardinality(s \ {First(s)}) <= n
      BY <3>1, <3>2
    <3> QED
      BY <3>2, <3>3 DEF Level
  <2>6. \A s \in Level(S, n + 1) :
          s # {} => f[First(s)] + g[s \ {First(s)}] = f[First(s)] + h[s \ {First(s)}]
    BY <2>4, <2>5, Zenon
  <2>7. Adds(f, Level(S, n + 1), h)
    <3>1. \A s \in Level(S, n + 1) :
            (IF s = {} THEN 0 ELSE f[First(s)] + g[s \ {First(s)}])
              = IF s = {} THEN 0 ELSE f[First(s)] + h[s \ {First(s)}]
      BY <2>6, Zenon
    <3> DEFINE k == [s \in Level(S, n + 1) |->
                       IF s = {} THEN 0 ELSE f[First(s)] + h[s \ {First(s)}]]
    <3>2. \A s \in Level(S, n + 1) : h[s] = k[s]
      BY <3>1
    <3>3. h = k
      BY <3>2
    <3> QED
      BY <3>3 DEF Adds
  <2> QED
    BY <2>7
<1>4. \A n \in Nat : n \in Q
  BY <1>2, <1>3, NumbersInduction
<1>5. SUBSET S = Level(S, Cardinality(S))
  BY FS_Subset, FS_CardinalityType DEF Level
<1>6. Cardinality(S) \in Nat
  BY FS_CardinalityType
<1> QED
  BY <1>4, <1>5, <1>6

\* A sum is its first term and the sum of the others.
LEMMA SumsUnfold ==
  ASSUME NEW S, IsFiniteSet(S), NEW f
  PROVE  \A s \in SUBSET S :
           Sums(f, S)[s] = IF s = {} THEN 0 ELSE f[First(s)] + Sums(f, S)[s \ {First(s)}]
<1>1. Adds(f, SUBSET S, Sums(f, S))
  BY SumsExist, Zenon DEF Sums
<1> QED
  BY <1>1, Zenon DEF Adds

\* Induction on the subsets of a finite set, along the order sums take.
LEMMA SubsetInduction ==
  ASSUME NEW S, IsFiniteSet(S), NEW P, {} \in P,
         \A s \in SUBSET S : s # {} /\ s \ {First(s)} \in P => s \in P
  PROVE  \A s \in SUBSET S : s \in P
<1> DEFINE Q == {n \in Nat : \A s \in SUBSET S : Cardinality(s) <= n => s \in P}
<1>1. \A s \in SUBSET S : IsFiniteSet(s) /\ Cardinality(s) \in Nat
  BY FS_Subset, FS_CardinalityType
<1>2. 0 \in Q
  <2>1. \A s \in SUBSET S : Cardinality(s) <= 0 => s = {}
    BY <1>1, FS_EmptySet
  <2> QED
    BY <2>1
<1>3. \A n \in Nat : n \in Q => n + 1 \in Q
  <2> SUFFICES ASSUME NEW n \in Nat, n \in Q, NEW s \in SUBSET S, Cardinality(s) <= n + 1
               PROVE  s \in P
    OBVIOUS
  <2>1. CASE s = {}
    BY <2>1
  <2>2. CASE s # {}
    <3>1. /\ s \ {First(s)} \in SUBSET S
          /\ Cardinality(s) \in Nat \ {0} /\ Cardinality(s \ {First(s)}) = Cardinality(s) - 1
      BY <2>2, Smaller
    <3>2. Cardinality(s \ {First(s)}) <= n
      BY <3>1
    <3>3. s \ {First(s)} \in P
      BY <3>1, <3>2
    <3> QED
      BY <2>2, <3>3
  <2> QED
    BY <2>1, <2>2
<1>4. \A n \in Nat : n \in Q
  BY <1>2, <1>3, NumbersInduction
<1> QED
  BY <1>1, <1>4

\* A sum of natural numbers is one.
LEMMA SumsNat ==
  ASSUME NEW S, IsFiniteSet(S), NEW f \in [S -> Nat]
  PROVE  \A s \in SUBSET S : Sums(f, S)[s] \in Nat
<1> DEFINE P == {s \in SUBSET S : Sums(f, S)[s] \in Nat}
<1>1. \A s \in SUBSET S :
        Sums(f, S)[s] = IF s = {} THEN 0 ELSE f[First(s)] + Sums(f, S)[s \ {First(s)}]
  BY SumsUnfold
<1>2. {} \in P
  BY <1>1
<1>3. \A s \in SUBSET S : s # {} /\ s \ {First(s)} \in P => s \in P
  BY <1>1, FirstIn
<1> HIDE DEF P
<1>4. \A s \in SUBSET S : s \in P
  BY <1>2, <1>3, SubsetInduction
<1> QED
  BY <1>4 DEF P

\* A sum whose terms are no smaller is no smaller, and larger by one where one
\* term is.
LEMMA SumsGrow ==
  ASSUME NEW S, IsFiniteSet(S), NEW f \in [S -> Nat], NEW h \in [S -> Nat],
         \A i \in S : f[i] <= h[i], NEW K \in SUBSET S,
         \A i \in K : f[i] + 1 <= h[i]
  PROVE  \A s \in SUBSET S :
           Sums(f, S)[s] + (IF s \cap K # {} THEN 1 ELSE 0) <= Sums(h, S)[s]
<1> DEFINE extra(s) == IF s \cap K # {} THEN 1 ELSE 0
           P == {s \in SUBSET S : Sums(f, S)[s] + extra(s) <= Sums(h, S)[s]}
<1>1. \A s \in SUBSET S :
        Sums(f, S)[s] = IF s = {} THEN 0 ELSE f[First(s)] + Sums(f, S)[s \ {First(s)}]
  BY SumsUnfold
<1>2. \A s \in SUBSET S :
        Sums(h, S)[s] = IF s = {} THEN 0 ELSE h[First(s)] + Sums(h, S)[s \ {First(s)}]
  BY SumsUnfold
<1>3. \A s \in SUBSET S : Sums(f, S)[s] \in Nat /\ Sums(h, S)[s] \in Nat
  BY SumsNat
<1>4. {} \in P
  <2>1. Sums(f, S)[{}] = 0 /\ Sums(h, S)[{}] = 0
    BY <1>1, <1>2
  <2>2. extra({}) = 0
    OBVIOUS
  <2> QED
    BY <2>1, <2>2
<1>5. \A s \in SUBSET S : s # {} /\ s \ {First(s)} \in P => s \in P
  <2> SUFFICES ASSUME NEW s \in SUBSET S, s # {}, s \ {First(s)} \in P PROVE s \in P
    OBVIOUS
  <2>1. PICK x \in S : x = First(s) /\ x \in s
    BY FirstIn
  <2>2. PICK r \in SUBSET S : r = s \ {x} /\ r \in P
    BY <2>1
  <2>3. /\ Sums(f, S)[s] = f[x] + Sums(f, S)[r] /\ Sums(h, S)[s] = h[x] + Sums(h, S)[r]
        /\ Sums(f, S)[r] \in Nat /\ Sums(h, S)[r] \in Nat
    BY <1>1, <1>2, <1>3, <2>1, <2>2
  <2>4. Sums(f, S)[r] + extra(r) <= Sums(h, S)[r]
    BY <2>2
  <2>5. f[x] \in Nat /\ h[x] \in Nat /\ f[x] <= h[x]
    BY <2>1
  <2>6. CASE x \in K
    <3>1. f[x] + 1 <= h[x] /\ extra(s) = 1
      BY <2>1, <2>6
    <3>2. extra(r) \in {0, 1}
      OBVIOUS
    <3> HIDE DEF extra
    <3> QED
      BY <2>3, <2>4, <2>5, <3>1, <3>2
  <2>7. CASE x \notin K
    <3>1. extra(s) = extra(r)
      BY <2>1, <2>2, <2>7
    <3>2. extra(r) \in {0, 1}
      OBVIOUS
    <3> HIDE DEF extra
    <3> QED
      BY <2>3, <2>4, <2>5, <3>1, <3>2
  <2> QED
    BY <2>6, <2>7
<1> HIDE DEF P
<1>6. \A s \in SUBSET S : s \in P
  BY <1>4, <1>5, SubsetInduction
<1> QED
  BY <1>6 DEF P

-----------------------------------------------------------------------------
(* The global limit.  A thread compares the counts of all shards, the ones *)
(* of earlier seconds too; of these, Window are the ones of this second.   *)

Window == [k \in Shards |-> IF window_secs[k] = Second THEN counts[k] ELSE 0]

\* Every packet that passed in this second is still counted in it.
Passing == passed <= Sums(Window, Shards)[Shards] /\ passed <= total_limit_per_sec

Windowed ==
  /\ Window \in [Shards -> Nat] /\ counts \in [Shards -> Nat]
  /\ \A i \in Shards : Window[i] <= counts[i]

LEMMA WindowType == TypeOK => Windowed
<1> SUFFICES ASSUME TypeOK PROVE Windowed
  OBVIOUS
<1>1. counts \in [Shards -> 0 .. MaxPackets] /\ MaxPackets \in Nat
  BY UdpAssumption DEF TypeOK
<1>2. counts \in [Shards -> Nat]
  BY <1>1
<1>3. \A i \in Shards : Window[i] = counts[i] \/ Window[i] = 0
  BY DEF Window
<1>4. Window = [k \in Shards |-> Window[k]]
  BY DEF Window
<1>5. \A i \in Shards : Window[i] \in Nat /\ Window[i] <= counts[i]
  BY <1>2, <1>3
<1>6. Window \in [Shards -> Nat]
  BY <1>4, <1>5
<1> QED
  BY <1>2, <1>5, <1>6 DEF Windowed

\* The packet is added to its second, whether the shard was in it or not.
LEMMA WindowCounts ==
  ASSUME TypeOK, NEW k \in Shards, Count(k), now' = now
  PROVE  /\ \A i \in Shards : Window[i] <= Window'[i]
         /\ Window[k] + 1 <= Window'[k]
<1>1. /\ counts' = [counts EXCEPT ![k] = IF window_secs[k] = Second THEN @ + 1 ELSE 1]
      /\ window_secs' = [window_secs EXCEPT ![k] = Second]
  BY DEF Count, Counted
<1>2. Second' = Second
  BY DEF Second
<1>3. counts \in [Shards -> Nat] /\ window_secs \in [Shards -> 0 .. Second]
  BY WindowType DEF TypeOK, Windowed
<1>4. /\ \A i \in Shards : Window[i] = IF window_secs[i] = Second THEN counts[i] ELSE 0
      /\ \A i \in Shards : Window'[i] = IF window_secs'[i] = Second' THEN counts'[i] ELSE 0
  BY DEF Window
<1>5. Window'[k] = IF window_secs[k] = Second THEN counts[k] + 1 ELSE 1
  BY <1>1, <1>2, <1>3, <1>4
<1>6. \A i \in Shards : i # k => Window'[i] = Window[i]
  BY <1>1, <1>2, <1>3, <1>4
<1>7. \A i \in Shards : Window[i] \in Nat
  BY <1>3, <1>4
<1>8. Window[k] + 1 <= Window'[k]
  BY <1>3, <1>4, <1>5
<1>9. Window[k] <= Window'[k]
  BY <1>3, <1>4, <1>5
<1> QED
  BY <1>6, <1>7, <1>8, <1>9

LEMMA PassingCount ==
  ASSUME TypeOK, TypeOK', Passing, NEW k \in Shards, Count(k), now' = now
  PROVE  Passing'
<1>0. Windowed'
  BY WindowType, PTL
<1>1. PICK w \in [Shards -> Nat], c \in [Shards -> Nat], v \in [Shards -> Nat] :
        w = Window /\ c = counts' /\ v = Window'
  BY <1>0, WindowType DEF Windowed
<1>2. \A i \in Shards : v[i] <= c[i]
  BY <1>0, <1>1 DEF Windowed
<1>3. (\A i \in Shards : w[i] <= v[i]) /\ w[k] + 1 <= v[k]
  BY <1>1, WindowCounts
<1>4. IsFiniteSet(Shards) /\ total_limit_per_sec \in Nat
  BY UdpAssumption
<1>5. Sums(w, Shards)[Shards] + 1 <= Sums(v, Shards)[Shards]
  <2>0. {k} \in SUBSET Shards
    OBVIOUS
  <2>1. \A i \in {k} : w[i] + 1 <= v[i]
    BY <1>3
  <2>2. \A s \in SUBSET Shards :
          Sums(w, Shards)[s] + (IF s \cap {k} # {} THEN 1 ELSE 0) <= Sums(v, Shards)[s]
    BY <1>3, <1>4, <2>0, <2>1, SumsGrow
  <2> QED
    BY <2>2
<1>6. Sums(v, Shards)[Shards] <= Sums(c, Shards)[Shards]
  <2>1. \A s \in SUBSET Shards :
          Sums(v, Shards)[s] + (IF s \cap {} # {} THEN 1 ELSE 0) <= Sums(c, Shards)[s]
    BY <1>2, <1>4, SumsGrow
  <2>2. Sums(v, Shards)[Shards] \in Nat
    BY <1>4, SumsNat
  <2> QED
    BY <2>1, <2>2
<1>7. /\ Sums(w, Shards)[Shards] \in Nat /\ Sums(v, Shards)[Shards] \in Nat
      /\ Sums(c, Shards)[Shards] \in Nat
  BY <1>4, SumsNat
<1>8. passed <= Sums(w, Shards)[Shards] /\ passed <= total_limit_per_sec /\ passed \in Nat
  BY <1>1, UdpAssumption DEF Passing, TypeOK
<1>9. CASE Passes(k)
  <2>1. passed' = passed + 1
    BY <1>9 DEF Count
  <2>2. MapThenSumSet(LAMBDA i : c[i], Shards) <= total_limit_per_sec
    BY <1>1, <1>9 DEF Passes, Count
  <2>3. Sums(c, Shards)[Shards] <= total_limit_per_sec
    BY <2>2, SumIsTotal
  <2>4. passed' <= Sums(v, Shards)[Shards] /\ passed' <= total_limit_per_sec
    BY <1>4, <1>5, <1>6, <1>7, <1>8, <2>1, <2>3
  <2> QED
    BY <1>1, <2>4 DEF Passing
<1>10. CASE ~Passes(k)
  <2>1. passed' = passed
    BY <1>10 DEF Count
  <2>2. passed' <= Sums(v, Shards)[Shards] /\ passed' <= total_limit_per_sec
    BY <1>5, <1>7, <1>8, <2>1
  <2> QED
    BY <1>1, <2>2 DEF Passing
<1> QED
  BY <1>9, <1>10

LEMMA PassingTick == ASSUME TypeOK, TypeOK', Passing, Tick PROVE Passing'
<1>1. UNCHANGED <<counts, window_secs>> /\ passed' = IF Second' = Second THEN passed ELSE 0
  BY DEF Tick, Second
<1>2. IsFiniteSet(Shards) /\ total_limit_per_sec \in Nat
  BY UdpAssumption
<1>3. CASE Second' = Second
  <2>1. Window' = Window
    BY <1>1, <1>3 DEF Window
  <2> QED
    BY <1>1, <1>3, <2>1 DEF Passing
<1>4. CASE Second' # Second
  <2>0. Windowed'
    BY WindowType, PTL
  <2>1. Window' \in [Shards -> Nat]
    BY <2>0 DEF Windowed
  <2>2. Sums(Window', Shards)[Shards] \in Nat
    BY <1>2, <2>1, SumsNat
  <2> QED
    BY <1>1, <1>2, <1>4, <2>2 DEF Passing
<1> QED
  BY <1>3, <1>4

LEMMA PassingNext == IInv /\ Passing /\ [Next]_vars => Passing'
<1> SUFFICES ASSUME IInv, Passing, [Next]_vars PROVE Passing'
  OBVIOUS
<1>1. TypeOK /\ TypeOK'
  BY NextInv DEF IInv
<1>2. ASSUME UNCHANGED <<counts, window_secs, passed, now>> PROVE Passing'
  <2>1. Window' = Window
    BY <1>2 DEF Window, Second
  <2> QED
    BY <1>2, <2>1 DEF Passing
<1>3. ASSUME NEW s \in Sessions,
             (\E n \in Nicknames : Login(s, n)) \/ Close(s) \/ EraseEndpoint(s) \/ Release(s)
               \/ TrailingCleanup(s)
      PROVE  Passing'
  BY <1>2, <1>3 DEF Login, Close, EraseEndpoint, Release, TrailingCleanup, limitVars
<1>4. CASE Tick
  BY <1>1, <1>4, PassingTick
<1>5. CASE \E p \in Packets : Receive(p)
  BY <1>2, <1>5 DEF Receive, limitVars
<1>6. ASSUME NEW k \in Shards, OnUdpReceive(k) PROVE Passing'
  <2>1. Count(k) /\ now' = now
    BY <1>6 DEF OnUdpReceive
  <2> QED
    BY <1>1, <2>1, PassingCount
<1>7. CASE Dispatch \/ Snapshot \/ UpdateMap \/ Bind \/ Udpregister_handler
  BY <1>2, <1>7 DEF Dispatch, Snapshot, UpdateMap, Bind, Udpregister_handler, limitVars
<1>8. CASE UNCHANGED vars
  BY <1>2, <1>8 DEF vars, limitVars
<1> QED
  BY <1>3, <1>4, <1>5, <1>6, <1>7, <1>8 DEF Next

\* In no second do more packets pass the global limit than configured, on however
\* many threads: a shard that has not started the second yet only adds what it
\* counted before to the total.
THEOREM UdpGlobalLimit == Spec => []GlobalLimit
<1>1. Init => Passing
  <2> SUFFICES ASSUME Init PROVE Passing
    OBVIOUS
  <2>1. IsFiniteSet(Shards) /\ total_limit_per_sec \in Nat
    BY UdpAssumption
  <2>2. Window \in [Shards -> Nat]
    BY InitInv, WindowType DEF IInv, Windowed
  <2>3. Sums(Window, Shards)[Shards] \in Nat
    BY <2>1, <2>2, SumsNat
  <2> QED
    BY <2>1, <2>3 DEF Init, Passing
<1>2. Passing => GlobalLimit
  BY DEF Passing, GlobalLimit
<1> QED
  BY <1>1, <1>2, PassingNext, UdpInductive, PTL DEF Spec
================================================================================
