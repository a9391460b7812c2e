---------------------------- MODULE LoginFlowProofs -----------------------------
(***************************************************************************)
(* Proofs about LoginFlow, for any number of sessions, nicknames, threads, *)
(* connections and logins.                                                 *)
(***************************************************************************)
EXTENDS LoginFlow, FiniteSetTheorems, TLAPS

-----------------------------------------------------------------------------
(* The inductive invariant.                                                *)

\* Ids are given out once; an open session is found under its id.
Identified ==
  /\ next_id \in 1 .. MaxConns + 1
  /\ \A s \in Sessions : session_id[s] < next_id
  /\ \A s, r \in Sessions : session_id[s] = session_id[r] /\ session_id[s] # 0 => s = r
  /\ \A s \in Sessions : open[s] => session_id[s] # 0 /\ bucket[session_id[s]] = s

\* A login, waiting or being completed, is of a session that had an id.
Asked ==
  /\ \A j \in requests : session_id[j.sess] # 0
  /\ \A t \in Threads : pc[t] # "idle" => job[t] \in Jobs /\ session_id[job[t].sess] # 0

\* What a completion has done so far stands until its next step, unless the
\* session closes meanwhile.
Standing ==
  ~raced => \A t \in Threads :
    /\ pc[t] # "idle" => open[job[t].sess]
    /\ pc[t] = "name" => nickname_index[job[t].nick] = job[t].sess
    /\ pc[t] = "zone" => zone[session_id[job[t].sess]] = job[t].sess

IInv == TypeOK /\ Identified /\ Asked /\ Standing /\ UniqueLogin /\ ZoneSound

-----------------------------------------------------------------------------
(* Types.                                                                  *)

\* The parts of TypeOK that are functions, sets and Booleans of the sessions ...
SessionTypes ==
  /\ open \in [Sessions -> BOOLEAN] /\ registered \in [Sessions -> BOOLEAN]
  /\ session_id \in [Sessions -> Ids \cup {0}]
  /\ nickname \in [Sessions -> Nicknames \cup {NoName}]
  /\ zone_id \in [Sessions -> {-1, Default}]

\* ... of the tables ...
TableTypes ==
  /\ bucket \in [Ids -> Sessions \cup {None}] /\ zone \in [Ids -> Sessions \cup {None}]
  /\ Cardinality(Members) <= max_sessions
  /\ nickname_index \in [Nicknames -> Sessions \cup {None}]

\* ... and of the logins.
LoginTypes ==
  /\ requests \subseteq Jobs
  /\ pc \in [Threads -> {"idle", "evict", "register", "name", "assign", "zone"}]
  /\ job \in [Threads -> Jobs \cup {None}] /\ prev \in [Threads -> Sessions \cup {None}]

FlagTypes == raced \in BOOLEAN /\ wronged \in BOOLEAN

LEMMA Types == TypeOK <=> SessionTypes /\ TableTypes /\ LoginTypes /\ FlagTypes
BY DEF TypeOK, SessionTypes, TableTypes, LoginTypes, FlagTypes

LEMMA NextTypes == SessionTypes' /\ TableTypes' /\ LoginTypes' /\ FlagTypes' => TypeOK'
BY DEF TypeOK, SessionTypes, TableTypes, LoginTypes, FlagTypes

LEMMA IdFacts ==
  /\ 0 \notin Ids /\ \A id \in Ids : id \in Nat /\ id # 0
  /\ SessionTypes => \A s \in Sessions : /\ session_id[s] \in Nat
                                         /\ session_id[s] # 0 => session_id[s] \in Ids
<1>1. 0 \notin Ids /\ \A id \in Ids : id \in Nat /\ id # 0
  BY LoginAssumption DEF Ids
<1> QED
  BY <1>1 DEF SessionTypes

\* The members of the zone are finitely many.
LEMMA MembersFinite == IsFiniteSet(Members) /\ Cardinality(Members) \in Nat
<1>1. IsFiniteSet(Ids)
  BY LoginAssumption, FS_Interval DEF Ids
<1>2. Members \subseteq Ids
  BY DEF Members
<1> QED
  BY <1>1, <1>2, FS_Subset, FS_CardinalityType

LEMMA MembersShrink ==
  ASSUME TableTypes, \A id \in Ids : zone'[id] = None \/ zone'[id] = zone[id]
  PROVE  Cardinality(Members') <= max_sessions
<1>1. Members' \subseteq Members
  BY DEF Members
<1>2. Cardinality(Members') \in Nat /\ Cardinality(Members') <= Cardinality(Members)
  BY <1>1, MembersFinite, FS_Subset, FS_CardinalityType
<1> QED
  BY <1>2, MembersFinite, LoginAssumption DEF TableTypes

LEMMA InitInv == Init => IInv
<1> SUFFICES ASSUME Init PROVE IInv
  OBVIOUS
<1> USE LoginAssumption
<1>1. Members = {}
  BY DEF Init, Members
<1>2. Cardinality(Members) = 0
  BY <1>1, FS_EmptySet
<1>3. SessionTypes /\ TableTypes /\ LoginTypes /\ FlagTypes
  <2>1. open \in [Sessions -> BOOLEAN] /\ registered \in [Sessions -> BOOLEAN]
    BY DEF Init
  <2>2. SessionTypes
    BY <2>1 DEF Init, SessionTypes
  <2>3. TableTypes
    BY <1>2 DEF Init, TableTypes
  <2>4. LoginTypes
    BY DEF Init, LoginTypes
  <2> QED
    BY <2>2, <2>3, <2>4 DEF Init, FlagTypes
<1>4. Identified /\ Asked /\ Standing
  BY DEF Init, Identified, Asked, Standing
<1>5. UniqueLogin /\ ZoneSound
  BY <1>1 DEF Init, UniqueLogin, ZoneSound, Default
<1> QED
  BY <1>3, <1>4, <1>5, Types DEF IInv

-----------------------------------------------------------------------------
(* Closing.                                                                *)

LEMMA CloseTypes ==
  ASSUME IInv, NEW C \in SUBSET Sessions, close_session(C), UNCHANGED nickname_index
  PROVE  SessionTypes' /\ TableTypes' /\ raced' \in BOOLEAN
<1>1. SessionTypes /\ TableTypes
  BY Types DEF IInv
<1>2. /\ open' = [s \in Sessions |-> open[s] /\ s \notin C] /\ cleanup(C)
      /\ session_id' = session_id /\ LeaveZone(C)
      /\ bucket' = [id \in Ids |->
           IF \E s \in C : session_id[s] = id /\ Managed(s) THEN None ELSE bucket[id]]
  BY DEF close_session
<1>3. open' \in [Sessions -> BOOLEAN]
  BY <1>2
<1>4. registered' \in [Sessions -> BOOLEAN]
  BY <1>1, <1>2 DEF cleanup, SessionTypes
<1>5. /\ nickname' \in [Sessions -> Nicknames \cup {NoName}]
      /\ zone_id' \in [Sessions -> {-1, Default}]
  BY <1>1, <1>2 DEF cleanup, SessionTypes
<1>6. bucket' \in [Ids -> Sessions \cup {None}]
  BY <1>1, <1>2 DEF TableTypes
<1>7. zone' \in [Ids -> Sessions \cup {None}] /\ \A id \in Ids : zone'[id] = None \/ zone'[id] = zone[id]
  BY <1>1, <1>2 DEF TableTypes, LeaveZone, Erased
<1>8. Cardinality(Members') <= max_sessions
  BY <1>1, <1>7, MembersShrink
<1>9. raced' \in BOOLEAN
  BY DEF close_session
<1> QED
  BY <1>1, <1>2, <1>3, <1>4, <1>5, <1>6, <1>7, <1>8, <1>9 DEF SessionTypes, TableTypes

\* What closing the sessions of C changes ...
Closed(C) ==
  /\ \A s \in Sessions : open'[s] <=> open[s] /\ s \notin C
  /\ \A s \in Sessions : s \notin C => nickname'[s] = nickname[s] /\ zone_id'[s] = zone_id[s]
  /\ \A s \in Sessions : s \in C => nickname'[s] = NoName /\ zone_id'[s] = -1
  /\ session_id' = session_id
  /\ \A s \in Sessions : open[s] /\ s \notin C => bucket'[session_id[s]] = s
  /\ \A id \in Ids : zone'[id] = None \/ zone'[id] = zone[id]

\* ... and, where no login is overtaken, leaves standing.
Spared(C) ==
  /\ ~raced
  /\ \A t \in Threads : pc[t] # "idle" => job[t].sess \notin C
  /\ \A id \in Ids : zone'[id] # None => zone[id] \notin C
  /\ \A s \in Sessions \ C :
       session_id[s] # 0 /\ zone[session_id[s]] = s => zone'[session_id[s]] = s

LEMMA CloseFacts ==
  ASSUME IInv, NEW C \in SUBSET Sessions, close_session(C)
  PROVE  Closed(C) /\ (~raced' => Spared(C))
<1> USE LoginAssumption
<1>1. SessionTypes /\ TableTypes /\ LoginTypes /\ Identified
  BY Types DEF IInv
<1>2. \A s \in Sessions : session_id[s] # 0 => session_id[s] \in Ids
  BY <1>1, IdFacts
<1>3. \A s, r \in Sessions : session_id[s] = session_id[r] /\ session_id[s] # 0 => s = r
  BY <1>1 DEF Identified
<1>4. \A s \in Sessions : open'[s] <=> open[s] /\ s \notin C
  BY DEF close_session
<1>5. /\ \A s \in Sessions : s \notin C => nickname'[s] = nickname[s] /\ zone_id'[s] = zone_id[s]
      /\ \A s \in Sessions : s \in C => nickname'[s] = NoName /\ zone_id'[s] = -1
  BY DEF close_session, cleanup
<1>6. ASSUME NEW s \in Sessions, open[s], s \notin C PROVE bucket'[session_id[s]] = s
  <2>1. session_id[s] \in Ids /\ bucket[session_id[s]] = s /\ session_id[s] # 0
    BY <1>1, <1>2, <1>6 DEF Identified
  <2>2. ~ \E c \in C : session_id[c] = session_id[s] /\ Managed(c)
    BY <1>3, <1>6, <2>1
  <2>3. bucket' = [id \in Ids |->
          IF \E c \in C : session_id[c] = id /\ Managed(c) THEN None ELSE bucket[id]]
    BY DEF close_session
  <2>4. bucket'[session_id[s]] =
          IF \E c \in C : session_id[c] = session_id[s] /\ Managed(c) THEN None
          ELSE bucket[session_id[s]]
    BY <2>1, <2>3
  <2> QED
    BY <2>1, <2>2, <2>4
<1>7. \A id \in Ids : zone'[id] = None \/ zone'[id] = zone[id]
  BY DEF close_session, LeaveZone, Erased
<1>8. Closed(C)
  BY <1>4, <1>5, <1>6, <1>7 DEF Closed, close_session
<1>9. ASSUME ~raced' PROVE Spared(C)
  <2>1. ~raced /\ \A t \in Threads : pc[t] # "idle" => job[t].sess \notin C
    BY <1>9 DEF close_session
  <2>2. ASSUME NEW id \in Ids, zone'[id] # None PROVE zone[id] \notin C
    <3>1. SUFFICES ASSUME zone[id] \in C PROVE FALSE
      OBVIOUS
    <3>2. id \in Members /\ zone[id] \in Sessions
      BY <3>1, <1>7, <2>2 DEF Members
    <3>3. open[zone[id]] /\ session_id[zone[id]] = id
      BY <2>1, <3>2 DEF IInv, ZoneSound
    <3>4. zone_id[zone[id]] = Default
      BY <1>1, <2>1, <3>1, <3>2 DEF IInv, ZoneSound
    <3>5. Managed(zone[id]) /\ zone_id[zone[id]] > -1
      BY <1>1, <3>2, <3>3, <3>4 DEF Managed, Identified, Default
    <3>6. id \in {session_id[s] : s \in {c \in C : Managed(c) /\ zone_id[c] > -1}}
      BY <3>1, <3>3, <3>5
    <3>7. zone'[id] = None
      BY <3>6 DEF close_session, LeaveZone, Erased
    <3> QED
      BY <2>2, <3>7
  <2>3. ASSUME NEW s \in Sessions, s \notin C, session_id[s] # 0, zone[session_id[s]] = s
        PROVE  zone'[session_id[s]] = s
    <3>1. session_id[s] \in Ids
      BY <1>2, <2>3
    <3>2. session_id[s] \notin {session_id[r] : r \in {c \in C : Managed(c) /\ zone_id[c] > -1}}
      BY <1>3, <2>3
    <3> QED
      BY <2>3, <3>1, <3>2 DEF close_session, LeaveZone, Erased
  <2> QED
    BY <2>1, <2>2, <2>3 DEF Spared
<1> QED
  BY <1>8, <1>9

\* The parts of the invariant a close keeps, whatever becomes of the logins.
LEMMA ClosedInv ==
  ASSUME IInv, NEW C \in SUBSET Sessions, close_session(C), next_id' = next_id
  PROVE  /\ Identified'
         /\ ~raced' => \A id \in Members' : /\ open'[zone'[id]] /\ session_id'[zone'[id]] = id
                                            /\ zone'[id] = zone[id] /\ zone[id] \in Sessions
                                            /\ zone[id] \notin C /\ id \in Members
         /\ ~raced' => \A s \in Sessions :
              zone_id'[s] = Default => open'[s] /\ zone'[session_id'[s]] = s
<1> USE LoginAssumption
<1>1. SessionTypes /\ TableTypes /\ LoginTypes /\ Identified
  BY Types DEF IInv
<1>2. Closed(C) /\ (~raced' => Spared(C))
  BY CloseFacts
<1>3. session_id' = session_id
  BY <1>2 DEF Closed
<1>4. Identified'
  BY <1>1, <1>2, <1>3 DEF Identified, Closed
<1>5. ASSUME ~raced', NEW id \in Members'
      PROVE  /\ open'[zone'[id]] /\ session_id'[zone'[id]] = id /\ zone'[id] = zone[id]
             /\ zone[id] \in Sessions /\ zone[id] \notin C /\ id \in Members
  <2>1. ~raced /\ id \in Ids /\ zone'[id] # None /\ zone[id] \notin C
    BY <1>2, <1>5 DEF Spared, Members
  <2>2. zone'[id] = zone[id] /\ id \in Members
    BY <1>2, <2>1 DEF Closed, Members
  <2>3. zone[id] \in Sessions
    BY <1>1, <2>1, <2>2 DEF TableTypes
  <2>4. open[zone[id]] /\ session_id[zone[id]] = id
    BY <2>1, <2>2 DEF IInv, ZoneSound
  <2> QED
    BY <1>2, <1>3, <2>1, <2>2, <2>3, <2>4 DEF Closed
<1>6. ASSUME ~raced', NEW s \in Sessions, zone_id'[s] = Default
      PROVE  open'[s] /\ zone'[session_id'[s]] = s
  <2>1. s \notin C /\ zone_id[s] = Default
    BY <1>2, <1>6 DEF Closed, Default
  <2>2. ~raced /\ open[s] /\ zone[session_id[s]] = s
    BY <1>2, <1>6, <2>1 DEF IInv, ZoneSound, Spared
  <2>3. session_id[s] # 0
    BY <1>1, <2>2 DEF Identified
  <2>4. zone'[session_id[s]] = s
    BY <1>2, <1>6, <2>1, <2>2, <2>3 DEF Spared
  <2> QED
    BY <1>2, <1>3, <2>1, <2>2, <2>4 DEF Closed
<1> QED
  BY <1>4, <1>5, <1>6

\* A close alone: end of file, a sweep, a logout, or the old session of a login.
LEMMA QuietCloseInv ==
  ASSUME IInv, NEW C \in SUBSET Sessions, close_session(C),
         UNCHANGED <<nickname_index, next_id>>, wronged' \in BOOLEAN, LoginTypes', Asked',
         \A t \in Threads : /\ pc'[t] # "idle" => pc[t] # "idle" /\ job'[t] = job[t]
                            /\ pc'[t] = "name" <=> pc[t] = "name"
                            /\ pc'[t] = "zone" <=> pc[t] = "zone"
  PROVE  IInv'
<1>1. SessionTypes /\ TableTypes /\ LoginTypes /\ Identified
  BY Types DEF IInv
<1>2. TypeOK'
  BY CloseTypes, NextTypes DEF FlagTypes
<1>3. Closed(C) /\ (~raced' => Spared(C))
  BY CloseFacts
<1>4. /\ Identified'
      /\ ~raced' => \A id \in Members' : /\ open'[zone'[id]] /\ session_id'[zone'[id]] = id
                                         /\ zone'[id] = zone[id] /\ zone[id] \in Sessions
                                         /\ zone[id] \notin C /\ id \in Members
      /\ ~raced' => \A s \in Sessions :
           zone_id'[s] = Default => open'[s] /\ zone'[session_id'[s]] = s
  BY ClosedInv
<1>5. \A t \in Threads : pc[t] # "idle" => job[t].sess \in Sessions /\ session_id[job[t].sess] # 0
  BY DEF IInv, Asked, Jobs
<1>6. session_id' = session_id
  BY <1>3 DEF Closed
<1>7. Standing'
  <2> SUFFICES ASSUME ~raced', NEW t \in Threads, pc'[t] # "idle"
               PROVE  /\ open'[job'[t].sess]
                      /\ pc'[t] = "name" => nickname_index'[job'[t].nick] = job'[t].sess
                      /\ pc'[t] = "zone" => zone'[session_id'[job'[t].sess]] = job'[t].sess
    BY DEF Standing
  <2>1. pc[t] # "idle" /\ job'[t] = job[t] /\ ~raced /\ job[t].sess \notin C
        /\ job[t].sess \in Sessions /\ session_id[job[t].sess] # 0
    BY <1>3, <1>5 DEF Spared
  <2>2. /\ open[job[t].sess]
        /\ pc[t] = "name" => nickname_index[job[t].nick] = job[t].sess
        /\ pc[t] = "zone" => zone[session_id[job[t].sess]] = job[t].sess
    BY <2>1 DEF IInv, Standing
  <2>3. open'[job[t].sess]
    BY <1>3, <2>1, <2>2 DEF Closed
  <2>4. pc[t] = "zone" => zone'[session_id[job[t].sess]] = job[t].sess
    BY <1>3, <2>1, <2>2 DEF Spared
  <2> QED
    BY <1>6, <2>1, <2>2, <2>3, <2>4
<1>8. UniqueLogin'
  <2> SUFFICES ASSUME ~raced', NEW s \in Sessions, nickname'[s] # NoName
               PROVE  open'[s] /\ nickname_index'[nickname'[s]] = s
    BY DEF UniqueLogin
  <2>1. s \notin C /\ nickname'[s] = nickname[s] /\ ~raced
    BY <1>3 DEF Closed, Spared
  <2> QED
    BY <1>3, <2>1 DEF IInv, UniqueLogin, Closed
<1>9. ZoneSound'
  <2>1. ASSUME ~raced', NEW id \in Members'
        PROVE  zone_id'[zone'[id]] = Default \/
                 \E t \in Threads : pc'[t] = "zone" /\ job'[t].sess = zone'[id]
    <3>1. id \in Members /\ zone'[id] = zone[id] /\ zone[id] \in Sessions /\ zone[id] \notin C /\ ~raced
      BY <1>3, <1>4, <2>1 DEF Spared
    <3>2. CASE zone_id[zone[id]] = Default
      BY <1>3, <3>1, <3>2 DEF Closed
    <3>3. CASE \E t \in Threads : pc[t] = "zone" /\ job[t].sess = zone[id]
      BY <3>1, <3>3
    <3> QED
      BY <3>1, <3>2, <3>3 DEF IInv, ZoneSound
  <2> QED
    BY <1>4, <2>1 DEF ZoneSound
<1> QED
  BY <1>2, <1>4, <1>7, <1>8, <1>9 DEF IInv

-----------------------------------------------------------------------------
(* The steps.                                                              *)

\* A new connection takes a session that nothing leads to but the nickname index.
LEMMA AcceptInv == IInv /\ Accept => IInv'
<1> SUFFICES ASSUME IInv, Accept PROVE IInv'
  OBVIOUS
<1> USE LoginAssumption
<1>1. SessionTypes /\ TableTypes /\ LoginTypes /\ FlagTypes /\ Identified
  BY Types DEF IInv
<1>2. PICK s \in Sessions :
        /\ ~open[s] /\ open' = [open EXCEPT ![s] = TRUE]
        /\ session_id' = [session_id EXCEPT ![s] = next_id]
        /\ bucket' = [bucket EXCEPT ![next_id] = s] /\ cleanup({s})
  BY DEF Accept
<1>3. next_id \in Ids /\ next_id \in Nat /\ next_id # 0 /\ next_id' = next_id + 1
  BY <1>1 DEF Accept, Identified, Ids
<1>4. /\ nickname_index' = nickname_index /\ zone' = zone /\ requests' = requests /\ pc' = pc
      /\ job' = job /\ prev' = prev /\ raced' = raced /\ wronged' = wronged
  BY DEF Accept
<1>5. /\ nickname' = [r \in Sessions |-> IF r \in {s} THEN NoName ELSE nickname[r]]
      /\ registered' = [r \in Sessions |-> IF r \in {s} THEN FALSE ELSE registered[r]]
      /\ zone_id' = [r \in Sessions |-> IF r \in {s} THEN -1 ELSE zone_id[r]]
  BY <1>2 DEF cleanup
<1>6. SessionTypes' /\ TableTypes' /\ LoginTypes' /\ FlagTypes'
  <2>1. open' \in [Sessions -> BOOLEAN]
    BY <1>1, <1>2 DEF SessionTypes
  <2>2. registered' \in [Sessions -> BOOLEAN]
    BY <1>1, <1>5 DEF SessionTypes
  <2>3. /\ session_id' \in [Sessions -> Ids \cup {0}]
        /\ nickname' \in [Sessions -> Nicknames \cup {NoName}]
        /\ zone_id' \in [Sessions -> {-1, Default}]
    BY <1>1, <1>2, <1>3, <1>5 DEF SessionTypes
  <2>4. bucket' \in [Ids -> Sessions \cup {None}] /\ Members' = Members
    BY <1>1, <1>2, <1>3, <1>4 DEF TableTypes, Members
  <2> QED
    BY <1>1, <1>4, <2>1, <2>2, <2>3, <2>4
       DEF SessionTypes, TableTypes, LoginTypes, FlagTypes
<1>7. /\ \A r \in Sessions : r # s => /\ session_id'[r] = session_id[r] /\ nickname'[r] = nickname[r]
                                      /\ zone_id'[r] = zone_id[r] /\ (open'[r] <=> open[r])
      /\ open'[s] /\ session_id'[s] = next_id /\ nickname'[s] = NoName /\ zone_id'[s] = -1
  BY <1>1, <1>2, <1>5 DEF SessionTypes
<1>8. \A r \in Sessions : session_id[r] \in Nat /\ session_id[r] < next_id
  BY <1>1, IdFacts DEF Identified
<1>9. \A id \in Ids : id # next_id => bucket'[id] = bucket[id]
  BY <1>1, <1>2, <1>3 DEF TableTypes
<1>10. bucket'[next_id] = s
  BY <1>1, <1>2, <1>3 DEF TableTypes
<1>11. Identified'
  <2>1. next_id' \in 1 .. MaxConns + 1
    BY <1>3 DEF Ids
  <2>2. \A r \in Sessions : session_id'[r] < next_id'
    BY <1>3, <1>7, <1>8
  <2>3. \A q, r \in Sessions : session_id'[q] = session_id'[r] /\ session_id'[q] # 0 => q = r
    BY <1>1, <1>3, <1>7, <1>8 DEF Identified
  <2>4. ASSUME NEW r \in Sessions, open'[r] PROVE session_id'[r] # 0 /\ bucket'[session_id'[r]] = r
    <3>1. CASE r = s
      BY <1>3, <1>7, <1>10, <3>1
    <3>2. CASE r # s
      <4>1. open[r] /\ session_id'[r] = session_id[r] /\ session_id[r] # 0 /\ bucket[session_id[r]] = r
        BY <1>1, <1>7, <2>4, <3>2 DEF Identified
      <4>2. session_id[r] \in Ids /\ session_id[r] # next_id
        BY <1>1, <1>3, <1>8, <4>1, IdFacts
      <4> QED
        BY <1>9, <4>1, <4>2
    <3> QED
      BY <3>1, <3>2
  <2> QED
    BY <2>1, <2>2, <2>3, <2>4 DEF Identified
<1>12. Asked'
  <2>1. \A r \in Sessions : session_id[r] # 0 => session_id'[r] # 0
    BY <1>3, <1>7
  <2>2. \A j \in Jobs : j.sess \in Sessions
    BY DEF Jobs
  <2> QED
    BY <1>1, <1>4, <2>1, <2>2 DEF IInv, Asked, LoginTypes
<1>13. CASE raced
  BY <1>4, <1>6, <1>11, <1>12, <1>13, NextTypes DEF IInv, Standing, UniqueLogin, ZoneSound
<1>14. CASE ~raced
  <2>1. \A t \in Threads : pc[t] # "idle" => job[t].sess \in Sessions /\ job[t].sess # s
    BY <1>2, <1>14 DEF IInv, Standing, Asked, Jobs
  <2>2. Standing'
    BY <1>4, <1>7, <1>14, <2>1 DEF IInv, Standing
  <2>3. UniqueLogin'
    BY <1>4, <1>7, <1>14 DEF IInv, UniqueLogin
  <2>4. \A id \in Members : zone[id] \in Sessions /\ zone[id] # s /\ open[zone[id]]
    BY <1>1, <1>2, <1>14 DEF IInv, ZoneSound, TableTypes, Members
  <2>5. Members' = Members
    BY <1>4 DEF Members
  <2>6. \A r \in Sessions : zone_id'[r] = Default => r # s
    BY <1>7 DEF Default
  <2>7. ZoneSound'
    BY <1>4, <1>7, <1>14, <2>4, <2>5, <2>6 DEF IInv, ZoneSound
  <2> QED
    BY <1>6, <1>11, <1>12, <2>2, <2>3, <2>7, NextTypes DEF IInv
<1> QED
  BY <1>13, <1>14

LEMMA DisconnectInv == IInv /\ Disconnect => IInv'
<1> SUFFICES ASSUME IInv, Disconnect PROVE IInv'
  OBVIOUS
<1>1. PICK s \in Sessions : close_session({s})
  BY DEF Disconnect
<1>2. /\ UNCHANGED <<nickname_index, next_id>> /\ requests' = requests /\ pc' = pc /\ job' = job
      /\ prev' = prev /\ wronged' = wronged
  BY DEF Disconnect
<1>3. LoginTypes /\ FlagTypes
  BY Types DEF IInv
<1>4. wronged' \in BOOLEAN
  BY <1>2, <1>3 DEF FlagTypes
<1>5. LoginTypes'
  BY <1>2, <1>3 DEF LoginTypes
<1>6. session_id' = session_id /\ {s} \in SUBSET Sessions
  BY <1>1 DEF close_session
<1>7. Asked'
  BY <1>2, <1>6 DEF IInv, Asked
<1> QED
  BY <1>1, <1>2, <1>4, <1>5, <1>6, <1>7, QuietCloseInv

LEMMA NamesakeType == ASSUME IInv, NEW n \in Nicknames, NEW s PROVE Namesake(n, s) \in SUBSET Sessions
<1>1. nickname_index[n] \in Sessions \cup {None}
  BY Types DEF IInv, TableTypes
<1> QED
  BY <1>1 DEF Namesake

LEMMA LoginHandlerInv == IInv /\ login_handler => IInv'
<1> SUFFICES ASSUME IInv, login_handler PROVE IInv'
  OBVIOUS
<1>1. SessionTypes /\ LoginTypes /\ Identified
  BY Types DEF IInv
<1>2. PICK s \in Sessions, n \in Nicknames :
        /\ open[s] /\ close_session(Namesake(n, s))
        /\ wronged' = (wronged \/ Wrongs(Namesake(n, s), n))
        /\ requests' = requests \cup {[sess |-> s, nick |-> n, id |-> session_id[s]]}
  BY DEF login_handler
<1>3. UNCHANGED <<nickname_index, next_id>> /\ pc' = pc /\ job' = job /\ prev' = prev
  BY DEF login_handler
<1>4. Namesake(n, s) \in SUBSET Sessions
  BY NamesakeType
<1>5. wronged' \in BOOLEAN
  BY <1>2
<1>6. session_id[s] # 0 /\ session_id[s] \in Ids /\ session_id' = session_id
  BY <1>1, <1>2, IdFacts DEF Identified, close_session
<1>7. PICK j \in Jobs : j = [sess |-> s, nick |-> n, id |-> session_id[s]] /\ j.sess = s
  <2> DEFINE e == [sess |-> s, nick |-> n, id |-> session_id[s]]
  <2>1. e \in Jobs /\ e.sess = s
    BY <1>6 DEF Jobs
  <2> QED
    BY <2>1
<1>8. requests' = requests \cup {j}
  BY <1>2, <1>7
<1>9. LoginTypes'
  BY <1>1, <1>3, <1>8 DEF LoginTypes
<1>10. Asked'
  BY <1>3, <1>6, <1>7, <1>8 DEF IInv, Asked
<1> QED
  BY <1>2, <1>3, <1>4, <1>5, <1>9, <1>10, QuietCloseInv

LEMMA InfoFailInv == IInv /\ on_user_info_fail => IInv'
<1> SUFFICES ASSUME IInv, on_user_info_fail PROVE IInv'
  OBVIOUS
<1>1. requests' \subseteq requests
  BY DEF on_user_info_fail
<1>2. UNCHANGED <<sessVars, bucket, nickname_index, zone, pc, job, prev, next_id, raced, wronged>>
  BY DEF on_user_info_fail
<1>3. TypeOK'
  BY <1>1, <1>2 DEF IInv, TypeOK, sessVars, Members
<1>4. Identified' /\ Asked' /\ Standing'
  BY <1>1, <1>2 DEF IInv, Identified, Asked, Standing, sessVars
<1>5. UniqueLogin' /\ ZoneSound'
  BY <1>2 DEF IInv, UniqueLogin, ZoneSound, sessVars, Members
<1> QED
  BY <1>3, <1>4, <1>5 DEF IInv

\* The completion of a login begins.
LEMMA InfoOkInv == ASSUME IInv, NEW t \in Threads, on_user_info_ok(t) PROVE IInv'
<1> USE LoginAssumption
<1>1. SessionTypes /\ TableTypes /\ LoginTypes /\ FlagTypes /\ Identified
  BY Types DEF IInv
<1>2. PICK j \in requests :
        /\ requests' = requests \ {j} /\ job' = [job EXCEPT ![t] = j]
        /\ bucket' = [bucket EXCEPT ![session_id[j.sess]] = j.sess]
        /\ prev' = [prev EXCEPT ![t] = nickname_index[j.nick]]
        /\ raced' = (raced \/ Late(j))
  BY DEF on_user_info_ok
<1>3. /\ pc[t] = "idle" /\ pc' = [pc EXCEPT ![t] = "evict"] /\ nickname_index' = nickname_index
      /\ zone' = zone /\ next_id' = next_id /\ wronged' = wronged /\ open' = open
      /\ session_id' = session_id /\ nickname' = nickname /\ registered' = registered
      /\ zone_id' = zone_id
  BY DEF on_user_info_ok, sessVars
<1>4. /\ j \in Jobs /\ j.sess \in Sessions /\ j.nick \in Nicknames
      /\ session_id[j.sess] # 0 /\ session_id[j.sess] \in Ids
  BY <1>1, <1>2, IdFacts DEF IInv, Asked, LoginTypes, Jobs
<1>5. /\ job'[t] = j /\ pc'[t] = "evict"
      /\ \A u \in Threads : u # t => job'[u] = job[u] /\ pc'[u] = pc[u]
  BY <1>1, <1>2, <1>3 DEF LoginTypes
<1>6. SessionTypes' /\ TableTypes' /\ LoginTypes' /\ FlagTypes'
  <2>1. SessionTypes'
    BY <1>1, <1>3 DEF SessionTypes
  <2>2. TableTypes'
    BY <1>1, <1>2, <1>3, <1>4 DEF TableTypes, Members
  <2>3. nickname_index[j.nick] \in Sessions \cup {None}
    BY <1>1, <1>4 DEF TableTypes
  <2>4. LoginTypes'
    BY <1>1, <1>2, <1>3, <1>4, <2>3 DEF LoginTypes
  <2>5. FlagTypes'
    BY <1>1, <1>2, <1>3 DEF FlagTypes
  <2> QED
    BY <2>1, <2>2, <2>4, <2>5
<1>7. Identified'
  <2>1. ASSUME NEW s \in Sessions, open[s] PROVE session_id[s] # 0 /\ bucket'[session_id[s]] = s
    <3>1. session_id[s] # 0 /\ session_id[s] \in Ids /\ bucket[session_id[s]] = s
      BY <1>1, <2>1, IdFacts DEF Identified
    <3>2. CASE session_id[s] = session_id[j.sess]
      <4>1. s = j.sess
        BY <1>1, <1>4, <3>1, <3>2 DEF Identified
      <4> QED
        BY <1>1, <1>2, <1>4, <3>1, <4>1 DEF TableTypes
    <3>3. CASE session_id[s] # session_id[j.sess]
      BY <1>1, <1>2, <1>4, <3>1, <3>3 DEF TableTypes
    <3> QED
      BY <3>1, <3>2, <3>3
  <2> QED
    BY <1>1, <1>3, <2>1 DEF Identified
<1>8. Asked'
  BY <1>2, <1>3, <1>4, <1>5 DEF IInv, Asked
<1>9. ~raced' => ~raced /\ open[j.sess]
  BY <1>2 DEF Late
<1>10. Standing'
  BY <1>3, <1>5, <1>9 DEF IInv, Standing
<1>11. UniqueLogin'
  BY <1>3, <1>9 DEF IInv, UniqueLogin
<1>12. ZoneSound'
  <2>1. Members' = Members
    BY <1>3 DEF Members
  <2>2. \A u \in Threads : pc[u] = "zone" => pc'[u] = "zone" /\ job'[u] = job[u]
    BY <1>3, <1>5
  <2> QED
    BY <1>3, <1>9, <2>1, <2>2 DEF IInv, ZoneSound
<1> QED
  BY <1>6, <1>7, <1>8, <1>10, <1>11, <1>12, NextTypes DEF IInv

LEMMA EvictInv == ASSUME IInv, NEW t \in Threads, Evict(t) PROVE IInv'
<1> DEFINE C == {prev[t]} \ {None, job[t].sess}
<1>1. LoginTypes /\ FlagTypes
  BY Types DEF IInv
<1>2. C \in SUBSET Sessions
  BY <1>1 DEF LoginTypes
<1> HIDE DEF C
<1>3. /\ pc[t] = "evict" /\ close_session(C) /\ wronged' = (wronged \/ Wrongs(C, job[t].nick))
      /\ prev' = [prev EXCEPT ![t] = None] /\ pc' = [pc EXCEPT ![t] = "register"]
      /\ nickname_index' = nickname_index /\ requests' = requests /\ job' = job
      /\ next_id' = next_id
  BY DEF Evict, C
<1>4. wronged' \in BOOLEAN
  BY <1>3
<1>5. LoginTypes'
  BY <1>1, <1>3 DEF LoginTypes
<1>6. session_id' = session_id
  BY <1>3 DEF close_session
<1>7. pc'[t] = "register" /\ \A u \in Threads : u # t => pc'[u] = pc[u]
  BY <1>1, <1>3 DEF LoginTypes
<1>8. Asked'
  BY <1>3, <1>6, <1>7 DEF IInv, Asked
<1>9. \A u \in Threads : /\ pc'[u] # "idle" => pc[u] # "idle" /\ job'[u] = job[u]
                         /\ pc'[u] = "name" <=> pc[u] = "name"
                         /\ pc'[u] = "zone" <=> pc[u] = "zone"
  BY <1>3, <1>7
<1> QED
  BY <1>2, <1>3, <1>4, <1>5, <1>8, <1>9, QuietCloseInv

\* The nickname passes to the session that logs in; whoever had it is closed.
LEMMA RegisterInv == ASSUME IInv, NEW t \in Threads, register_nickname(t) PROVE IInv'
<1> USE LoginAssumption
<1>1. SessionTypes /\ TableTypes /\ LoginTypes /\ FlagTypes /\ Identified
  BY Types DEF IInv
<1>2. PICK j \in Jobs : j = job[t] /\ j.sess \in Sessions /\ j.nick \in Nicknames
                        /\ session_id[j.sess] # 0
  BY DEF IInv, Asked, register_nickname, Jobs
<1>3. PICK C \in SUBSET Sessions : C = Namesake(j.nick, j.sess)
  BY <1>2, NamesakeType
<1>4. /\ pc[t] = "register" /\ close_session(C)
      /\ nickname_index' = [nickname_index EXCEPT ![j.nick] = j.sess]
      /\ pc' = [pc EXCEPT ![t] = "name"] /\ requests' = requests /\ job' = job /\ prev' = prev
      /\ next_id' = next_id
  BY <1>2, <1>3 DEF register_nickname, Replaced
<1>5. wronged' \in BOOLEAN
  BY DEF register_nickname
<1>6. Closed(C) /\ (~raced' => Spared(C))
  BY <1>4, CloseFacts
<1>7. /\ Identified'
      /\ ~raced' => \A id \in Members' : /\ open'[zone'[id]] /\ session_id'[zone'[id]] = id
                                         /\ zone'[id] = zone[id] /\ zone[id] \in Sessions
                                         /\ zone[id] \notin C /\ id \in Members
      /\ ~raced' => \A s \in Sessions :
           zone_id'[s] = Default => open'[s] /\ zone'[session_id'[s]] = s
  BY <1>4, ClosedInv
<1>8. pc'[t] = "name" /\ \A u \in Threads : u # t => pc'[u] = pc[u]
  BY <1>1, <1>4 DEF LoginTypes
<1>9. /\ nickname_index' \in [Nicknames -> Sessions \cup {None}] /\ nickname_index'[j.nick] = j.sess
      /\ \A n \in Nicknames : n # j.nick => nickname_index'[n] = nickname_index[n]
  BY <1>1, <1>2, <1>4 DEF TableTypes
<1>10. session_id' = session_id
  BY <1>6 DEF Closed
<1>11. TypeOK'
  <2>1. SessionTypes' /\ raced' \in BOOLEAN
    <3>1. open' = [s \in Sessions |-> open[s] /\ s \notin C] /\ cleanup(C) /\ raced' \in BOOLEAN
      BY <1>4 DEF close_session
    <3>2. open' \in [Sessions -> BOOLEAN]
      BY <3>1
    <3>3. registered' \in [Sessions -> BOOLEAN]
      BY <1>1, <3>1 DEF cleanup, SessionTypes
    <3>4. /\ nickname' \in [Sessions -> Nicknames \cup {NoName}]
          /\ zone_id' \in [Sessions -> {-1, Default}]
      BY <1>1, <3>1 DEF cleanup, SessionTypes
    <3> QED
      BY <1>1, <1>10, <3>1, <3>2, <3>3, <3>4 DEF SessionTypes
  <2>2. bucket' \in [Ids -> Sessions \cup {None}]
    BY <1>1, <1>4 DEF close_session, TableTypes
  <2>3. zone' \in [Ids -> Sessions \cup {None}]
    BY <1>1, <1>4 DEF close_session, LeaveZone, Erased, TableTypes
  <2>4. Cardinality(Members') <= max_sessions
    BY <1>1, <1>6, MembersShrink DEF Closed
  <2>5. TableTypes'
    BY <1>9, <2>2, <2>3, <2>4 DEF TableTypes
  <2>6. LoginTypes'
    BY <1>1, <1>4 DEF LoginTypes
  <2> QED
    BY <1>5, <2>1, <2>5, <2>6, NextTypes DEF FlagTypes
<1>12. Asked'
  BY <1>4, <1>8, <1>10 DEF IInv, Asked
<1>13. ASSUME NEW s \in Sessions, nickname_index[j.nick] = s, s # j.sess PROVE s \in C
  BY <1>3, <1>13 DEF Namesake
<1>14. Standing'
  <2> SUFFICES ASSUME ~raced', NEW u \in Threads, pc'[u] # "idle"
               PROVE  /\ open'[job'[u].sess]
                      /\ pc'[u] = "name" => nickname_index'[job'[u].nick] = job'[u].sess
                      /\ pc'[u] = "zone" => zone'[session_id'[job'[u].sess]] = job'[u].sess
    BY DEF Standing
  <2>1. /\ pc[u] # "idle" /\ job'[u] = job[u] /\ job[u] \in Jobs /\ ~raced
        /\ job[u].sess \notin C /\ session_id[job[u].sess] # 0
    BY <1>4, <1>6, <1>8 DEF IInv, Asked, Spared
  <2>2. job[u].sess \in Sessions /\ job[u].nick \in Nicknames
    BY <2>1 DEF Jobs
  <2>3. /\ open[job[u].sess]
        /\ pc[u] = "name" => nickname_index[job[u].nick] = job[u].sess
        /\ pc[u] = "zone" => zone[session_id[job[u].sess]] = job[u].sess
    BY <2>1 DEF IInv, Standing
  <2>4. open'[job[u].sess]
    BY <1>6, <2>1, <2>2, <2>3 DEF Closed
  <2>5. pc'[u] = "name" => nickname_index'[job[u].nick] = job[u].sess
    <3>1. CASE u = t
      BY <1>2, <1>9, <3>1
    <3>2. CASE u # t /\ job[u].nick # j.nick
      BY <1>8, <1>9, <2>2, <2>3, <3>2
    <3>3. CASE u # t /\ job[u].nick = j.nick
      BY <1>8, <1>9, <1>13, <2>1, <2>2, <2>3, <3>3
    <3> QED
      BY <3>1, <3>2, <3>3
  <2>6. pc'[u] = "zone" => zone'[session_id[job[u].sess]] = job[u].sess
    <3>1. pc'[u] = "zone" => pc[u] = "zone"
      BY <1>8
    <3> QED
      BY <1>6, <2>1, <2>2, <2>3, <3>1 DEF Spared
  <2> QED
    BY <1>10, <2>1, <2>4, <2>5, <2>6
<1>15. UniqueLogin'
  <2> SUFFICES ASSUME ~raced', NEW s \in Sessions, nickname'[s] # NoName
               PROVE  open'[s] /\ nickname_index'[nickname'[s]] = s
    BY DEF UniqueLogin
  <2>1. s \notin C /\ nickname'[s] = nickname[s] /\ ~raced
    BY <1>6 DEF Closed, Spared
  <2>2. open[s] /\ nickname_index[nickname[s]] = s /\ nickname[s] \in Nicknames
    BY <1>1, <2>1 DEF IInv, UniqueLogin, SessionTypes
  <2>3. open'[s]
    BY <1>6, <2>1, <2>2 DEF Closed
  <2>4. CASE nickname[s] = j.nick
    BY <1>9, <1>13, <2>1, <2>2, <2>3, <2>4
  <2>5. CASE nickname[s] # j.nick
    BY <1>9, <2>1, <2>2, <2>3, <2>5
  <2> QED
    BY <2>4, <2>5
<1>16. ZoneSound'
  <2>1. ASSUME ~raced', NEW id \in Members'
        PROVE  zone_id'[zone'[id]] = Default \/
                 \E u \in Threads : pc'[u] = "zone" /\ job'[u].sess = zone'[id]
    <3>1. id \in Members /\ zone'[id] = zone[id] /\ zone[id] \in Sessions /\ zone[id] \notin C /\ ~raced
      BY <1>6, <1>7, <2>1 DEF Spared
    <3>2. CASE zone_id[zone[id]] = Default
      BY <1>6, <3>1, <3>2 DEF Closed
    <3>3. CASE \E u \in Threads : pc[u] = "zone" /\ job[u].sess = zone[id]
      BY <1>4, <1>8, <3>1, <3>3
    <3> QED
      BY <3>1, <3>2, <3>3 DEF IInv, ZoneSound
  <2> QED
    BY <1>7, <2>1 DEF ZoneSound
<1> QED
  BY <1>7, <1>11, <1>12, <1>14, <1>15, <1>16 DEF IInv

LEMMA SetNicknameInv == ASSUME IInv, NEW t \in Threads, SetNickname(t) PROVE IInv'
<1> USE LoginAssumption
<1>1. SessionTypes /\ TableTypes /\ LoginTypes /\ FlagTypes
  BY Types DEF IInv
<1>2. PICK j \in Jobs : j = job[t] /\ j.sess \in Sessions /\ j.nick \in Nicknames
  BY DEF IInv, Asked, SetNickname, Jobs
<1>3. /\ pc[t] = "name" /\ nickname' = [nickname EXCEPT ![j.sess] = j.nick]
      /\ registered' = [registered EXCEPT ![j.sess] = TRUE] /\ pc' = [pc EXCEPT ![t] = "assign"]
      /\ open' = open /\ session_id' = session_id /\ zone_id' = zone_id /\ bucket' = bucket
      /\ nickname_index' = nickname_index /\ zone' = zone /\ requests' = requests /\ job' = job
      /\ prev' = prev /\ next_id' = next_id /\ raced' = raced /\ wronged' = wronged
  BY <1>2 DEF SetNickname
<1>4. pc'[t] = "assign" /\ \A u \in Threads : u # t => pc'[u] = pc[u]
  BY <1>1, <1>3 DEF LoginTypes
<1>5. TypeOK'
  <2>1. registered' \in [Sessions -> BOOLEAN]
    BY <1>1, <1>3 DEF SessionTypes
  <2>2. nickname' \in [Sessions -> Nicknames \cup {NoName}]
    BY <1>1, <1>2, <1>3 DEF SessionTypes
  <2>3. SessionTypes'
    BY <1>1, <1>3, <2>1, <2>2 DEF SessionTypes
  <2>4. TableTypes'
    BY <1>1, <1>3 DEF TableTypes, Members
  <2>5. LoginTypes' /\ FlagTypes'
    BY <1>1, <1>3 DEF LoginTypes, FlagTypes
  <2> QED
    BY <2>3, <2>4, <2>5, NextTypes
<1>6. Identified' /\ Asked' /\ Standing'
  BY <1>3, <1>4 DEF IInv, Identified, Asked, Standing
<1>7. UniqueLogin'
  <2> SUFFICES ASSUME ~raced, NEW s \in Sessions, nickname'[s] # NoName
               PROVE  open[s] /\ nickname_index[nickname'[s]] = s
    BY <1>3 DEF UniqueLogin
  <2>1. CASE s = j.sess
    <3>1. nickname'[s] = j.nick
      BY <1>1, <1>3, <2>1 DEF SessionTypes
    <3> QED
      BY <1>2, <1>3, <2>1, <3>1 DEF IInv, Standing
  <2>2. CASE s # j.sess
    <3>1. nickname'[s] = nickname[s]
      BY <1>1, <1>3, <2>2 DEF SessionTypes
    <3> QED
      BY <3>1 DEF IInv, UniqueLogin
  <2> QED
    BY <2>1, <2>2
<1>8. ZoneSound'
  <2>1. \A u \in Threads : pc[u] = "zone" => pc'[u] = "zone"
    BY <1>3, <1>4
  <2>2. Members' = Members
    BY <1>3 DEF Members
  <2> QED
    BY <1>3, <2>1, <2>2 DEF IInv, ZoneSound
<1> QED
  BY <1>5, <1>6, <1>7, <1>8 DEF IInv

\* Zone::add_session, refused where the zone is full or has the id already.
LEMMA AddToZoneInv == ASSUME IInv, NEW t \in Threads, AddToZone(t) PROVE IInv'
<1> USE LoginAssumption
<1>1. SessionTypes /\ TableTypes /\ LoginTypes /\ FlagTypes /\ Identified
  BY Types DEF IInv
<1>2. PICK s \in Sessions : s = job[t].sess /\ session_id[s] # 0 /\ session_id[s] \in Ids
  BY <1>1, IdFacts DEF IInv, Asked, AddToZone, Jobs
<1>3. /\ pc[t] = "assign" /\ open' = open /\ session_id' = session_id /\ nickname' = nickname
      /\ registered' = registered /\ zone_id' = zone_id /\ bucket' = bucket
      /\ nickname_index' = nickname_index /\ requests' = requests /\ prev' = prev
      /\ next_id' = next_id /\ raced' = raced /\ wronged' = wronged
  BY DEF AddToZone, sessVars
<1>4. SessionTypes' /\ FlagTypes' /\ Identified' /\ UniqueLogin'
  <2>1. SessionTypes' /\ FlagTypes'
    BY <1>1, <1>3 DEF SessionTypes, FlagTypes
  <2>2. Identified' /\ UniqueLogin'
    BY <1>3 DEF IInv, Identified, UniqueLogin
  <2> QED
    BY <2>1, <2>2
<1>5. CASE /\ Room(s) /\ zone' = [zone EXCEPT ![session_id[s]] = s]
           /\ pc' = [pc EXCEPT ![t] = "zone"] /\ job' = job
  <2>1. pc'[t] = "zone" /\ \A u \in Threads : u # t => pc'[u] = pc[u]
    BY <1>1, <1>5 DEF LoginTypes
  <2>2. zone'[session_id[s]] = s /\ \A id \in Ids : id # session_id[s] => zone'[id] = zone[id]
    BY <1>1, <1>2, <1>5 DEF TableTypes
  <2>3. Members' = Members \cup {session_id[s]} /\ session_id[s] \notin Members
    BY <1>2, <1>5, <2>2 DEF Members, Room
  <2>4. Cardinality(Members') <= max_sessions
    <3>1. Cardinality(Members \cup {session_id[s]}) = Cardinality(Members) + 1
      BY <2>3, MembersFinite, FS_AddElement
    <3> QED
      BY <1>5, <2>3, <3>1, MembersFinite DEF Room
  <2>5. TableTypes' /\ LoginTypes'
    BY <1>1, <1>2, <1>3, <1>5, <2>4 DEF TableTypes, LoginTypes
  <2>6. Asked'
    BY <1>3, <1>5, <2>1 DEF IInv, Asked
  <2>7. CASE raced
    BY <1>3, <1>4, <2>5, <2>6, <2>7, NextTypes DEF IInv, Standing, ZoneSound
  <2>8. CASE ~raced
    <3>1. open[s]
      BY <1>2, <1>3, <2>8 DEF IInv, Standing
    <3>2. Standing'
      <4>1. ASSUME NEW u \in Threads, pc'[u] = "zone"
            PROVE  zone'[session_id[job[u].sess]] = job[u].sess
        <5>1. CASE job[u].sess = s
          BY <2>2, <5>1
        <5>2. CASE job[u].sess # s
          <6>1. u # t /\ pc[u] = "zone"
            BY <1>2, <2>1, <4>1, <5>2
          <6>2. /\ zone[session_id[job[u].sess]] = job[u].sess /\ job[u].sess \in Sessions
                /\ session_id[job[u].sess] # 0
            BY <2>8, <6>1 DEF IInv, Standing, Asked, Jobs
          <6>3. session_id[job[u].sess] \in Ids /\ session_id[job[u].sess] # session_id[s]
            BY <1>1, <1>2, <5>2, <6>2, IdFacts DEF Identified
          <6> QED
            BY <2>2, <6>2, <6>3
        <5> QED
          BY <5>1, <5>2
      <4> QED
        BY <1>3, <1>5, <2>1, <2>8, <4>1 DEF IInv, Standing
    <3>3. ZoneSound'
      <4>1. ASSUME NEW id \in Members'
            PROVE  /\ open[zone'[id]] /\ session_id[zone'[id]] = id
                   /\ zone_id[zone'[id]] = Default \/
                        \E u \in Threads : pc'[u] = "zone" /\ job[u].sess = zone'[id]
        <5>1. CASE id = session_id[s]
          BY <1>2, <2>1, <2>2, <3>1, <5>1
        <5>2. CASE id # session_id[s]
          <6>1. id \in Members /\ id \in Ids /\ zone'[id] = zone[id]
            BY <2>2, <2>3, <4>1, <5>2 DEF Members
          <6>2. \A u \in Threads : pc[u] = "zone" => pc'[u] = "zone"
            BY <2>1
          <6> QED
            BY <2>8, <6>1, <6>2 DEF IInv, ZoneSound
        <5> QED
          BY <5>1, <5>2
      <4>2. ASSUME NEW r \in Sessions, zone_id[r] = Default PROVE open[r] /\ zone'[session_id[r]] = r
        <5>1. open[r] /\ zone[session_id[r]] = r /\ session_id[r] # 0 /\ session_id[r] \in Ids
          BY <1>1, <2>8, <4>2, IdFacts DEF IInv, ZoneSound, Identified
        <5>2. session_id[r] # session_id[s]
          BY <1>5, <5>1 DEF Room
        <5> QED
          BY <2>2, <5>1, <5>2
      <4> QED
        BY <1>3, <1>5, <4>1, <4>2 DEF ZoneSound
    <3> QED
      BY <1>4, <2>5, <2>6, <3>2, <3>3, NextTypes DEF IInv
  <2> QED
    BY <2>7, <2>8
<1>6. CASE /\ pc' = [pc EXCEPT ![t] = "idle"] /\ job' = [job EXCEPT ![t] = None] /\ zone' = zone
  <2>1. pc'[t] = "idle" /\ \A u \in Threads : u # t => pc'[u] = pc[u] /\ job'[u] = job[u]
    BY <1>1, <1>6 DEF LoginTypes
  <2>2. Members' = Members
    BY <1>6 DEF Members
  <2>3. TableTypes' /\ LoginTypes'
    BY <1>1, <1>3, <1>6, <2>2 DEF TableTypes, LoginTypes
  <2>4. Asked' /\ Standing'
    BY <1>3, <1>6, <2>1 DEF IInv, Asked, Standing
  <2>5. \A u \in Threads : pc[u] = "zone" => pc'[u] = "zone" /\ job'[u] = job[u]
    BY <1>3, <2>1
  <2>6. ZoneSound'
    BY <1>3, <1>6, <2>2, <2>5 DEF IInv, ZoneSound
  <2> QED
    BY <1>4, <2>3, <2>4, <2>6, NextTypes DEF IInv
<1> QED
  BY <1>2, <1>5, <1>6 DEF AddToZone

LEMMA SetZoneInv == ASSUME IInv, NEW t \in Threads, SetZone(t) PROVE IInv'
<1> USE LoginAssumption
<1>1. SessionTypes /\ TableTypes /\ LoginTypes /\ FlagTypes /\ Identified
  BY Types DEF IInv
<1>2. PICK s \in Sessions : s = job[t].sess
  BY DEF IInv, Asked, SetZone, Jobs
<1>3. /\ pc[t] = "zone" /\ zone_id' = [zone_id EXCEPT ![s] = Default]
      /\ pc' = [pc EXCEPT ![t] = "idle"] /\ job' = [job EXCEPT ![t] = None]
      /\ open' = open /\ session_id' = session_id /\ nickname' = nickname
      /\ registered' = registered /\ bucket' = bucket
      /\ nickname_index' = nickname_index /\ zone' = zone /\ requests' = requests /\ prev' = prev
      /\ next_id' = next_id /\ raced' = raced /\ wronged' = wronged
  BY <1>2 DEF SetZone
<1>4. pc'[t] = "idle" /\ \A u \in Threads : u # t => pc'[u] = pc[u] /\ job'[u] = job[u]
  BY <1>1, <1>3 DEF LoginTypes
<1>5. zone_id'[s] = Default /\ \A r \in Sessions : r # s => zone_id'[r] = zone_id[r]
  BY <1>1, <1>3 DEF SessionTypes
<1>6. Members' = Members
  BY <1>3 DEF Members
<1>7. TypeOK'
  <2>1. zone_id' \in [Sessions -> {-1, Default}]
    BY <1>1, <1>3 DEF SessionTypes
  <2>2. SessionTypes'
    BY <1>1, <1>3, <2>1 DEF SessionTypes
  <2>3. TableTypes' /\ LoginTypes' /\ FlagTypes'
    BY <1>1, <1>3, <1>6 DEF TableTypes, LoginTypes, FlagTypes
  <2> QED
    BY <2>2, <2>3, NextTypes
<1>8. Identified' /\ UniqueLogin'
  BY <1>3 DEF IInv, Identified, UniqueLogin
<1>9. Asked' /\ Standing'
  BY <1>3, <1>4 DEF IInv, Asked, Standing
<1>10. ZoneSound'
  <2> SUFFICES ASSUME ~raced PROVE ZoneSound'
    BY <1>3 DEF ZoneSound
  <2>1. open[s] /\ zone[session_id[s]] = s
    BY <1>2, <1>3 DEF IInv, Standing
  <2>2. \A r \in Sessions : zone_id'[r] = Default => open[r] /\ zone[session_id[r]] = r
    BY <1>5, <2>1 DEF IInv, ZoneSound
  <2>3. ASSUME NEW id \in Members
        PROVE  zone_id'[zone[id]] = Default \/
                 \E u \in Threads : pc'[u] = "zone" /\ job'[u].sess = zone[id]
    <3>1. zone[id] \in Sessions
      BY <1>1, <2>3 DEF TableTypes, Members
    <3>2. CASE zone[id] = s
      BY <1>5, <3>2
    <3>3. CASE zone[id] # s /\ zone_id[zone[id]] = Default
      BY <1>5, <3>1, <3>3
    <3>4. CASE zone[id] # s /\ \E u \in Threads : pc[u] = "zone" /\ job[u].sess = zone[id]
      BY <1>2, <1>4, <3>4
    <3> QED
      BY <3>2, <3>3, <3>4 DEF IInv, ZoneSound
  <2> QED
    BY <1>3, <1>6, <2>2, <2>3 DEF IInv, ZoneSound
<1> QED
  BY <1>7, <1>8, <1>9, <1>10 DEF IInv

-----------------------------------------------------------------------------
(* The theorems.                                                           *)

\* The invariant holds of every state.
THEOREM LoginInductive == Spec => []IInv
<1>1. Init => IInv
  BY InitInv
<1>2. IInv /\ [Next]_vars => IInv'
  <2> SUFFICES ASSUME IInv, [Next]_vars PROVE IInv'
    OBVIOUS
  <2>1. CASE Accept
    BY <2>1, AcceptInv
  <2>2. CASE Disconnect
    BY <2>2, DisconnectInv
  <2>3. CASE login_handler
    BY <2>3, LoginHandlerInv
  <2>4. CASE on_user_info_fail
    BY <2>4, InfoFailInv
  <2>5. ASSUME NEW t \in Threads, Complete(t) PROVE IInv'
    BY <2>5, InfoOkInv, EvictInv, RegisterInv, SetNicknameInv, AddToZoneInv, SetZoneInv DEF Complete
  <2>6. CASE UNCHANGED vars
    <3>1. UNCHANGED <<sessVars, bucket, nickname_index, zone, requests, pc, job, prev, next_id,
                      raced, wronged>>
      BY <2>6 DEF vars
    <3>2. TypeOK'
      BY <3>1 DEF IInv, TypeOK, sessVars, Members
    <3>3. Identified' /\ Asked' /\ Standing'
      BY <3>1 DEF IInv, Identified, Asked, Standing, sessVars
    <3>4. UniqueLogin' /\ ZoneSound'
      BY <3>1 DEF IInv, UniqueLogin, ZoneSound, sessVars, Members
    <3> QED
      BY <3>2, <3>3, <3>4 DEF IInv
  <2> QED
    BY <2>1, <2>2, <2>3, <2>4, <2>5, <2>6 DEF Next
<1> QED
  BY <1>1, <1>2, PTL DEF Spec

\* Types, and the limit that Zone::add_session keeps.
THEOREM LoginTypeOK == Spec => []TypeOK
<1>1. IInv => TypeOK
  BY DEF IInv
<1> QED
  BY <1>1, LoginInductive, PTL

\* While no connection closes before its login is complete, register_nickname
\* and set_nickname leave one bearer of a nickname, the one the index leads to.
THEOREM LoginUnique == Spec => []UniqueLogin
<1>1. IInv => UniqueLogin
  BY DEF IInv
<1> QED
  BY <1>1, LoginInductive, PTL

\* And the zone holds exactly the open connections that joined it.
THEOREM LoginZoneSound == Spec => []ZoneSound
<1>1. IInv => ZoneSound
  BY DEF IInv
<1> QED
  BY <1>1, LoginInductive, PTL
================================================================================
