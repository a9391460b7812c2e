------------------------ MODULE DBMiddlewareClientProofs ------------------------
(***************************************************************************)
(* The client to the DB middleware for any number of connections, refused  *)
(* logins, frames and heartbeats: one write at a time, a way back to a     *)
(* connection, a running heartbeat, and a stale connected_ found out.      *)
(***************************************************************************)
EXTENDS DBMiddlewareClient, SequenceTheorems, TLAPS

USE ClientAssumption DEF Ops, Frames

\* A connected client has a read outstanding, and one that has not completed
\* is on an open socket.
Reading ==
  /\ connected => ops["read"] + ops["read_ok"] + ops["read_failed"] > 0
  /\ ops["read"] > 0 => socket = "open"

IInv == TypeOK /\ OneWrite /\ NotStranded /\ HeartbeatAlive /\ Reading

-----------------------------------------------------------------------------
(* The bag of operations.                                                  *)

\* A bag of operations.
Bag == [Ops -> Nat]

\* Adding one operation.
LEMMA AddBag ==
  ASSUME NEW o \in Bag, NEW k \in Ops
  PROVE  Add(o, k) \in Bag /\ Add(o, k)[k] = o[k] + 1
         /\ \A j \in Ops \ {k} : Add(o, k)[j] = o[j]
BY DEF Bag, Add

\* Taking one that is there.
LEMMA LessBag ==
  ASSUME NEW o \in Bag, NEW k \in Ops, o[k] > 0
  PROVE  Less(o, k) \in Bag /\ Less(o, k)[k] = o[k] - 1
         /\ \A j \in Ops \ {k} : Less(o, k)[j] = o[j]
BY DEF Bag, Less

\* Arming a timer.
LEMMA ArmBag ==
  ASSUME NEW o \in Bag, NEW k \in Ops
  PROVE  Arm(o, k) \in Bag /\ Arm(o, k)[k] = 1
         /\ \A j \in Ops \ {k} : Arm(o, k)[j] = o[j]
BY DEF Bag, Arm

\* Closing the socket moves live operations to failed ones and loses none.
LEMMA AbortBag ==
  ASSUME NEW o \in Bag
  PROVE  /\ Abort(o) \in Bag
         /\ \A k \in {"connect", "read", "write"} : Abort(o)[k] = 0
         /\ Abort(o)["connect_failed"] = o["connect_failed"] + o["connect"]
         /\ Abort(o)["read_failed"] = o["read_failed"] + o["read"]
         /\ Abort(o)["write_failed"] = o["write_failed"] + o["write"]
         /\ \A k \in Ops \ {"connect", "read", "write", "connect_failed", "read_failed",
                            "write_failed"} : Abort(o)[k] = o[k]
BY DEF Bag, Abort

\* The writes in a bag, and the other operations of two bags alike.
WritesIn(o) == o["write"] + o["write_ok"] + o["write_failed"]
AlikeBut(o, p, K) == \A k \in Ops \ K : o[k] = p[k]

\* Starting a write or a read adds one of its kind.
LEMMA StartBag ==
  ASSUME NEW o \in Bag
  PROVE  /\ StartWrite(o) \in Bag /\ WritesIn(StartWrite(o)) = WritesIn(o) + 1
         /\ AlikeBut(StartWrite(o), o, {"write", "write_failed"})
         /\ StartRead(o) \in Bag /\ AlikeBut(StartRead(o), o, {"read", "read_failed"})
         /\ socket = "open" => StartRead(o)["read"] = o["read"] + 1
                               /\ StartRead(o)["read_failed"] = o["read_failed"]
         /\ socket # "open" => StartRead(o)["read"] = o["read"]
                               /\ StartRead(o)["read_failed"] = o["read_failed"] + 1
BY DEF Bag, StartWrite, StartRead, Add, WritesIn, AlikeBut

\* A push and the write it may start: still one write, of a frame that is
\* queued, and no other operation.
LEMMA PushOnce ==
  ASSUME TypeOK, NEW frame \in Frames, Push(frame), NEW o \in Bag,
         WritesIn(o) <= 1, WritesIn(o) = 1 => write_in_progress /\ write_queue # <<>>
  PROVE  /\ write_queue' \in Seq(Frames) /\ write_queue' # <<>>
         /\ write_in_progress' \in BOOLEAN
         /\ Flush(o) \in Bag /\ AlikeBut(Flush(o), o, {"write", "write_failed"})
         /\ WritesIn(Flush(o)) <= 1 /\ (WritesIn(Flush(o)) = 1 => write_in_progress')
         /\ Flush(o)["write_failed"] >= o["write_failed"]
<1>1. write_queue' \in Seq(Frames) /\ write_queue' # <<>>
  BY DEF Push, TypeOK
<1>2. write_in_progress' \in BOOLEAN
  BY DEF Push
<1>3. CASE write_queue = <<>> /\ ~write_in_progress
  <2>1. Flush(o) = StartWrite(o) /\ write_in_progress'
    BY <1>3 DEF Flush, Push
  <2>2. WritesIn(o) = 0
    BY <1>3 DEF Bag, WritesIn
  <2>3. StartWrite(o)["write_failed"] >= o["write_failed"]
    BY DEF StartWrite, Add, Bag
  <2> QED
    BY <1>1, <1>2, <2>1, <2>2, <2>3, StartBag
<1>4. CASE ~(write_queue = <<>> /\ ~write_in_progress)
  <2>1. Flush(o) = o
    BY <1>4 DEF Flush
  <2>2. WritesIn(o) = 1 => write_in_progress'
    BY DEF Push
  <2> QED
    BY <1>1, <1>2, <2>1, <2>2 DEF AlikeBut, Bag
<1> QED
  BY <1>3, <1>4

-----------------------------------------------------------------------------
(* The invariant.                                                          *)

\* The client starts in the invariant, with a resolve under way.
LEMMA InitInv == Init => IInv
<1> SUFFICES ASSUME Init PROVE IInv
  OBVIOUS
<1>1. stopping \in BOOLEAN /\ connected \in BOOLEAN /\ authed \in BOOLEAN
      /\ write_in_progress \in BOOLEAN
  BY DEF Init
<1>2. TypeOK
  BY <1>1 DEF Init, TypeOK
<1>3. OneWrite /\ Reading
  BY DEF Init, OneWrite, Writes, Reading
<1>4. NotStranded /\ HeartbeatAlive
  BY DEF Init, NotStranded, HeartbeatAlive, Some
<1> QED
  BY <1>2, <1>3, <1>4 DEF IInv

\* The router's frames: a push starts a write only on an idle queue.
LEMMA SendDataInv == IInv /\ SendData => IInv'
<1> SUFFICES ASSUME IInv, SendData PROVE IInv'
  OBVIOUS
<1> USE DEF IInv, SendData, flagVars, queueVars
<1>1. CASE ~connected
  BY <1>1 DEF TypeOK, OneWrite, Writes, NotStranded, HeartbeatAlive, Some, Reading
<1>2. CASE connected
  <2>1. Push("data") /\ ops' = Flush(ops) /\ ops \in Bag
    BY <1>2 DEF TypeOK, Bag
  <2>2. WritesIn(ops) <= 1 /\ (WritesIn(ops) = 1 => write_in_progress /\ write_queue # <<>>)
    BY DEF OneWrite, Writes, WritesIn
  <2>3. /\ write_queue' \in Seq(Frames) /\ write_queue' # <<>> /\ write_in_progress' \in BOOLEAN
        /\ ops' \in Bag /\ AlikeBut(ops', ops, {"write", "write_failed"})
        /\ WritesIn(ops') <= 1 /\ (WritesIn(ops') = 1 => write_in_progress')
    BY <2>1, <2>2, PushOnce
  <2>4. TypeOK'
    BY <2>3 DEF TypeOK, Bag, AlikeBut
  <2>5. OneWrite'
    BY <2>3 DEF OneWrite, Writes, WritesIn
  <2>6. Reading'
    BY <2>3 DEF Reading, AlikeBut
  <2>7. NotStranded' /\ HeartbeatAlive'
    BY <1>2, <2>3 DEF NotStranded, HeartbeatAlive, Some, AlikeBut
  <2> QED
    BY <2>4, <2>5, <2>6, <2>7
<1> QED
  BY <1>1, <1>2

\* The handler of a write that succeeded: the frame goes, the next is started.
LEMMA WriteDoneInv == IInv /\ WriteDone => IInv'
<1> SUFFICES ASSUME IInv, WriteDone PROVE IInv'
  OBVIOUS
<1> DEFINE o == Less(ops, "write_ok")
<1>1. ops \in Bag /\ ops["write_ok"] > 0
  BY DEF IInv, WriteDone, TypeOK, Bag
<1>2. o \in Bag /\ AlikeBut(o, ops, {"write_ok"}) /\ WritesIn(o) = WritesIn(ops) - 1
  <2>1. o \in Bag /\ o["write_ok"] = ops["write_ok"] - 1 /\ AlikeBut(o, ops, {"write_ok"})
    BY <1>1, LessBag DEF AlikeBut
  <2> QED
    BY <1>1, <2>1 DEF AlikeBut, WritesIn, Bag
<1>3. WritesIn(o) = 0 /\ write_queue # <<>>
  <2>1. WritesIn(ops) \in Nat /\ WritesIn(ops) > 0
    BY <1>1 DEF WritesIn, Bag
  <2>2. WritesIn(ops) = 1 /\ write_queue # <<>>
    BY <2>1 DEF IInv, OneWrite, Writes, WritesIn
  <2> QED
    BY <1>2, <2>2
<1>4. write_queue' \in Seq(Frames) /\ write_in_progress' = (write_queue' # <<>>)
  BY <1>3 DEF IInv, WriteDone, TypeOK
<1>5. /\ ops' \in Bag /\ AlikeBut(ops', ops, {"write", "write_ok", "write_failed"})
      /\ WritesIn(ops') = IF write_queue' = <<>> THEN 0 ELSE 1
      /\ ops'["write_failed"] >= ops["write_failed"]
  <2>1. CASE write_queue' = <<>>
    <3>1. ops' = o
      BY <2>1 DEF WriteDone
    <3> QED
      BY <1>1, <2>1, <3>1, <1>2, <1>3 DEF AlikeBut, Bag
  <2>2. CASE write_queue' # <<>>
    <3>1. ops' = StartWrite(o)
      BY <2>2 DEF WriteDone
    <3>2. StartWrite(o)["write_failed"] >= o["write_failed"] /\ o["write_failed"] = ops["write_failed"]
      BY <1>2 DEF StartWrite, Add, Bag, AlikeBut
    <3>3. /\ StartWrite(o) \in Bag /\ WritesIn(StartWrite(o)) = 1
          /\ AlikeBut(StartWrite(o), o, {"write", "write_failed"})
      BY <1>2, <1>3, StartBag
    <3>4. AlikeBut(StartWrite(o), ops, {"write", "write_ok", "write_failed"})
      BY <3>3, <1>2 DEF AlikeBut
    <3> QED
      BY <2>2, <3>1, <3>2, <3>3, <3>4
  <2> QED
    BY <2>1, <2>2
<1>6. UNCHANGED <<stopping, connected, authed, socket, received, connects, ngs, data, missed>>
  BY DEF WriteDone, flagVars, peerVars
<1> HIDE DEF o
<1>7. TypeOK'
  <2>1. write_in_progress' \in BOOLEAN
    BY <1>4
  <2> QED
    BY <1>4, <1>5, <1>6, <2>1 DEF IInv, TypeOK, AlikeBut, Bag
<1>8. OneWrite'
  <2>1. write_queue' # <<>> => write_in_progress'
    BY <1>4
  <2> QED
    BY <2>1, <1>5 DEF OneWrite, Writes, WritesIn
<1>9. Reading'
  BY <1>5, <1>6 DEF IInv, Reading, AlikeBut
<1>10. NotStranded'
  BY <1>1, <1>5, <1>6 DEF IInv, NotStranded, Some, AlikeBut, Bag
<1>11. HeartbeatAlive'
  BY <1>5, <1>6 DEF IInv, HeartbeatAlive, Some, AlikeBut
<1> QED
  BY <1>7, <1>8, <1>9, <1>10, <1>11 DEF IInv

\* What stays as it is when a socket is closed in a handler taken from o: the
\* write that may be outstanding is one that failed, its frame is still queued.
LEMMA CloseInv ==
  ASSUME IInv, NEW o \in Bag, AlikeBut(o, ops, {"read_ok", "read_failed", "write_failed"}),
         o["write_failed"] <= ops["write_failed"],
         CloseAndReconnect(o), data' \in Nat,
         UNCHANGED <<stopping, authed, received, connects, ngs, missed>>
  PROVE  IInv'
<1> USE DEF IInv, CloseAndReconnect, close_socket, queueVars
<1> DEFINE a == Abort(o)
<1>1. a \in Bag /\ a["read"] = 0 /\ WritesIn(a) = WritesIn(o)
      /\ AlikeBut(a, o, {"connect", "read", "write", "connect_failed", "read_failed",
                         "write_failed"})
  BY AbortBag DEF AlikeBut, WritesIn, Bag
<1>2. WritesIn(o) <= 1 /\ (WritesIn(o) = 1 => write_in_progress /\ write_queue # <<>>)
  <2>1. ops \in Bag
    BY DEF TypeOK, Bag
  <2>2. WritesIn(o) <= WritesIn(ops) /\ WritesIn(o) \in Nat /\ WritesIn(ops) \in Nat
    BY <2>1 DEF WritesIn, AlikeBut, Bag
  <2> QED
    BY <2>2 DEF OneWrite, Writes, WritesIn
<1> HIDE DEF a
<1>3. /\ ops' \in Bag /\ AlikeBut(ops', a, {"reconnect_timer"})
      /\ ops'["reconnect_timer"] <= 1 /\ (~stopping => ops'["reconnect_timer"] = 1)
  <2>1. ops' = schedule_reconnect(a)
    BY DEF a
  <2>2. a["reconnect_timer"] <= 1
    BY <1>1 DEF AlikeBut, TypeOK
  <2> QED
    BY <1>1, <2>1, <2>2, ArmBag DEF schedule_reconnect, AlikeBut
<1>4. TypeOK'
  <2>1. connected' \in BOOLEAN
    OBVIOUS
  <2> QED
    BY <1>1, <1>3, <2>1 DEF TypeOK, AlikeBut, Bag
<1>5. OneWrite'
  BY <1>1, <1>2, <1>3 DEF OneWrite, Writes, WritesIn, AlikeBut
<1>6. Reading'
  BY <1>1, <1>3 DEF Reading, AlikeBut
<1>7. NotStranded' /\ HeartbeatAlive'
  BY <1>3 DEF NotStranded, HeartbeatAlive, Some
<1> QED
  BY <1>4, <1>5, <1>6, <1>7

\* The handlers of failed writes and reads.
LEMMA ErrorInv == IInv /\ (WriteError \/ ReadError) => IInv'
<1> SUFFICES ASSUME IInv, WriteError \/ ReadError PROVE IInv'
  OBVIOUS
<1>1. ops \in Bag
  BY DEF IInv, TypeOK, Bag
<1>2. PICK k \in {"write_failed", "read_failed", "read_ok"} :
        /\ ops[k] > 0 /\ CloseAndReconnect(Less(ops, k))
        /\ UNCHANGED <<stopping, authed, peerVars, missed>>
  BY DEF WriteError, ReadError
<1>3. /\ Less(ops, k) \in Bag
      /\ AlikeBut(Less(ops, k), ops, {"read_ok", "read_failed", "write_failed"})
      /\ Less(ops, k)["write_failed"] <= ops["write_failed"]
  BY <1>1, <1>2, LessBag DEF AlikeBut, Bag
<1>4. data' \in Nat /\ UNCHANGED <<stopping, authed, received, connects, ngs, missed>>
  BY <1>2 DEF IInv, TypeOK, peerVars
<1> QED
  BY <1>2, <1>3, <1>4, CloseInv

\* A send_json that threw closes the socket outside every handler.
LEMMA SendFailsInv == IInv /\ SendFails => IInv'
<1> SUFFICES ASSUME IInv, SendFails PROVE IInv'
  OBVIOUS
<1>1. ops \in Bag /\ data' \in Nat
  BY DEF IInv, TypeOK, Bag, SendFails
<1>2. AlikeBut(ops, ops, {"read_ok", "read_failed", "write_failed"})
      /\ ops["write_failed"] <= ops["write_failed"]
  BY <1>1 DEF AlikeBut, Bag
<1> QED
  BY <1>1, <1>2, CloseInv DEF SendFails

\* The connect handler of ResolveDone: the old socket's operations fail, the
\* attempt is under way; a resolve that failed leads to the reconnect timer.
LEMMA ResolveDoneInv == IInv /\ ResolveDone => IInv'
<1> SUFFICES ASSUME IInv, ResolveDone PROVE IInv'
  OBVIOUS
<1> DEFINE o == Less(ops, "resolve")
<1>1. ops \in Bag /\ ops["resolve"] > 0
      /\ ops["reconnect_timer"] <= 1 /\ ops["heartbeat_timer"] <= 1
  BY DEF IInv, ResolveDone, TypeOK, Bag
<1>2. o \in Bag /\ AlikeBut(o, ops, {"resolve"})
  BY <1>1, LessBag DEF AlikeBut
<1>3. UNCHANGED <<stopping, authed, write_queue, write_in_progress, received, connects, ngs, data,
                  missed>>
  BY DEF ResolveDone, queueVars, peerVars
<1>4. CASE socket' = "connecting" /\ ops' = Add(Abort(o), "connect") /\ UNCHANGED connected
  <2>1. /\ Abort(o) \in Bag /\ WritesIn(Abort(o)) = WritesIn(o)
        /\ Abort(o)["read"] = 0 /\ Abort(o)["connect"] = 0
        /\ Abort(o)["read_failed"] = o["read_failed"] + o["read"]
        /\ AlikeBut(Abort(o), o, {"connect", "read", "write", "connect_failed", "read_failed",
                                  "write_failed"})
    BY <1>2, AbortBag DEF AlikeBut, WritesIn, Bag
  <2> HIDE DEF o
  <2>2. ops' \in Bag /\ ops'["connect"] > 0 /\ AlikeBut(ops', Abort(o), {"connect"})
    <3>1. /\ Add(Abort(o), "connect") \in Bag /\ Add(Abort(o), "connect")["connect"] = 0 + 1
          /\ AlikeBut(Add(Abort(o), "connect"), Abort(o), {"connect"})
      BY <2>1, AddBag DEF AlikeBut
    <3> QED
      BY <1>4, <3>1
  <2>3. TypeOK'
    <3>1. ops'["reconnect_timer"] <= 1 /\ ops'["heartbeat_timer"] <= 1
      BY <1>1, <1>2, <2>1, <2>2 DEF AlikeBut
    <3> QED
      BY <1>3, <1>4, <2>2, <3>1 DEF IInv, TypeOK, Bag
  <2>4. OneWrite'
    <3>1. WritesIn(ops') = WritesIn(ops)
      BY <1>2, <2>1, <2>2 DEF WritesIn, AlikeBut
    <3> QED
      BY <1>3, <3>1 DEF IInv, OneWrite, Writes, WritesIn
  <2>5. Reading'
    BY <1>1, <1>2, <1>4, <2>1, <2>2 DEF IInv, Reading, AlikeBut, Bag
  <2>6. NotStranded'
    BY <2>2 DEF NotStranded, Some
  <2>7. HeartbeatAlive'
    BY <1>2, <1>3, <1>4, <2>1, <2>2 DEF IInv, HeartbeatAlive, Some, AlikeBut
  <2> QED
    BY <2>3, <2>4, <2>5, <2>6, <2>7 DEF IInv
<1>5. CASE connected' = FALSE /\ UNCHANGED socket /\ ops' = schedule_reconnect(o)
  <2> HIDE DEF o
  <2>1. /\ ops' \in Bag /\ AlikeBut(ops', o, {"reconnect_timer"})
        /\ ops'["reconnect_timer"] <= 1 /\ (~stopping => ops'["reconnect_timer"] = 1)
    BY <1>1, <1>2, <1>5, ArmBag DEF schedule_reconnect, AlikeBut
  <2>2. TypeOK'
    <3>1. connected' \in BOOLEAN
      BY <1>5
    <3> QED
      BY <1>1, <1>2, <1>3, <1>5, <2>1, <3>1 DEF IInv, TypeOK, AlikeBut, Bag
  <2>3. OneWrite'
    <3>1. WritesIn(ops') = WritesIn(ops)
      BY <1>2, <2>1 DEF WritesIn, AlikeBut
    <3> QED
      BY <1>3, <3>1 DEF IInv, OneWrite, Writes, WritesIn
  <2>4. Reading'
    BY <1>2, <1>5, <2>1 DEF IInv, Reading, AlikeBut
  <2>5. NotStranded' /\ HeartbeatAlive'
    BY <1>3, <1>5, <2>1 DEF NotStranded, HeartbeatAlive, Some
  <2> QED
    BY <2>2, <2>3, <2>4, <2>5 DEF IInv
<1> QED
  BY <1>4, <1>5 DEF ResolveDone

\* The connect handler: the login is queued, a read and the heartbeat start.
LEMMA ConnectDoneInv == IInv /\ ConnectDone => IInv'
<1> SUFFICES ASSUME IInv, ConnectDone PROVE IInv'
  OBVIOUS
<1> DEFINE o == Less(ops, "connect_ok")
           f == Flush(o)
           r == StartRead(f)
<1>1. ops \in Bag /\ ops["connect_ok"] > 0
      /\ ops["reconnect_timer"] <= 1 /\ ops["heartbeat_timer"] <= 1
  BY DEF IInv, ConnectDone, TypeOK, Bag
<1>2. o \in Bag /\ AlikeBut(o, ops, {"connect_ok"})
  BY <1>1, LessBag DEF AlikeBut
<1>3. WritesIn(o) <= 1 /\ (WritesIn(o) = 1 => write_in_progress /\ write_queue # <<>>)
  <2>1. WritesIn(o) = WritesIn(ops)
    BY <1>2 DEF WritesIn, AlikeBut
  <2> QED
    BY <2>1 DEF IInv, OneWrite, Writes, WritesIn
<1>4. /\ write_queue' \in Seq(Frames) /\ write_queue' # <<>> /\ write_in_progress' \in BOOLEAN
      /\ f \in Bag /\ AlikeBut(f, o, {"write", "write_failed"})
      /\ WritesIn(f) <= 1 /\ (WritesIn(f) = 1 => write_in_progress')
  <2>1. TypeOK /\ Push("login")
    BY DEF IInv, ConnectDone
  <2> QED
    BY <2>1, <1>2, <1>3, PushOnce
<1> HIDE DEF o, f
<1>5. /\ r \in Bag /\ AlikeBut(r, f, {"read", "read_failed"})
      /\ r["read"] + r["read_failed"] > 0 /\ (r["read"] > 0 => socket = "open")
  <2>1. f["read"] > 0 => socket = "open"
    BY <1>2, <1>4 DEF IInv, Reading, AlikeBut
  <2>2. f["read"] \in Nat /\ f["read_failed"] \in Nat
    BY <1>4 DEF Bag
  <2> QED
    BY <1>4, <2>1, <2>2, StartBag
<1> HIDE DEF r
<1>6. ops' \in Bag /\ AlikeBut(ops', r, {"heartbeat_timer"}) /\ ops'["heartbeat_timer"] = 1
  BY <1>5, ArmBag DEF ConnectDone, AlikeBut, r, f, o
<1>7. /\ connected' = TRUE /\ authed' = FALSE
      /\ UNCHANGED <<stopping, socket, received, connects, ngs, data, missed>>
  BY DEF ConnectDone, peerVars
<1>8. TypeOK'
  <2>1. connected' \in BOOLEAN /\ authed' \in BOOLEAN
    BY <1>7
  <2>2. ops'["reconnect_timer"] <= 1
    BY <1>1, <1>2, <1>4, <1>5, <1>6 DEF AlikeBut
  <2> QED
    BY <1>4, <1>6, <1>7, <2>1, <2>2 DEF IInv, TypeOK, Bag
<1>9. OneWrite'
  <2>1. WritesIn(ops') = WritesIn(f)
    BY <1>5, <1>6 DEF WritesIn, AlikeBut
  <2> QED
    BY <1>4, <2>1 DEF OneWrite, Writes, WritesIn
<1>10. Reading'
  BY <1>5, <1>6, <1>7 DEF Reading, AlikeBut, Bag
<1>11. NotStranded' /\ HeartbeatAlive'
  BY <1>6, <1>7 DEF NotStranded, HeartbeatAlive, Some
<1> QED
  BY <1>8, <1>9, <1>10, <1>11 DEF IInv

\* A step that leaves the queue and the number of writes alone.
LEMMA QuietInv ==
  ASSUME IInv, ops' \in Bag, ops'["reconnect_timer"] <= 1, ops'["heartbeat_timer"] <= 1,
         WritesIn(ops') = WritesIn(ops), UNCHANGED <<stopping, write_queue, write_in_progress>>,
         connected' \in BOOLEAN, authed' \in BOOLEAN, missed' \in Nat,
         socket' \in {"closed", "connecting", "open"}, received' \in Seq(Frames),
         connects' \in Nat, ngs' \in Nat, data' \in Nat,
         NotStranded', HeartbeatAlive', Reading'
  PROVE  IInv'
<1>1. TypeOK'
  BY DEF IInv, TypeOK, Bag
<1>2. OneWrite'
  BY DEF IInv, OneWrite, Writes, WritesIn
<1> QED
  BY <1>1, <1>2 DEF IInv

\* A failed attempt leads to the reconnect timer, the timer to a resolve.
LEMMA RetryInv == IInv /\ (ConnectError \/ Reconnect) => IInv'
<1> SUFFICES ASSUME IInv, ConnectError \/ Reconnect PROVE IInv'
  OBVIOUS
<1>1. ops \in Bag /\ ops["reconnect_timer"] <= 1 /\ ops["heartbeat_timer"] <= 1 /\ TypeOK
  BY DEF IInv, TypeOK, Bag
<1>2. UNCHANGED <<stopping, authed, socket, write_queue, write_in_progress, received, connects,
                  ngs, data, missed>>
  BY DEF ConnectError, Reconnect, flagVars, queueVars, peerVars
<1>3. CASE ConnectError
  <2>0. PICK k \in {"connect_failed", "connect_ok"} :
          ops[k] > 0 /\ ops' = schedule_reconnect(Less(ops, k))
    BY <1>3 DEF ConnectError, ConnectFailed
  <2> DEFINE o == Less(ops, k)
  <2>1. o \in Bag /\ AlikeBut(o, ops, {"connect_failed", "connect_ok"})
    BY <1>1, <2>0, LessBag DEF AlikeBut
  <2> HIDE DEF o
  <2>2. /\ ops' \in Bag /\ AlikeBut(ops', o, {"reconnect_timer"})
        /\ ops'["reconnect_timer"] <= 1 /\ (~stopping => ops'["reconnect_timer"] = 1)
    <3>1. ops' = schedule_reconnect(o)
      BY <2>0 DEF o
    <3> QED
      BY <1>1, <2>1, <3>1, ArmBag DEF schedule_reconnect, AlikeBut
  <2>3. AlikeBut(ops', ops, {"reconnect_timer", "connect_failed", "connect_ok"})
    BY <2>1, <2>2 DEF AlikeBut
  <2>4. connected' = FALSE /\ connected' \in BOOLEAN
    BY <1>3 DEF ConnectError
  <2>5. NotStranded' /\ HeartbeatAlive'
    BY <1>2, <2>2, <2>4 DEF NotStranded, HeartbeatAlive, Some
  <2>6. Reading'
    BY <1>2, <2>3, <2>4 DEF IInv, Reading, AlikeBut
  <2>7. WritesIn(ops') = WritesIn(ops) /\ ops'["heartbeat_timer"] <= 1
    BY <1>1, <2>3 DEF WritesIn, AlikeBut
  <2> QED
    BY <1>1, <1>2, <2>2, <2>4, <2>5, <2>6, <2>7, QuietInv DEF TypeOK
<1>4. CASE Reconnect
  <2> DEFINE o == Less(ops, "reconnect_due")
  <2>1. o \in Bag /\ AlikeBut(o, ops, {"reconnect_due"})
    BY <1>1, <1>4, LessBag DEF Reconnect, AlikeBut
  <2> HIDE DEF o
  <2>2. /\ ops' \in Bag /\ AlikeBut(ops', o, {"resolve"})
        /\ (~stopping => ops'["resolve"] > 0)
    <3>1. ops' = IF stopping THEN o ELSE Add(o, "resolve")
      BY <1>4 DEF Reconnect, o
    <3>2. CASE stopping
      BY <2>1, <3>1, <3>2 DEF AlikeBut
    <3>3. CASE ~stopping
      <4>1. o["resolve"] \in Nat
        BY <2>1 DEF Bag
      <4> QED
        BY <2>1, <3>1, <3>3, <4>1, AddBag DEF AlikeBut
    <3> QED
      BY <3>2, <3>3
  <2>3. AlikeBut(ops', ops, {"resolve", "reconnect_due"})
    BY <2>1, <2>2 DEF AlikeBut
  <2>4. UNCHANGED connected
    BY <1>4 DEF Reconnect, flagVars
  <2>5. NotStranded'
    BY <1>2, <2>2 DEF NotStranded, Some
  <2>6. HeartbeatAlive' /\ Reading'
    BY <1>2, <2>3, <2>4 DEF IInv, HeartbeatAlive, Some, Reading, AlikeBut
  <2>7. WritesIn(ops') = WritesIn(ops) /\ ops'["heartbeat_timer"] <= 1
        /\ ops'["reconnect_timer"] <= 1
    BY <1>1, <2>3 DEF WritesIn, AlikeBut
  <2> QED
    BY <1>1, <1>2, <2>2, <2>4, <2>5, <2>6, <2>7, QuietInv DEF TypeOK
<1> QED
  BY <1>3, <1>4

\* An answer that is consumed leaves a sequence of frames.
LEMMA AnswerType ==
  ASSUME received \in Seq(Frames), NEW frame \in Frames, Answer(frame)
  PROVE  received' \in Seq(Frames)
<1>1. PICK i \in DOMAIN received :
        received' = [j \in 1 .. Len(received) - 1 |-> received[IF j < i THEN j ELSE j + 1]]
  BY DEF Answer
<1>2. Len(received) - 1 \in Nat
  BY <1>1
<1>3. \A j \in 1 .. Len(received) - 1 : received[IF j < i THEN j ELSE j + 1] \in Frames
  BY <1>1
<1> QED
  BY <1>1, <1>2, <1>3, IsASeq

\* A message: the client reads on.
LEMMA ReadMessageInv == IInv /\ ReadMessage => IInv'
<1> SUFFICES ASSUME IInv, ReadMessage PROVE IInv'
  OBVIOUS
<1> DEFINE o == Less(ops, "read_ok")
<1>1. ops \in Bag /\ ops["reconnect_timer"] <= 1 /\ ops["heartbeat_timer"] <= 1 /\ TypeOK
  BY DEF IInv, TypeOK, Bag
<1>2. UNCHANGED <<stopping, connected, socket, write_queue, write_in_progress, connects, ngs, data>>
  BY DEF ReadMessage, queueVars
<1>3. o \in Bag /\ AlikeBut(o, ops, {"read_ok"})
  BY <1>1, LessBag DEF ReadMessage, AlikeBut
<1>4. received' \in Seq(Frames) /\ missed' \in Nat
  BY <1>1, AnswerType DEF ReadMessage, OnServerLoginAck, OnServerKeepAliveAck, TypeOK
<1>5. authed' \in BOOLEAN
  BY <1>1 DEF ReadMessage, OnServerLoginAck, OnServerKeepAliveAck, TypeOK
<1> HIDE DEF o
<1>6. /\ ops' \in Bag /\ AlikeBut(ops', o, {"read", "read_failed"})
      /\ (connected => ops'["read"] + ops'["read_failed"] > 0)
      /\ (ops'["read"] > 0 => socket = "open")
      /\ ops'["read_failed"] >= o["read_failed"]
  <2>1. ops' = IF connected THEN StartRead(o) ELSE o
    BY DEF ReadMessage, ReadOn, o
  <2>2. o["read"] > 0 => socket = "open"
    BY <1>3 DEF IInv, Reading, AlikeBut
  <2>3. o["read"] \in Nat /\ o["read_failed"] \in Nat
    BY <1>3 DEF Bag
  <2>4. CASE connected
    BY <1>3, <2>1, <2>2, <2>3, <2>4, StartBag
  <2>5. CASE ~connected
    BY <1>3, <2>1, <2>2, <2>3, <2>5 DEF AlikeBut
  <2> QED
    BY <2>4, <2>5
<1>7. AlikeBut(ops', ops, {"read", "read_ok", "read_failed"}) /\ o["read_failed"] = ops["read_failed"]
  BY <1>3, <1>6 DEF AlikeBut
<1>8. WritesIn(ops') = WritesIn(ops) /\ ops'["heartbeat_timer"] <= 1 /\ ops'["reconnect_timer"] <= 1
  BY <1>1, <1>7 DEF WritesIn, AlikeBut
<1>9. Reading'
  BY <1>2, <1>6 DEF Reading, Bag
<1>10. HeartbeatAlive'
  BY <1>2, <1>7 DEF IInv, HeartbeatAlive, Some, AlikeBut
<1>11. NotStranded'
  <2>1. ops["read_failed"] > 0 => ops'["read_failed"] > 0
    BY <1>1, <1>6, <1>7 DEF Bag
  <2> QED
    BY <1>2, <1>7, <2>1 DEF IInv, NotStranded, Some, AlikeBut
<1> QED
  BY <1>1, <1>2, <1>4, <1>5, <1>6, <1>8, <1>9, <1>10, <1>11, QuietInv DEF TypeOK

\* A refused login: stop() and start() at once.
LEMMA LoginRefusedInv == IInv /\ LoginRefused => IInv'
<1> SUFFICES ASSUME IInv, LoginRefused PROVE IInv'
  OBVIOUS
<1> DEFINE o == Less(ops, "read_ok")
           a == Abort(o)
           b == [a EXCEPT !["reconnect_timer"] = 0, !["heartbeat_timer"] = 0]
<1>1. ops \in Bag /\ TypeOK
  BY DEF IInv, TypeOK, Bag
<1>2. o \in Bag /\ AlikeBut(o, ops, {"read_ok"})
  BY <1>1, LessBag DEF LoginRefused, AlikeBut
<1>3. a \in Bag /\ a["read"] = 0 /\ WritesIn(a) = WritesIn(o)
  BY <1>2, AbortBag DEF WritesIn, Bag
<1> HIDE DEF o, a
<1>4. /\ b \in Bag /\ AlikeBut(b, a, {"reconnect_timer", "heartbeat_timer"})
      /\ b["reconnect_timer"] = 0 /\ b["heartbeat_timer"] = 0
  BY <1>3 DEF Bag, AlikeBut
<1> HIDE DEF b
<1>5. ops' \in Bag /\ ops'["resolve"] > 0 /\ AlikeBut(ops', b, {"resolve"})
  <2>1. ops' = Add(b, "resolve")
    BY DEF LoginRefused, b, a, o
  <2>2. b["resolve"] \in Nat
    BY <1>4 DEF Bag
  <2> QED
    BY <1>4, <2>1, <2>2, AddBag DEF AlikeBut
<1>6. /\ connected' = FALSE /\ authed' = FALSE /\ stopping' = FALSE /\ socket' = "closed"
      /\ UNCHANGED <<write_queue, write_in_progress, connects, data, missed>>
      /\ ngs' = ngs + 1
  BY DEF LoginRefused, close_socket, queueVars
<1>7. received' \in Seq(Frames)
  BY <1>1, AnswerType DEF LoginRefused, TypeOK
<1>8. TypeOK'
  <2>1. connected' \in BOOLEAN /\ authed' \in BOOLEAN /\ stopping' \in BOOLEAN
    BY <1>6
  <2>2. ops'["reconnect_timer"] = 0 /\ ops'["heartbeat_timer"] = 0
    BY <1>4, <1>5 DEF AlikeBut
  <2> QED
    BY <1>1, <1>5, <1>6, <1>7, <2>1, <2>2 DEF TypeOK, Bag
<1>9. OneWrite'
  <2>1. WritesIn(ops') = WritesIn(ops)
    BY <1>2, <1>3, <1>4, <1>5 DEF WritesIn, AlikeBut
  <2> QED
    BY <1>6, <2>1 DEF IInv, OneWrite, Writes, WritesIn
<1>10. Reading'
  BY <1>3, <1>4, <1>5, <1>6 DEF Reading, AlikeBut
<1>11. NotStranded' /\ HeartbeatAlive'
  BY <1>5, <1>6 DEF NotStranded, HeartbeatAlive, Some
<1> QED
  BY <1>8, <1>9, <1>10, <1>11 DEF IInv

\* stop(): nothing has to go on.
LEMMA StopInv == IInv /\ Stop => IInv'
<1> SUFFICES ASSUME IInv, Stop PROVE IInv'
  OBVIOUS
<1> DEFINE a == Abort(ops)
<1>1. ops \in Bag /\ TypeOK
  BY DEF IInv, TypeOK, Bag
<1>2. a \in Bag /\ a["read"] = 0 /\ WritesIn(a) = WritesIn(ops)
  BY <1>1, AbortBag DEF WritesIn, Bag
<1> HIDE DEF a
<1>3. /\ ops' \in Bag /\ AlikeBut(ops', a, {"reconnect_timer", "heartbeat_timer"})
      /\ ops'["reconnect_timer"] = 0 /\ ops'["heartbeat_timer"] = 0
  <2>1. ops' = [a EXCEPT !["reconnect_timer"] = 0, !["heartbeat_timer"] = 0]
    BY DEF Stop, a
  <2> QED
    BY <1>2, <2>1 DEF Bag, AlikeBut
<1>4. /\ connected' = FALSE /\ stopping' = TRUE /\ socket' = "closed"
      /\ UNCHANGED <<authed, write_queue, write_in_progress, received, connects, ngs, data, missed>>
  BY DEF Stop, close_socket, queueVars, peerVars
<1>5. TypeOK'
  <2>1. connected' \in BOOLEAN /\ stopping' \in BOOLEAN
    BY <1>4
  <2> QED
    BY <1>1, <1>3, <1>4, <2>1 DEF TypeOK, Bag
<1>6. OneWrite'
  <2>1. WritesIn(ops') = WritesIn(ops)
    BY <1>2, <1>3 DEF WritesIn, AlikeBut
  <2> QED
    BY <1>4, <2>1 DEF IInv, OneWrite, Writes, WritesIn
<1>7. Reading'
  BY <1>2, <1>3, <1>4 DEF Reading, AlikeBut
<1>8. NotStranded' /\ HeartbeatAlive'
  BY <1>4 DEF NotStranded, HeartbeatAlive
<1> QED
  BY <1>5, <1>6, <1>7, <1>8 DEF IInv

\* The heartbeat that is sent, or given up after too many went unanswered.
LEMMA BeatInv ==
  ASSUME IInv, Heartbeat, ~stopping, connected, authed
  PROVE  IInv'
<1> DEFINE o == Less(ops, "heartbeat_due")
           f == Flush(o)
<1>1. ops \in Bag /\ ops["reconnect_timer"] <= 1 /\ ops["heartbeat_timer"] <= 1 /\ TypeOK
  BY DEF IInv, TypeOK, Bag
<1>2. o \in Bag /\ AlikeBut(o, ops, {"heartbeat_due"})
  BY <1>1, LessBag DEF Heartbeat, AlikeBut
<1>3. WritesIn(o) <= 1 /\ (WritesIn(o) = 1 => write_in_progress /\ write_queue # <<>>)
  <2>1. WritesIn(o) = WritesIn(ops)
    BY <1>2 DEF WritesIn, AlikeBut
  <2> QED
    BY <2>1 DEF IInv, OneWrite, Writes, WritesIn
<1>4. /\ write_queue' \in Seq(Frames) /\ write_queue' # <<>> /\ write_in_progress' \in BOOLEAN
      /\ f \in Bag /\ AlikeBut(f, o, {"write", "write_failed"})
      /\ WritesIn(f) <= 1 /\ (WritesIn(f) = 1 => write_in_progress')
  <2>1. Push("keepalive")
    BY DEF Heartbeat
  <2> QED
    BY <1>1, <2>1, <1>2, <1>3, PushOnce
<1>5. AlikeBut(f, ops, {"heartbeat_due", "write", "write_failed"})
  BY <1>2, <1>4 DEF AlikeBut
<1>6. UNCHANGED <<stopping, authed, received, connects, ngs, data>> /\ missed' \in Nat
  <2>1. UNCHANGED <<stopping, authed, received, connects, ngs, data>>
    BY DEF Heartbeat, peerVars
  <2>2. missed' = missed + 1 \/ missed' = missed
    BY DEF Heartbeat
  <2> QED
    BY <1>1, <2>1, <2>2 DEF TypeOK
<1>7. CASE UNCHANGED <<socket, connected>> /\ ops' = arm_heartbeat_timer(f)
  <2> HIDE DEF o, f
  <2>1. ops' \in Bag /\ AlikeBut(ops', f, {"heartbeat_timer"}) /\ ops'["heartbeat_timer"] = 1
    BY <1>4, <1>7, ArmBag DEF arm_heartbeat_timer, AlikeBut
  <2>2. TypeOK'
    <3>1. ops'["reconnect_timer"] <= 1
      BY <1>1, <1>5, <2>1 DEF AlikeBut
    <3> QED
      BY <1>1, <1>4, <1>6, <1>7, <2>1, <3>1 DEF TypeOK, Bag
  <2>3. OneWrite'
    <3>1. WritesIn(ops') = WritesIn(f)
      BY <2>1 DEF WritesIn, AlikeBut
    <3> QED
      BY <1>4, <3>1 DEF OneWrite, Writes, WritesIn
  <2>4. Reading'
    BY <1>5, <1>7, <2>1 DEF IInv, Reading, AlikeBut
  <2>5. NotStranded' /\ HeartbeatAlive'
    BY <1>7, <2>1 DEF NotStranded, HeartbeatAlive, Some
  <2> QED
    BY <2>2, <2>3, <2>4, <2>5 DEF IInv
<1>8. ASSUME NEW p \in Bag, AlikeBut(p, f, {"write", "write_ok"}), WritesIn(p) = WritesIn(f),
             socket' = "closed", connected' = FALSE, ops' = schedule_reconnect(Abort(p))
      PROVE  IInv'
  <2> HIDE DEF o, f
  <2> DEFINE a == Abort(p)
  <2>1. /\ a \in Bag /\ a["read"] = 0 /\ WritesIn(a) = WritesIn(p)
        /\ AlikeBut(a, p, {"connect", "read", "write", "connect_failed", "read_failed",
                           "write_failed"})
    BY AbortBag DEF AlikeBut, WritesIn, Bag
  <2> HIDE DEF a
  <2>2. ops' \in Bag /\ AlikeBut(ops', a, {"reconnect_timer"}) /\ ops'["reconnect_timer"] = 1
    BY <1>8, <2>1, ArmBag DEF schedule_reconnect, AlikeBut, a
  <2>3. TypeOK'
    <3>1. connected' \in BOOLEAN
      BY <1>8
    <3>2. ops'["heartbeat_timer"] <= 1
      BY <1>1, <1>5, <1>8, <2>1, <2>2 DEF AlikeBut
    <3> QED
      BY <1>1, <1>4, <1>6, <1>8, <2>2, <3>1, <3>2 DEF TypeOK, Bag
  <2>4. OneWrite'
    <3>1. WritesIn(ops') = WritesIn(f)
      BY <1>8, <2>1, <2>2 DEF WritesIn, AlikeBut
    <3> QED
      BY <1>4, <3>1 DEF OneWrite, Writes, WritesIn
  <2>5. Reading'
    BY <1>8, <2>1, <2>2 DEF Reading, AlikeBut
  <2>6. NotStranded' /\ HeartbeatAlive'
    BY <1>8, <2>2 DEF NotStranded, HeartbeatAlive, Some
  <2> QED
    BY <2>3, <2>4, <2>5, <2>6 DEF IInv
<1>9. CASE /\ socket' = "closed" /\ connected' = FALSE
           /\ ops' = schedule_reconnect(Abort(f))
  BY <1>4, <1>8, <1>9 DEF AlikeBut
<1>10. CASE /\ socket' = "closed" /\ connected' = FALSE /\ f["write"] > 0
            /\ ops' = schedule_reconnect(Abort(Add(Less(f, "write"), "write_ok")))
  <2> DEFINE p == Add(Less(f, "write"), "write_ok")
  <2> HIDE DEF o, f
  <2>1. p \in Bag /\ AlikeBut(p, f, {"write", "write_ok"}) /\ WritesIn(p) = WritesIn(f)
    <3>1. Less(f, "write") \in Bag /\ Less(f, "write")["write"] = f["write"] - 1
          /\ AlikeBut(Less(f, "write"), f, {"write"})
      BY <1>4, <1>10, LessBag DEF AlikeBut
    <3>2. p \in Bag /\ p["write_ok"] = Less(f, "write")["write_ok"] + 1
          /\ AlikeBut(p, Less(f, "write"), {"write_ok"})
      BY <3>1, AddBag DEF AlikeBut
    <3>3. /\ p["write"] = f["write"] - 1 /\ p["write_ok"] = f["write_ok"] + 1
          /\ p["write_failed"] = f["write_failed"]
      BY <3>1, <3>2 DEF AlikeBut
    <3>4. AlikeBut(p, f, {"write", "write_ok"})
      BY <3>1, <3>2 DEF AlikeBut
    <3>5. f["write"] \in Nat /\ f["write_ok"] \in Nat /\ f["write_failed"] \in Nat
      BY <1>4 DEF Bag
    <3> HIDE DEF p
    <3> QED
      BY <3>2, <3>3, <3>4, <3>5 DEF WritesIn
  <2> HIDE DEF p
  <2> QED
    BY <1>8, <1>10, <2>1 DEF p
<1> QED
  BY <1>7, <1>9, <1>10 DEF Heartbeat

\* The handler of the heartbeat timer.
LEMMA HeartbeatInv == IInv /\ Heartbeat => IInv'
<1> SUFFICES ASSUME IInv, Heartbeat, ~(~stopping /\ connected /\ authed) PROVE IInv'
  BY BeatInv
<1> DEFINE o == Less(ops, "heartbeat_due")
<1>1. ops \in Bag /\ ops["reconnect_timer"] <= 1 /\ ops["heartbeat_timer"] <= 1 /\ TypeOK
  BY DEF IInv, TypeOK, Bag
<1>2. o \in Bag /\ AlikeBut(o, ops, {"heartbeat_due"})
  BY <1>1, LessBag DEF Heartbeat, AlikeBut
<1>3. UNCHANGED <<stopping, connected, authed, write_queue, write_in_progress, socket, missed,
                  received, connects, ngs, data>>
  BY DEF Heartbeat, queueVars, peerVars
<1>4. /\ ops' \in Bag /\ AlikeBut(ops', ops, {"heartbeat_due", "heartbeat_timer"})
      /\ ops'["heartbeat_timer"] <= 1 /\ (~stopping => ops'["heartbeat_timer"] > 0)
  <2>1. CASE stopping
    <3>1. ops' = o
      BY <2>1 DEF Heartbeat
    <3> QED
      BY <1>1, <1>2, <2>1, <3>1 DEF AlikeBut
  <2>2. CASE ~stopping
    <3>1. ops' = Arm(o, "heartbeat_timer")
      BY <2>2 DEF Heartbeat, arm_heartbeat_timer
    <3> QED
      BY <1>2, <2>2, <3>1, ArmBag DEF AlikeBut
  <2> QED
    BY <2>1, <2>2
<1> HIDE DEF o
<1>5. WritesIn(ops') = WritesIn(ops) /\ ops'["reconnect_timer"] <= 1
  BY <1>1, <1>4 DEF WritesIn, AlikeBut
<1>6. Reading' /\ NotStranded'
  BY <1>3, <1>4 DEF IInv, Reading, NotStranded, Some, AlikeBut
<1>7. HeartbeatAlive'
  BY <1>3, <1>4 DEF HeartbeatAlive, Some
<1> QED
  BY <1>1, <1>3, <1>4, <1>5, <1>6, <1>7, QuietInv DEF TypeOK

\* One operation takes the place of another.
LEMMA CompleteBag ==
  ASSUME NEW j \in Ops, NEW k \in Ops, j # k, ops \in Bag, ops[j] > 0, Complete(j, k)
  PROVE  /\ ops' \in Bag /\ ops'[j] = ops[j] - 1 /\ ops'[k] = ops[k] + 1
         /\ AlikeBut(ops', ops, {j, k})
<1>1. /\ Less(ops, j) \in Bag /\ Less(ops, j)[j] = ops[j] - 1
      /\ AlikeBut(Less(ops, j), ops, {j})
  BY LessBag DEF AlikeBut
<1>2. /\ ops' \in Bag /\ ops'[k] = Less(ops, j)[k] + 1
      /\ AlikeBut(ops', Less(ops, j), {k})
  BY <1>1, AddBag DEF AlikeBut, Complete
<1> QED
  BY <1>1, <1>2 DEF AlikeBut

\* The kernel ends a connection attempt.
LEMMA ConnectsInv == IInv /\ Connects => IInv'
<1> SUFFICES ASSUME IInv, Connects PROVE IInv'
  OBVIOUS
<1>1. ops \in Bag /\ ops["reconnect_timer"] <= 1 /\ ops["heartbeat_timer"] <= 1 /\ TypeOK
  BY DEF IInv, TypeOK, Bag
<1>2. UNCHANGED <<stopping, connected, authed, write_queue, write_in_progress, ngs, data, missed>>
  BY DEF Connects, flagVars, queueVars
<1>3. /\ received' \in Seq(Frames) /\ connects' \in Nat
      /\ socket' \in {"closed", "connecting", "open"} /\ (socket' = socket \/ socket' = "open")
  <2>1. /\ received \in Seq(Frames) /\ connects \in Nat
        /\ socket \in {"closed", "connecting", "open"}
    BY <1>1 DEF TypeOK
  <2>2. \/ connects' = connects + 1 /\ socket' = "open" /\ received' = <<>>
        \/ received' = received /\ connects' = connects /\ socket' = socket
    BY DEF Connects
  <2>3. <<>> \in Seq(Frames) /\ connects + 1 \in Nat
    BY <2>1
  <2>4. CASE connects' = connects + 1 /\ socket' = "open" /\ received' = <<>>
    BY <2>3, <2>4
  <2>5. CASE received' = received /\ connects' = connects /\ socket' = socket
    BY <2>1, <2>5
  <2> QED
    BY <2>2, <2>4, <2>5
<1>4. PICK k \in {"connect_ok", "connect_failed"} : ops["connect"] > 0 /\ Complete("connect", k)
  BY DEF Connects
<1>5. ops' \in Bag /\ ops'[k] = ops[k] + 1 /\ AlikeBut(ops', ops, {"connect", k})
  BY <1>1, <1>4, CompleteBag
<1>6. ops'[k] > 0
  BY <1>1, <1>5 DEF Bag
<1>7. WritesIn(ops') = WritesIn(ops) /\ ops'["reconnect_timer"] <= 1 /\ ops'["heartbeat_timer"] <= 1
  BY <1>1, <1>5 DEF WritesIn, AlikeBut
<1>8. NotStranded'
  BY <1>6 DEF NotStranded, Some
<1>9. Reading' /\ HeartbeatAlive'
  BY <1>2, <1>3, <1>5 DEF IInv, Reading, HeartbeatAlive, Some, AlikeBut
<1> QED
  BY <1>1, <1>2, <1>3, <1>5, <1>7, <1>8, <1>9, QuietInv DEF TypeOK

\* The kernel ends a read or a write; the frame of a write is at the front.
LEMMA TransfersInv == IInv /\ Transfers => IInv'
<1> SUFFICES ASSUME IInv, Transfers PROVE IInv'
  OBVIOUS
<1>1. ops \in Bag /\ ops["reconnect_timer"] <= 1 /\ ops["heartbeat_timer"] <= 1 /\ TypeOK
  BY DEF IInv, TypeOK, Bag
<1>2. UNCHANGED <<stopping, connected, authed, socket, write_queue, write_in_progress, connects,
                  ngs, data, missed>>
  BY DEF Transfers, flagVars, queueVars
<1>3. received' \in Seq(Frames)
  <2>1. CASE ops["write"] > 0
    <3>1. WritesIn(ops) = 1
      BY <1>1, <2>1 DEF IInv, OneWrite, Writes, WritesIn, Bag
    <3>2. write_queue # <<>> /\ write_queue \in Seq(Frames)
      BY <1>1, <3>1 DEF IInv, OneWrite, Writes, WritesIn, TypeOK
    <3>3. Head(write_queue) \in Frames /\ received \in Seq(Frames)
      BY <1>1, <3>2, HeadTailProperties DEF TypeOK
    <3>4. received' = received \/ received' = Append(received, Head(write_queue))
      BY DEF Transfers
    <3> QED
      BY <3>3, <3>4, AppendProperties
  <2>2. CASE ~(ops["write"] > 0)
    BY <1>1, <2>2 DEF Transfers, TypeOK
  <2> QED
    BY <2>1, <2>2
<1>4. CASE \E k \in {"read_ok", "read_failed"} : ops["read"] > 0 /\ Complete("read", k)
  <2>1. PICK k \in {"read_ok", "read_failed"} : ops["read"] > 0 /\ Complete("read", k)
    BY <1>4
  <2>2. /\ ops' \in Bag /\ ops'["read"] = ops["read"] - 1 /\ ops'[k] = ops[k] + 1
        /\ AlikeBut(ops', ops, {"read", k})
    BY <1>1, <2>1, CompleteBag
  <2>3. ops'[k] > 0 /\ ops'["read_ok"] \in Nat /\ ops'["read_failed"] \in Nat /\ ops'["read"] \in Nat
    BY <1>1, <2>2 DEF Bag
  <2>4. WritesIn(ops') = WritesIn(ops) /\ ops'["reconnect_timer"] <= 1
        /\ ops'["heartbeat_timer"] <= 1
    BY <1>1, <2>2 DEF WritesIn, AlikeBut
  <2>5. HeartbeatAlive'
    BY <1>2, <2>2 DEF IInv, HeartbeatAlive, Some, AlikeBut
  <2>6. Reading'
    BY <1>2, <2>1, <2>3 DEF IInv, Reading
  <2>7. NotStranded'
    <3>1. ops["read_failed"] > 0 => ops'["read_failed"] > 0
      BY <2>2, <2>3 DEF AlikeBut
    <3> QED
      BY <1>2, <2>2, <3>1 DEF IInv, NotStranded, Some, AlikeBut
  <2> QED
    BY <1>1, <1>2, <1>3, <2>2, <2>4, <2>5, <2>6, <2>7, QuietInv DEF TypeOK
<1>5. CASE \E k \in {"write_ok", "write_failed"} : ops["write"] > 0 /\ Complete("write", k)
  <2>1. PICK k \in {"write_ok", "write_failed"} : ops["write"] > 0 /\ Complete("write", k)
    BY <1>5
  <2>2. /\ ops' \in Bag /\ ops'["write"] = ops["write"] - 1 /\ ops'[k] = ops[k] + 1
        /\ AlikeBut(ops', ops, {"write", k})
    BY <1>1, <2>1, CompleteBag
  <2>3. WritesIn(ops') = WritesIn(ops) /\ ops'["write_failed"] >= ops["write_failed"]
    BY <1>1, <2>2 DEF WritesIn, AlikeBut, Bag
  <2>4. ops'["reconnect_timer"] <= 1 /\ ops'["heartbeat_timer"] <= 1
    BY <1>1, <2>2 DEF AlikeBut
  <2>5. HeartbeatAlive' /\ Reading'
    BY <1>2, <2>2 DEF IInv, HeartbeatAlive, Reading, Some, AlikeBut
  <2>6. NotStranded'
    <3>1. ops["write_failed"] > 0 => ops'["write_failed"] > 0
      BY <1>1, <2>2, <2>3 DEF Bag
    <3> QED
      BY <1>2, <2>2, <3>1 DEF IInv, NotStranded, Some, AlikeBut
  <2> QED
    BY <1>1, <1>2, <1>3, <2>2, <2>3, <2>4, <2>5, <2>6, QuietInv DEF TypeOK
<1> QED
  BY <1>4, <1>5 DEF Transfers

\* A timer runs out: its handler is queued.
LEMMA TimerInv == IInv /\ (ReconnectTimer \/ HeartbeatTimer) => IInv'
<1> SUFFICES ASSUME IInv, ReconnectTimer \/ HeartbeatTimer PROVE IInv'
  OBVIOUS
<1>1. ops \in Bag /\ ops["reconnect_timer"] <= 1 /\ ops["heartbeat_timer"] <= 1 /\ TypeOK
  BY DEF IInv, TypeOK, Bag
<1>2. UNCHANGED <<stopping, connected, authed, socket, write_queue, write_in_progress, received,
                  connects, ngs, data, missed>>
  BY DEF ReconnectTimer, HeartbeatTimer, flagVars, queueVars, peerVars
<1>3. CASE ReconnectTimer
  <2>1. /\ ops' \in Bag /\ ops'["reconnect_timer"] = ops["reconnect_timer"] - 1
        /\ ops'["reconnect_due"] = ops["reconnect_due"] + 1
        /\ AlikeBut(ops', ops, {"reconnect_timer", "reconnect_due"})
    BY <1>1, <1>3, CompleteBag DEF ReconnectTimer
  <2>2. ops'["reconnect_timer"] <= 1 /\ ops'["reconnect_due"] > 0
    BY <1>1, <2>1 DEF Bag
  <2>3. WritesIn(ops') = WritesIn(ops) /\ ops'["heartbeat_timer"] <= 1
    BY <1>1, <2>1 DEF WritesIn, AlikeBut
  <2>4. NotStranded'
    BY <2>2 DEF NotStranded, Some
  <2>5. HeartbeatAlive' /\ Reading'
    BY <1>2, <2>1 DEF IInv, HeartbeatAlive, Reading, Some, AlikeBut
  <2> QED
    BY <1>1, <1>2, <2>1, <2>2, <2>3, <2>4, <2>5, QuietInv DEF TypeOK
<1>4. CASE HeartbeatTimer
  <2>1. /\ ops' \in Bag /\ ops'["heartbeat_timer"] = ops["heartbeat_timer"] - 1
        /\ ops'["heartbeat_due"] = ops["heartbeat_due"] + 1
        /\ AlikeBut(ops', ops, {"heartbeat_timer", "heartbeat_due"})
    BY <1>1, <1>4, CompleteBag DEF HeartbeatTimer
  <2>2. ops'["heartbeat_timer"] <= 1 /\ ops'["heartbeat_due"] > 0
    BY <1>1, <2>1 DEF Bag
  <2>3. WritesIn(ops') = WritesIn(ops) /\ ops'["reconnect_timer"] <= 1
    BY <1>1, <2>1 DEF WritesIn, AlikeBut
  <2>4. HeartbeatAlive'
    BY <2>2 DEF HeartbeatAlive, Some
  <2>5. NotStranded' /\ Reading'
    BY <1>2, <2>1 DEF IInv, NotStranded, Reading, Some, AlikeBut
  <2> QED
    BY <1>1, <1>2, <2>1, <2>2, <2>3, <2>4, <2>5, QuietInv DEF TypeOK
<1> QED
  BY <1>3, <1>4

-----------------------------------------------------------------------------
(* The theorems.                                                           *)

\* IInv is an invariant of the client.
THEOREM ClientInductive == Spec => []IInv
<1>1. IInv /\ [Next]_vars => IInv'
  <2> SUFFICES ASSUME IInv, [Next]_vars PROVE IInv'
    OBVIOUS
  <2>1. CASE UNCHANGED vars
    BY <2>1 DEF vars, flagVars, queueVars, peerVars, IInv, TypeOK, OneWrite, Writes, NotStranded,
                HeartbeatAlive, Reading, Some
  <2>2. CASE Handler
    BY <2>2, WriteDoneInv, ErrorInv, ResolveDoneInv, ConnectDoneInv, RetryInv, ReadMessageInv,
       LoginRefusedInv, HeartbeatInv DEF Handler
  <2>3. CASE Environment
    BY <2>3, ConnectsInv, TransfersInv, TimerInv DEF Environment
  <2> QED
    BY <2>1, <2>2, <2>3, SendDataInv, SendFailsInv, StopInv DEF Next
<1> QED
  BY <1>1, InitInv, PTL DEF Spec

\* Types of the client's state; each timer has at most one wait.
THEOREM ClientTypeOK == Spec => []TypeOK
<1>1. IInv => TypeOK
  BY DEF IInv
<1> QED
  BY <1>1, ClientInductive, PTL

\* send_framed and the write handlers: one write at a time, of the frame at the
\* front of write_queue_, through any number of lost connections.
THEOREM ClientOneWrite == Spec => []OneWrite
<1>1. IInv => OneWrite
  BY DEF IInv
<1> QED
  BY <1>1, ClientInductive, PTL

\* schedule_reconnect: a client neither connected nor stopped has an attempt,
\* or something that leads to one, outstanding.
THEOREM ClientNotStranded == Spec => []NotStranded
<1>1. IInv => NotStranded
  BY DEF IInv
<1> QED
  BY <1>1, ClientInductive, PTL

\* arm_heartbeat_timer: a connected client's heartbeat is running.
THEOREM ClientHeartbeat == Spec => []HeartbeatAlive
<1>1. IInv => HeartbeatAlive
  BY DEF IInv
<1> QED
  BY <1>1, ClientInductive, PTL

\* do_read_some: when connected_ is stale a read handler is queued that will
\* find out.
THEOREM ClientStaleNoticed == Spec => []StaleNoticed
<1>1. IInv => StaleNoticed
  <2> SUFFICES ASSUME IInv, connected, socket # "open"
               PROVE  Some({"read_ok", "read_failed"})
    BY DEF StaleNoticed
  <2>1. ops["read"] \in Nat /\ ops["read_ok"] \in Nat /\ ops["read_failed"] \in Nat
    BY DEF IInv, TypeOK
  <2> QED
    BY <2>1 DEF IInv, Reading, Some
<1> QED
  BY <1>1, ClientInductive, PTL
================================================================================
