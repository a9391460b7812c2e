---------------------------- MODULE WriteQueueProofs ----------------------------
(***************************************************************************)
(* Proofs about WriteQueue, for queues, limits and numbers of messages and *)
(* connections of any size.                                                *)
(***************************************************************************)
EXTENDS WriteQueue, FiniteSetTheorems, SequenceTheorems, TLAPS

-----------------------------------------------------------------------------
(* The inductive invariant.                                                *)

Writes == [conn : Conns, gen : Nat, msg : Msgs, status : {"live", "ok", "failed"}]

\* Precedes, for the set h of the messages posted in a handler of the strand.
\* It is not transitive, so the invariant relates every two places a message
\* may be in.
Prec(m, n, h)     == m < n \/ (n < m /\ m \in h /\ n \notin h)

\* A message and a sequence, two sequences, and one that is in its own order.
Leads(m, s, h)    == \A j \in 1 .. Len(s) : Prec(m, s[j], h)
Follows(m, s, h)  == \A i \in 1 .. Len(s) : Prec(s[i], m, h)
Before(s, t, h)   == \A i \in 1 .. Len(s) : Leads(s[i], t, h)
Increasing(s, h)  == \A i, j \in 1 .. Len(s) : i < j => Prec(s[i], s[j], h)

\* A message that was written may still be at the front of the queue.
Fronts(m, q, h)   == \A j \in 1 .. Len(q) : Prec(m, q[j], h) \/ (j = 1 /\ m = q[1])
AllFront(s, q, h) == \A i \in 1 .. Len(s) : Fronts(s[i], q, h)

Outside(s, h)     == \A i \in 1 .. Len(s) : s[i] \notin h

\* The messages of s were posted, for the connection c.
Mine(s, c, n, o)  == \A i \in 1 .. Len(s) : s[i] < n /\ o[s[i]] = c

\* One write counts, and the message to be popped by its handler is there.
Single ==
  /\ \A w, v \in writes : w.gen = generation /\ v.gen = generation => w = v
  /\ \A w \in writes : w.gen = generation => write_queue # <<>>

\* The overflow that reaches the limit leaves room in the queue.
Slack == overflow_count = write_queue_overflow_limit => Len(write_queue) < max_write_queue_size

\* A closed session has no write on its socket.
Dead == closed => \A w \in writes : w.status # "live"

\* Nothing belongs to a connection that is still to come.
Future ==
  /\ \A w \in writes : w.conn <= conn
  /\ \A c \in Conns : c > conn => posted[c] = <<>> /\ wire[c] = <<>>

\* Only messages that were posted.
Numbered == \A m \in inline : m < next_msg

\* What an undisturbed connection finds on its socket and during acquire().
Undisturbed ==
  ~tampered =>
    /\ \A w \in writes : w.status = "live" => w.gen = generation /\ w.conn = conn
    /\ acquiring => /\ posted[conn] = <<>> /\ wire[conn] = <<>>
                    /\ closed \/ (write_queue = <<>> /\ \A w \in writes : w.gen # generation)

\* Its messages pass from the strand to the queue, to the write and to the
\* client in order; what waits on the strand was posted by other threads.
WireOrder == ~tampered => Increasing(wire[conn], inline) /\ Mine(wire[conn], conn, next_msg, origin)

Pipeline ==
  ~tampered /\ ~closed =>
    /\ Increasing(write_queue, inline) /\ Mine(write_queue, conn, next_msg, origin)
    /\ Increasing(posted[conn], inline) /\ Mine(posted[conn], conn, next_msg, origin)
    /\ Outside(posted[conn], inline)
    /\ Before(write_queue, posted[conn], inline) /\ Before(wire[conn], posted[conn], inline)
    /\ AllFront(wire[conn], write_queue, inline)
    /\ \A w \in writes : w.gen = generation =>
         /\ w.msg < next_msg /\ origin[w.msg] = conn
         /\ Leads(w.msg, posted[conn], inline) /\ Fronts(w.msg, write_queue, inline)
         /\ w.status = "live" => Follows(w.msg, wire[conn], inline)

\* Where the messages it accepted are; one that was sent is in the queue until
\* the handler pops a message.
Sent == IF \E w \in writes : w.gen = generation /\ w.status = "ok" THEN 1 ELSE 0

Ledger ==
  ~tampered /\ ~closed /\ ~acquiring =>
    accepted + Sent = Len(wire[conn]) + overflows + Len(write_queue)

Fresh == ~tampered /\ ~closed /\ acquiring => accepted = 0 /\ overflows = 0

IInv ==
  /\ TypeOK /\ writes \subseteq Writes
  /\ Single /\ KeepsWriting /\ Slack /\ Dead /\ Future /\ Numbered
  /\ Undisturbed /\ WireOrder /\ Pipeline /\ Ledger /\ Fresh

-----------------------------------------------------------------------------
(* Sequences of messages.                                                  *)

LEMMA PushFacts ==
  ASSUME NEW s \in Seq(Msgs), NEW m \in Msgs
  PROVE  /\ Append(s, m) \in Seq(Msgs) /\ Append(s, m) # <<>> /\ Len(Append(s, m)) = Len(s) + 1
         /\ \A i \in 1 .. Len(s) : Append(s, m)[i] = s[i]
         /\ Append(s, m)[Len(s) + 1] = m
         /\ \A i \in 1 .. Len(Append(s, m)) : i = Len(s) + 1 \/ i \in 1 .. Len(s)
<1>1. Len(Append(s, m)) = Len(s) + 1 /\ Len(s) \in Nat
  BY AppendProperties
<1> QED
  BY <1>1, AppendProperties

LEMMA PopFacts ==
  ASSUME NEW s \in Seq(Msgs), s # <<>>
  PROVE  /\ Len(s) \in Nat \ {0} /\ Head(s) \in Msgs /\ Head(s) = s[1] /\ 1 \in 1 .. Len(s)
         /\ Tail(s) \in Seq(Msgs) /\ Len(Tail(s)) = Len(s) - 1
         /\ \A i \in 1 .. Len(Tail(s)) :
              i + 1 \in 1 .. Len(s) /\ i + 1 # 1 /\ Tail(s)[i] = s[i + 1]
<1>1. Len(s) \in Nat \ {0}
  BY EmptySeq
<1>2. /\ Head(s) \in Msgs /\ Tail(s) \in Seq(Msgs) /\ Len(Tail(s)) = Len(s) - 1
      /\ \A i \in 1 .. Len(Tail(s)) : Tail(s)[i] = s[i + 1]
  BY HeadTailProperties
<1> QED
  BY <1>1, <1>2

LEMMA NonEmpty == ASSUME NEW s \in Seq(Msgs), Len(s) > 0 PROVE s # <<>>
OBVIOUS

\* A message at the end of a sequence.
LEMMA PushOrder ==
  ASSUME NEW s \in Seq(Msgs), NEW m \in Msgs, NEW h
  PROVE  /\ Increasing(s, h) /\ Follows(m, s, h) => Increasing(Append(s, m), h)
         /\ \A x : Leads(x, s, h) /\ Prec(x, m, h) => Leads(x, Append(s, m), h)
         /\ \A x : Fronts(x, s, h) /\ Prec(x, m, h) => Fronts(x, Append(s, m), h)
<1> DEFINE t == Append(s, m)
<1>1. /\ Len(t) = Len(s) + 1 /\ \A i \in 1 .. Len(s) : t[i] = s[i]
      /\ t[Len(s) + 1] = m /\ Len(s) \in Nat
      /\ \A i \in 1 .. Len(t) : i = Len(s) + 1 \/ i \in 1 .. Len(s)
  BY PushFacts
<1> HIDE DEF t
<1>2. ASSUME Increasing(s, h), Follows(m, s, h) PROVE Increasing(t, h)
  <2>1. SUFFICES ASSUME NEW i \in 1 .. Len(t), NEW j \in 1 .. Len(t), i < j
                 PROVE  Prec(t[i], t[j], h)
    BY DEF Increasing
  <2>2. i \in 1 .. Len(s) /\ t[i] = s[i]
    BY <1>1, <2>1
  <2>3. CASE j = Len(s) + 1
    BY <1>1, <1>2, <2>2, <2>3 DEF Follows
  <2>4. CASE j \in 1 .. Len(s)
    BY <1>1, <1>2, <2>1, <2>2, <2>4 DEF Increasing
  <2> QED
    BY <1>1, <2>3, <2>4
<1>3. ASSUME NEW x, Leads(x, s, h), Prec(x, m, h) PROVE Leads(x, t, h)
  BY <1>1, <1>3 DEF Leads
<1>4. ASSUME NEW x, Fronts(x, s, h), Prec(x, m, h) PROVE Fronts(x, t, h)
  <2>1. SUFFICES ASSUME NEW j \in 1 .. Len(t) PROVE Prec(x, t[j], h) \/ (j = 1 /\ x = t[1])
    BY DEF Fronts
  <2>2. CASE j = Len(s) + 1
    BY <1>1, <1>4, <2>2
  <2>3. CASE j \in 1 .. Len(s)
    BY <1>1, <1>4, <2>3 DEF Fronts
  <2> QED
    BY <1>1, <2>2, <2>3
<1>5. /\ Increasing(s, h) /\ Follows(m, s, h) => Increasing(t, h)
      /\ \A x : Leads(x, s, h) /\ Prec(x, m, h) => Leads(x, t, h)
      /\ \A x : Fronts(x, s, h) /\ Prec(x, m, h) => Fronts(x, t, h)
  BY <1>2, <1>3, <1>4
<1> QED
  BY <1>5 DEF t

\* A sequence without its front.
LEMMA PopOrder ==
  ASSUME NEW s \in Seq(Msgs), s # <<>>, NEW h
  PROVE  /\ Increasing(s, h) => Increasing(Tail(s), h) /\ Leads(Head(s), Tail(s), h)
         /\ \A x : Leads(x, s, h) => Prec(x, Head(s), h) /\ Leads(x, Tail(s), h)
         /\ \A x : Fronts(x, s, h) => Leads(x, Tail(s), h)
<1> DEFINE t == Tail(s)
<1>1. /\ Len(s) \in Nat \ {0} /\ Len(t) = Len(s) - 1 /\ Head(s) = s[1] /\ 1 \in 1 .. Len(s)
      /\ \A i \in 1 .. Len(t) : i + 1 \in 1 .. Len(s) /\ i + 1 # 1 /\ t[i] = s[i + 1]
  BY PopFacts
<1> HIDE DEF t
<1>2. ASSUME Increasing(s, h) PROVE Increasing(t, h) /\ Leads(Head(s), t, h)
  <2>1. ASSUME NEW i \in 1 .. Len(t), NEW j \in 1 .. Len(t), i < j PROVE Prec(t[i], t[j], h)
    BY <1>1, <1>2, <2>1 DEF Increasing
  <2>2. ASSUME NEW i \in 1 .. Len(t) PROVE Prec(s[1], t[i], h)
    <3>1. 1 < i + 1
      OBVIOUS
    <3> QED
      BY <1>1, <1>2, <3>1 DEF Increasing
  <2> QED
    BY <1>1, <2>1, <2>2 DEF Increasing, Leads
<1>3. ASSUME NEW x, Leads(x, s, h) PROVE Prec(x, Head(s), h) /\ Leads(x, t, h)
  BY <1>1, <1>3 DEF Leads
<1>4. ASSUME NEW x, Fronts(x, s, h) PROVE Leads(x, t, h)
  BY <1>1, <1>4 DEF Leads, Fronts
<1>5. /\ Increasing(s, h) => Increasing(t, h) /\ Leads(Head(s), t, h)
      /\ \A x : Leads(x, s, h) => Prec(x, Head(s), h) /\ Leads(x, t, h)
      /\ \A x : Fronts(x, s, h) => Leads(x, t, h)
  BY <1>2, <1>3, <1>4
<1> QED
  BY <1>5 DEF t

LEMMA EntryTypes ==
  ASSUME NEW s \in Seq(Msgs), NEW i \in 1 .. Len(s)
  PROVE  s[i] \in Msgs /\ s[i] \in Nat
<1>1. s[i] \in Msgs
  BY ElementOfSeq
<1> QED
  BY <1>1, WriteQueueAssumption DEF Msgs

\* A message follows those with smaller numbers.
LEMMA MineFollows ==
  ASSUME NEW s, NEW c, NEW n, NEW o, NEW h, Mine(s, c, n, o) PROVE Follows(n, s, h)
BY DEF Mine, Follows, Prec

-----------------------------------------------------------------------------
(* What is recorded of the messages posted so far.                         *)

Kept ==
  \A x \in Msgs : x < next_msg =>
    x < next_msg' /\ origin'[x] = origin[x] /\ (x \in inline' <=> x \in inline)

\* Then their order is kept, too.
LEMMA KeptFacts ==
  ASSUME Kept, NEW s \in Seq(Msgs), Mine(s, conn, next_msg, origin)
  PROVE  /\ Mine(s, conn, next_msg', origin')
         /\ Increasing(s, inline) => Increasing(s, inline')
         /\ Outside(s, inline) => Outside(s, inline')
         /\ \A x \in Msgs : x < next_msg =>
              /\ Leads(x, s, inline) => Leads(x, s, inline')
              /\ Follows(x, s, inline) => Follows(x, s, inline')
              /\ Fronts(x, s, inline) => Fronts(x, s, inline')
         /\ \A t \in Seq(Msgs) : Mine(t, conn, next_msg, origin) =>
              /\ Before(t, s, inline) => Before(t, s, inline')
              /\ AllFront(t, s, inline) => AllFront(t, s, inline')
<1>1. \A i \in 1 .. Len(s) : s[i] \in Msgs /\ s[i] < next_msg /\ origin[s[i]] = conn
  BY EntryTypes DEF Mine
<1>2. ASSUME NEW x \in Msgs, NEW y \in Msgs, x < next_msg, y < next_msg, Prec(x, y, inline)
      PROVE  Prec(x, y, inline')
  BY <1>2 DEF Kept, Prec
<1>3. Mine(s, conn, next_msg', origin')
  BY <1>1 DEF Kept, Mine
<1>4. Increasing(s, inline) => Increasing(s, inline')
  BY <1>1, <1>2 DEF Increasing
<1>5. Outside(s, inline) => Outside(s, inline')
  BY <1>1 DEF Kept, Outside
<1>6. ASSUME NEW x \in Msgs, x < next_msg
      PROVE  /\ Leads(x, s, inline) => Leads(x, s, inline')
             /\ Follows(x, s, inline) => Follows(x, s, inline')
             /\ Fronts(x, s, inline) => Fronts(x, s, inline')
  <2>1. Leads(x, s, inline) => Leads(x, s, inline')
    BY <1>1, <1>2, <1>6 DEF Leads
  <2>2. Follows(x, s, inline) => Follows(x, s, inline')
    BY <1>1, <1>2, <1>6 DEF Follows
  <2>3. Fronts(x, s, inline) => Fronts(x, s, inline')
    BY <1>1, <1>2, <1>6 DEF Fronts
  <2> QED
    BY <2>1, <2>2, <2>3
<1>7. ASSUME NEW t \in Seq(Msgs), Mine(t, conn, next_msg, origin)
      PROVE  /\ Before(t, s, inline) => Before(t, s, inline')
             /\ AllFront(t, s, inline) => AllFront(t, s, inline')
  <2>1. \A i \in 1 .. Len(t) : t[i] \in Msgs /\ t[i] < next_msg
    BY <1>7, EntryTypes DEF Mine
  <2> QED
    BY <1>6, <2>1 DEF Before, AllFront
<1> QED
  BY <1>3, <1>4, <1>5, <1>6, <1>7

-----------------------------------------------------------------------------
(* The steps.                                                              *)

LEMMA InitInv == Init => IInv
<1> SUFFICES ASSUME Init PROVE IInv
  OBVIOUS
<1> USE WriteQueueAssumption
<1>1. 1 \in Conns /\ posted[1] = <<>> /\ wire[1] = <<>>
  BY DEF Init, Conns
<1>2. TypeOK
  <2>1. <<>> \in Seq(Msgs) /\ Len(<<>>) = 0
    OBVIOUS
  <2>2. posted \in [Conns -> Seq(Msgs)] /\ wire \in [Conns -> Seq(Msgs)]
        /\ origin \in [Msgs -> Conns \cup {0}]
    BY <2>1 DEF Init
  <2>3. write_queue \in Seq(Msgs) /\ Len(write_queue) <= max_write_queue_size
    BY <2>1 DEF Init
  <2>4. closed \in BOOLEAN /\ revived \in BOOLEAN /\ acquiring \in BOOLEAN /\ tampered \in BOOLEAN
    BY DEF Init
  <2>5. next_msg \in 1 .. MaxMsgs + 1 /\ overflow_count \in 0 .. write_queue_overflow_limit
    BY DEF Init
  <2> QED
    BY <1>1, <2>2, <2>3, <2>4, <2>5 DEF Init, TypeOK
<1>3. writes \subseteq Writes /\ Single /\ KeepsWriting /\ Slack /\ Dead /\ Future /\ Numbered
  BY DEF Init, Single, KeepsWriting, Slack, Dead, Future, Numbered
<1>4. Undisturbed /\ WireOrder /\ Pipeline
  BY <1>1 DEF Init, Undisturbed, WireOrder, Pipeline, Increasing, Mine, Before,
     Outside, AllFront
<1>5. Ledger /\ Fresh
  BY <1>1 DEF Init, Ledger, Sent, Fresh
<1> QED
  BY <1>2, <1>3, <1>4, <1>5 DEF IInv

\* The data that the proofs of the steps use most.
Typed ==
  /\ write_queue \in Seq(Msgs) /\ Len(write_queue) \in Nat
  /\ Len(write_queue) <= max_write_queue_size
  /\ overflow_count \in 0 .. write_queue_overflow_limit
  /\ generation \in Nat /\ conn \in Conns /\ conn \in Nat /\ trailing \in Nat
  /\ posted \in [Conns -> Seq(Msgs)] /\ wire \in [Conns -> Seq(Msgs)]
  /\ posted[conn] \in Seq(Msgs) /\ wire[conn] \in Seq(Msgs)
  /\ next_msg \in 1 .. MaxMsgs + 1 /\ origin \in [Msgs -> Conns \cup {0}] /\ inline \subseteq Msgs
  /\ accepted \in Nat /\ overflows \in Nat

Flags == closed \in BOOLEAN /\ revived \in BOOLEAN /\ acquiring \in BOOLEAN /\ tampered \in BOOLEAN

LEMMA TypedInv == IInv => Typed /\ Flags /\ \A w \in writes : w \in Writes /\ w.gen <= generation
<1> SUFFICES ASSUME IInv PROVE Typed /\ Flags /\ \A w \in writes : w \in Writes /\ w.gen <= generation
  OBVIOUS
<1>1. TypeOK /\ writes \subseteq Writes
  BY DEF IInv
<1>2. Flags
  BY <1>1 DEF TypeOK, Flags
<1>3. /\ conn \in Conns /\ posted \in [Conns -> Seq(Msgs)] /\ wire \in [Conns -> Seq(Msgs)]
      /\ write_queue \in Seq(Msgs) /\ generation \in Nat
  BY <1>1 DEF TypeOK
<1>4. posted[conn] \in Seq(Msgs) /\ wire[conn] \in Seq(Msgs) /\ Len(write_queue) \in Nat
      /\ conn \in Nat
  BY <1>3, WriteQueueAssumption DEF Conns
<1>5. Typed
  BY <1>1, <1>3, <1>4 DEF Typed, TypeOK
<1>6. \A w \in writes : w \in Writes /\ w.gen <= generation
  BY <1>1, <1>3 DEF TypeOK
<1> QED
  BY <1>2, <1>5, <1>6

\* The converse, for the next state.
LEMMA TypeOKFrom ==
  ASSUME Typed', Flags', writes' \subseteq Writes, \A w \in writes' : w.gen <= generation'
  PROVE  TypeOK'
<1>1. \A w \in writes' : /\ w.conn \in Conns /\ w.gen \in 0 .. generation' /\ w.msg \in Msgs
                         /\ w.status \in {"live", "ok", "failed"}
  BY DEF Typed, Writes
<1> QED
  BY <1>1 DEF Typed, Flags, TypeOK

\* What a step does to the record of the messages.
Recorded ==
  /\ next_msg' \in 1 .. MaxMsgs + 1 /\ origin' \in [Msgs -> Conns \cup {0}] /\ inline' \subseteq Msgs
  /\ Numbered' /\ Kept

LEMMA RecordedSame == ASSUME IInv, UNCHANGED <<next_msg, origin, inline>> PROVE Recorded
<1>1. Typed /\ Numbered
  BY TypedInv DEF IInv
<1> QED
  BY <1>1 DEF Recorded, Typed, Numbered, Kept

\* The order on the wire does not depend on what is posted later.
LEMMA WireOrderKept ==
  ASSUME IInv, Recorded, conn' = conn, wire' = wire, tampered => tampered' PROVE WireOrder'
<1>1. SUFFICES ASSUME ~tampered'
               PROVE  Increasing(wire[conn], inline') /\ Mine(wire[conn], conn, next_msg', origin')
  BY DEF WireOrder
<1>2. Increasing(wire[conn], inline) /\ Mine(wire[conn], conn, next_msg, origin)
  BY <1>1 DEF IInv, WireOrder
<1>3. wire[conn] \in Seq(Msgs) /\ Kept
  BY TypedInv DEF Typed, Recorded
<1> QED
  BY <1>2, <1>3, KeptFacts

\* post_write, by a thread that is not on the strand.
LEMMA PostInv == IInv /\ Post => IInv'
<1> SUFFICES ASSUME IInv, Post PROVE IInv'
  OBVIOUS
<1> USE WriteQueueAssumption
<1>1. Typed /\ Flags /\ \A w \in writes : w \in Writes /\ w.gen <= generation
  BY TypedInv
<1>2. /\ closed' = closed /\ revived' = revived /\ write_queue' = write_queue
      /\ overflow_count' = overflow_count
      /\ generation' = generation /\ conn' = conn /\ acquiring' = acquiring
      /\ trailing' = trailing /\ writes' = writes /\ wire' = wire /\ inline' = inline
      /\ accepted' = accepted /\ overflows' = overflows
  BY DEF Post
<1>3. /\ next_msg' = next_msg + 1 /\ next_msg <= MaxMsgs
      /\ origin' = [origin EXCEPT ![next_msg] = IF acquiring THEN conn - 1 ELSE conn]
      /\ posted' = [posted EXCEPT ![conn] = Append(@, next_msg)]
      /\ tampered' = (tampered \/ acquiring)
  BY DEF Post
<1>4. next_msg \in Msgs /\ next_msg \in Nat
  BY <1>1, <1>3 DEF Typed, Msgs
<1>5. PICK p \in Seq(Msgs) : p = Append(posted[conn], next_msg)
  BY <1>1, <1>4, PushFacts DEF Typed
<1>6. posted' = [posted EXCEPT ![conn] = p] /\ posted'[conn] = p
  BY <1>1, <1>3, <1>5 DEF Typed
<1>7. Recorded
  <2>1. origin' \in [Msgs -> Conns \cup {0}]
    <3>1. conn \in Conns \cup {0} /\ conn - 1 \in Conns \cup {0}
      BY <1>1 DEF Typed, Conns
    <3> QED
      BY <1>1, <1>3, <3>1 DEF Typed
  <2>2. next_msg' \in 1 .. MaxMsgs + 1 /\ inline' \subseteq Msgs
    BY <1>1, <1>2, <1>3, <1>4 DEF Typed
  <2>3. Kept
    BY <1>1, <1>2, <1>3, <1>4 DEF Typed, Msgs, Kept
  <2>4. Numbered'
    BY <1>1, <1>2, <1>3, <1>4 DEF IInv, Numbered, Typed, Msgs
  <2> QED
    BY <2>1, <2>2, <2>3, <2>4 DEF Recorded
<1>8. Flags' /\ Typed'
  <2>1. Flags'
    BY <1>1, <1>2, <1>3 DEF Flags
  <2>2. posted' \in [Conns -> Seq(Msgs)]
    BY <1>1, <1>5, <1>6 DEF Typed
  <2> QED
    BY <1>1, <1>2, <1>5, <1>6, <1>7, <2>1, <2>2 DEF Typed, Recorded
<1>9. TypeOK' /\ writes' \subseteq Writes
  BY <1>1, <1>2, <1>8, TypeOKFrom DEF Typed
<1>10. (Single /\ KeepsWriting /\ Slack /\ Dead /\ Numbered)'
  BY <1>2, <1>7 DEF IInv, Single, KeepsWriting, Slack, Dead, Current, Recorded
<1>11. Future'
  BY <1>1, <1>2, <1>6 DEF IInv, Future, Typed
<1>12. CASE tampered'
  BY <1>9, <1>10, <1>11, <1>12 DEF IInv, Undisturbed, WireOrder, Pipeline, Ledger, Fresh
<1>13. CASE ~tampered'
  <2>1. ~tampered /\ ~acquiring
    BY <1>3, <1>13
  <2>2. Undisturbed' /\ Ledger' /\ Fresh'
    BY <1>2, <2>1 DEF IInv, Undisturbed, Ledger, Sent, Fresh
  <2>3. WireOrder'
    BY <1>2, <1>7, <2>1, WireOrderKept
  <2>4. CASE closed
    BY <1>2, <1>9, <1>10, <1>11, <2>2, <2>3, <2>4 DEF IInv, Pipeline
  <2>5. CASE ~closed
    <3>1. /\ Increasing(write_queue, inline) /\ Mine(write_queue, conn, next_msg, origin)
          /\ Increasing(posted[conn], inline) /\ Mine(posted[conn], conn, next_msg, origin)
          /\ Outside(posted[conn], inline) /\ AllFront(wire[conn], write_queue, inline)
          /\ Before(write_queue, posted[conn], inline) /\ Before(wire[conn], posted[conn], inline)
          /\ Mine(wire[conn], conn, next_msg, origin)
      BY <2>1, <2>5 DEF IInv, Pipeline, WireOrder
    <3>2. Increasing(p, inline)
      BY <1>1, <1>4, <1>5, <3>1, MineFollows, PushOrder DEF Typed
    <3>3. Mine(p, conn, next_msg', origin') /\ Outside(p, inline)
      <4>1. /\ \A i \in 1 .. Len(p) : i = Len(posted[conn]) + 1 \/ i \in 1 .. Len(posted[conn])
            /\ \A i \in 1 .. Len(posted[conn]) : p[i] = posted[conn][i]
            /\ p[Len(posted[conn]) + 1] = next_msg
        BY <1>1, <1>4, <1>5, PushFacts DEF Typed
      <4>2. Mine(posted[conn], conn, next_msg', origin')
        BY <1>1, <1>7, <3>1, KeptFacts DEF Typed, Recorded
      <4>3. origin'[next_msg] = conn /\ next_msg < next_msg' /\ next_msg \notin inline
        BY <1>1, <1>3, <1>4, <2>1 DEF Typed, IInv, Numbered
      <4> QED
        BY <3>1, <4>1, <4>2, <4>3 DEF Mine, Outside
    <3>4. Before(write_queue, p, inline) /\ Before(wire[conn], p, inline)
      <4>1. Follows(next_msg, write_queue, inline) /\ Follows(next_msg, wire[conn], inline)
        BY <3>1, MineFollows
      <4>2. \A x : Leads(x, posted[conn], inline) /\ Prec(x, next_msg, inline) => Leads(x, p, inline)
        BY <1>1, <1>4, <1>5, PushOrder DEF Typed
      <4> QED
        BY <3>1, <4>1, <4>2 DEF Before, Follows
    <3>5. Mine(write_queue, conn, next_msg', origin')
      BY <1>1, <1>7, <3>1, KeptFacts DEF Typed, Recorded
    <3>6. ASSUME NEW w \in writes, w.gen = generation
          PROVE  /\ w.msg < next_msg' /\ origin'[w.msg] = conn
                 /\ Leads(w.msg, p, inline) /\ Fronts(w.msg, write_queue, inline)
                 /\ w.status = "live" => Follows(w.msg, wire[conn], inline)
      <4>1. /\ w.msg < next_msg /\ origin[w.msg] = conn /\ w.msg \in Msgs
            /\ Leads(w.msg, posted[conn], inline) /\ Fronts(w.msg, write_queue, inline)
            /\ w.status = "live" => Follows(w.msg, wire[conn], inline)
        BY <1>1, <2>1, <2>5, <3>6 DEF IInv, Pipeline, Writes
      <4>2. w.msg < next_msg' /\ origin'[w.msg] = conn
        BY <1>7, <4>1 DEF Recorded, Kept
      <4>3. Leads(w.msg, p, inline)
        BY <1>1, <1>4, <1>5, <4>1, PushOrder DEF Typed, Prec
      <4> QED
        BY <4>1, <4>2, <4>3
    <3>7. Pipeline'
      BY <1>2, <1>6, <3>1, <3>2, <3>3, <3>4, <3>5, <3>6 DEF Pipeline
    <3> QED
      BY <1>9, <1>10, <1>11, <2>2, <2>3, <3>7 DEF IInv
  <2> QED
    BY <2>4, <2>5
<1> QED
  BY <1>12, <1>13

\* What close_session() makes of the writes.
Aborted(ws) == {IF w.status = "live" THEN [w EXCEPT !.status = "failed"] ELSE w : w \in ws}

\* A close_session() that takes effect, with whatever else its caller does.
LEMMA CloseInv ==
  ASSUME IInv, NEW ws \in SUBSET writes,
         closed' = TRUE, revived' = FALSE, cleanup, trailing' = trailing + 1,
         writes' = Aborted(ws),
         UNCHANGED <<conn, acquiring, wire>>, Recorded,
         posted' \in [Conns -> Seq(Msgs)],
         \A c \in Conns : posted[c] = <<>> => posted'[c] = <<>>,
         overflow_count' \in 0 .. write_queue_overflow_limit,
         accepted' \in Nat, overflows' \in Nat,
         tampered' \in BOOLEAN, tampered => tampered'
  PROVE  IInv'
<1> USE WriteQueueAssumption
<1>1. Typed /\ Flags /\ \A w \in writes : w \in Writes /\ w.gen <= generation
  BY TypedInv
<1>2. write_queue' = <<>> /\ generation' = generation + 1 /\ generation' \in Nat
  BY <1>1 DEF cleanup, Typed
<1>3. ASSUME NEW v \in writes'
      PROVE  v \in Writes /\ v.gen < generation' /\ v.conn <= conn /\ v.status # "live"
  <2>1. PICK w \in ws : v = IF w.status = "live" THEN [w EXCEPT !.status = "failed"] ELSE w
    BY DEF Aborted
  <2>2. w \in Writes /\ w.gen <= generation /\ w.conn <= conn
    BY <1>1 DEF IInv, Future
  <2>3. v \in Writes /\ v.gen = w.gen /\ v.conn = w.conn /\ v.status # "live"
    <3>1. CASE w.status = "live"
      BY <2>1, <2>2, <3>1 DEF Writes
    <3>2. CASE w.status # "live"
      BY <2>1, <2>2, <3>2
    <3> QED
      BY <3>1, <3>2
  <2> QED
    BY <1>1, <1>2, <2>2, <2>3 DEF Typed, Writes
<1>4. \A v \in writes' : v.gen # generation' /\ v.gen <= generation'
  BY <1>1, <1>2, <1>3 DEF Typed, Writes
<1>5. Typed' /\ Flags'
  <2>1. Flags'
    BY <1>1 DEF Flags
  <2>2. <<>> \in Seq(Msgs) /\ Len(<<>>) = 0
    OBVIOUS
  <2> QED
    BY <1>1, <1>2, <2>1, <2>2 DEF Typed, Recorded
<1>6. TypeOK' /\ writes' \subseteq Writes
  BY <1>3, <1>4, <1>5, TypeOKFrom
<1>7. (Single /\ Slack /\ Dead)'
  BY <1>2, <1>3, <1>4 DEF Single, Slack, Dead
<1>8. KeepsWriting'
  BY DEF KeepsWriting
<1>9. Future' /\ Numbered'
  BY <1>3 DEF IInv, Future, Recorded
<1>10. Undisturbed'
  BY <1>1, <1>3, <1>4 DEF IInv, Undisturbed, Typed
<1>11. WireOrder'
  BY WireOrderKept
<1>12. (Pipeline /\ Ledger /\ Fresh)'
  BY DEF Pipeline, Ledger, Fresh
<1> QED
  BY <1>6, <1>7, <1>8, <1>9, <1>10, <1>11, <1>12 DEF IInv

\* A close that nothing else accompanies.
LEMMA CloseStepInv == IInv /\ Close => IInv'
<1> SUFFICES ASSUME IInv, Close PROVE IInv'
  OBVIOUS
<1>1. Typed /\ Flags
  BY TypedInv
<1>2. UNCHANGED <<overflow_count, conn, acquiring, posted, histVars, tampered>> /\ ~closed
  BY DEF Close
<1>3. CASE /\ closed' = TRUE /\ revived' = FALSE /\ cleanup /\ trailing' = trailing + 1
           /\ writes' = Aborted(writes)
  <2>1. /\ UNCHANGED <<conn, acquiring, next_msg, origin, inline, wire>>
        /\ posted' \in [Conns -> Seq(Msgs)]
        /\ overflow_count' \in 0 .. write_queue_overflow_limit
        /\ accepted' \in Nat /\ overflows' \in Nat /\ tampered' = tampered /\ posted' = posted
    BY <1>1, <1>2 DEF histVars, Typed
  <2>2. tampered' \in BOOLEAN
    BY <1>1, <2>1 DEF Flags
  <2>3. Recorded
    BY <2>1, RecordedSame
  <2> QED
    BY <1>3, <2>1, <2>2, <2>3, CloseInv
<1>4. CASE UNCHANGED <<closed, revived, write_queue, writes, generation, trailing>>
  BY <1>2, <1>4 DEF IInv, histVars, TypeOK, Single, KeepsWriting, Current, Slack, Dead, Future,
     Numbered, Undisturbed, WireOrder, Pipeline, Ledger, Sent, Fresh
<1> QED
  BY <1>3, <1>4 DEF Close, close_session, Aborted

\* The cleanup() steps: the queue is empty and no write counts any more.
LEMMA CleanInv ==
  ASSUME IInv, cleanup, writes' = writes, posted' = posted, wire' = wire, next_msg' = next_msg,
         origin' = origin, inline' = inline, overflow_count' = overflow_count, trailing' \in Nat,
         conn' \in Conns, conn' = conn \/ (closed /\ conn' = conn + 1 /\ ~tampered'),
         closed' \in BOOLEAN, revived' \in BOOLEAN, acquiring' \in BOOLEAN, tampered' \in BOOLEAN,
         accepted' \in Nat, overflows' \in Nat, closed' => closed
  PROVE  /\ TypeOK' /\ writes' \subseteq Writes
         /\ (Single /\ KeepsWriting /\ Slack /\ Dead /\ Future /\ Numbered)'
         /\ \A w \in writes' : w.gen # generation'
<1> USE WriteQueueAssumption
<1>1. Typed /\ Flags /\ \A w \in writes : w \in Writes /\ w.gen <= generation
  BY TypedInv
<1>2. write_queue' = <<>> /\ generation' = generation + 1 /\ generation' \in Nat
  BY <1>1 DEF cleanup, Typed
<1>3. \A w \in writes' : w.gen # generation' /\ w.gen <= generation'
  BY <1>1, <1>2 DEF Typed, Writes
<1>4. conn \in Nat /\ conn' \in Nat /\ conn' >= conn
  BY <1>1 DEF Typed
<1>5. Typed' /\ Flags'
  <2>1. Flags'
    BY DEF Flags
  <2>2. <<>> \in Seq(Msgs) /\ Len(<<>>) = 0
    OBVIOUS
  <2>3. posted'[conn'] \in Seq(Msgs) /\ wire'[conn'] \in Seq(Msgs)
    BY <1>1 DEF Typed
  <2> QED
    BY <1>1, <1>2, <1>4, <2>1, <2>2, <2>3 DEF Typed
<1>6. TypeOK' /\ writes' \subseteq Writes
  BY <1>1, <1>3, <1>5, TypeOKFrom
<1>7. (Single /\ Slack /\ KeepsWriting)'
  BY <1>2, <1>3 DEF Single, Slack, KeepsWriting
<1>8. Dead'
  BY DEF IInv, Dead
<1>9. Future' /\ Numbered'
  <2>1. \A w \in writes : w.conn \in Nat /\ w.conn <= conn
    BY <1>1 DEF IInv, Future, Writes, Conns
  <2>2. \A c \in Conns : c > conn' => c > conn
    BY <1>4 DEF Conns
  <2> QED
    BY <1>4, <2>1, <2>2 DEF IInv, Future, Numbered
<1> QED
  BY <1>3, <1>6, <1>7, <1>8, <1>9

LEMMA TrailingInv == IInv /\ TrailingCleanup => IInv'
<1> SUFFICES ASSUME IInv, TrailingCleanup PROVE IInv'
  OBVIOUS
<1>1. Typed /\ Flags
  BY TypedInv
<1>2. /\ cleanup /\ trailing' = trailing - 1 /\ trailing > 0
      /\ closed' = closed /\ revived' = revived /\ overflow_count' = overflow_count /\ conn' = conn
      /\ acquiring' = acquiring /\ posted' = posted /\ writes' = writes
      /\ next_msg' = next_msg /\ origin' = origin /\ inline' = inline /\ wire' = wire
      /\ accepted' = accepted /\ overflows' = overflows
  BY DEF TrailingCleanup, histVars
<1>3. tampered' = (tampered \/ ~closed)
  BY DEF TrailingCleanup
<1>4. tampered' \in BOOLEAN /\ closed' \in BOOLEAN /\ revived' \in BOOLEAN /\ acquiring' \in BOOLEAN
  BY <1>1, <1>2, <1>3 DEF Flags
<1>5. trailing' \in Nat /\ conn' \in Conns /\ accepted' \in Nat /\ overflows' \in Nat
  BY <1>1, <1>2 DEF Typed
<1>6. /\ TypeOK' /\ writes' \subseteq Writes
      /\ (Single /\ KeepsWriting /\ Slack /\ Dead /\ Future /\ Numbered)'
      /\ \A w \in writes' : w.gen # generation'
  BY <1>2, <1>4, <1>5, CleanInv
<1>7. CASE tampered'
  BY <1>6, <1>7 DEF IInv, Undisturbed, WireOrder, Pipeline, Ledger, Fresh
<1>8. CASE ~tampered'
  <2>1. ~tampered /\ closed /\ closed'
    BY <1>2, <1>3, <1>8
  <2>2. Undisturbed'
    BY <1>2, <1>6, <2>1 DEF IInv, Undisturbed, Dead
  <2>3. WireOrder'
    BY <1>2, <2>1 DEF IInv, WireOrder
  <2> QED
    BY <1>6, <2>1, <2>2, <2>3 DEF IInv, Pipeline, Ledger, Fresh
<1> QED
  BY <1>7, <1>8

LEMMA AcquireInv == IInv /\ AcquireCleanup => IInv'
<1> SUFFICES ASSUME IInv, AcquireCleanup PROVE IInv'
  OBVIOUS
<1>1. Typed /\ Flags
  BY TypedInv
<1>2. /\ cleanup /\ acquiring /\ acquiring' = FALSE
      /\ closed' = closed /\ revived' = revived /\ overflow_count' = overflow_count /\ conn' = conn
      /\ trailing' = trailing /\ posted' = posted /\ writes' = writes
      /\ next_msg' = next_msg /\ origin' = origin /\ inline' = inline /\ wire' = wire
      /\ accepted' = accepted /\ overflows' = overflows /\ tampered' = tampered
  BY DEF AcquireCleanup, histVars
<1>3. tampered' \in BOOLEAN /\ closed' \in BOOLEAN /\ revived' \in BOOLEAN /\ acquiring' \in BOOLEAN
  BY <1>1, <1>2 DEF Flags
<1>4. trailing' \in Nat /\ conn' \in Conns /\ accepted' \in Nat /\ overflows' \in Nat
  BY <1>1, <1>2 DEF Typed
<1>5. /\ TypeOK' /\ writes' \subseteq Writes
      /\ (Single /\ KeepsWriting /\ Slack /\ Dead /\ Future /\ Numbered)'
      /\ \A w \in writes' : w.gen # generation'
  BY <1>2, <1>3, <1>4, CleanInv
<1>6. CASE tampered
  BY <1>2, <1>5, <1>6 DEF IInv, Undisturbed, WireOrder, Pipeline, Ledger, Fresh
<1>7. CASE ~tampered
  <2>1. /\ \A w \in writes : w.status # "live"
        /\ posted[conn] = <<>> /\ wire[conn] = <<>> /\ write_queue' = <<>>
    BY <1>2, <1>7 DEF IInv, Undisturbed, Dead, cleanup
  <2>2. Undisturbed'
    BY <1>2, <2>1 DEF Undisturbed
  <2>3. WireOrder' /\ Pipeline'
    BY <1>2, <1>5, <2>1 DEF WireOrder, Pipeline, Mine, Increasing, Before, Outside, AllFront
  <2>4. Sent' = 0
    BY <1>5 DEF Sent
  <2>5. Ledger' /\ Fresh'
    BY <1>2, <1>7, <2>1, <2>4 DEF IInv, Ledger, Fresh
  <2> QED
    BY <1>5, <2>2, <2>3, <2>5 DEF IInv
<1> QED
  BY <1>6, <1>7

LEMMA ResetInv == IInv /\ reset => IInv'
<1> SUFFICES ASSUME IInv, reset PROVE IInv'
  OBVIOUS
<1>1. Typed /\ Flags
  BY TypedInv
<1>2. /\ cleanup /\ closed /\ closed' = FALSE /\ revived' = FALSE
      /\ acquiring' = TRUE /\ tampered' = FALSE
      /\ conn < MaxConns /\ conn' = conn + 1 /\ accepted' = 0 /\ overflows' = 0
      /\ overflow_count' = overflow_count /\ trailing' = trailing /\ posted' = posted
      /\ writes' = writes /\ next_msg' = next_msg /\ origin' = origin
      /\ inline' = inline /\ wire' = wire
  BY DEF reset
<1>3. trailing' \in Nat /\ conn' \in Conns /\ conn' > conn
  BY <1>1, <1>2, WriteQueueAssumption DEF Typed, Conns
<1>4. /\ TypeOK' /\ writes' \subseteq Writes
      /\ (Single /\ KeepsWriting /\ Slack /\ Dead /\ Future /\ Numbered)'
      /\ \A w \in writes' : w.gen # generation'
  BY <1>2, <1>3, CleanInv
<1>5. /\ \A w \in writes' : w.status # "live"
      /\ posted'[conn'] = <<>> /\ wire'[conn'] = <<>> /\ write_queue' = <<>>
  BY <1>2, <1>3 DEF IInv, Dead, Future, cleanup
<1>6. Undisturbed' /\ WireOrder' /\ Pipeline'
  BY <1>4, <1>5 DEF Undisturbed, WireOrder, Pipeline, Mine, Increasing, Before, Outside, AllFront
<1>7. Ledger' /\ Fresh'
  BY <1>2 DEF Ledger, Fresh
<1> QED
  BY <1>4, <1>6, <1>7 DEF IInv

\* A login that ends late changes nothing that counts on a closed session.
LEMMA RegisteredInv == IInv /\ on_nickname_registered => IInv'
<1> SUFFICES ASSUME IInv, on_nickname_registered PROVE IInv'
  OBVIOUS
<1>1. /\ UNCHANGED <<closed, write_queue, overflow_count, generation, conn, acquiring, trailing, posted,
                     writes, next_msg, origin, inline, wire, accepted, overflows, tampered>>
      /\ revived' \in BOOLEAN
  BY DEF on_nickname_registered, histVars
<1> QED
  BY <1>1 DEF IInv, TypeOK, Single, KeepsWriting, Current, Slack, Dead, Future, Numbered,
     Undisturbed, WireOrder, Pipeline, Ledger, Sent, Fresh

\* The socket takes a message or fails.
LEMMA TransferInv == IInv /\ Transfer => IInv'
<1> SUFFICES ASSUME IInv, Transfer PROVE IInv'
  OBVIOUS
<1> USE WriteQueueAssumption
<1>1. Typed /\ Flags /\ \A w \in writes : w \in Writes /\ w.gen <= generation
  BY TypedInv
<1>2. /\ closed' = closed /\ revived' = revived /\ write_queue' = write_queue
      /\ overflow_count' = overflow_count
      /\ generation' = generation /\ conn' = conn /\ acquiring' = acquiring
      /\ trailing' = trailing /\ posted' = posted /\ next_msg' = next_msg /\ origin' = origin
      /\ inline' = inline
      /\ accepted' = accepted /\ overflows' = overflows /\ tampered' = tampered
  BY DEF Transfer
<1>3. PICK w \in writes, r \in {"ok", "failed"} :
        /\ w.status = "live"
        /\ writes' = (writes \ {w}) \cup {[w EXCEPT !.status = r]}
        /\ \/ r = "ok" /\ wire' = [wire EXCEPT ![w.conn] = Append(@, w.msg)]
           \/ r = "failed" /\ wire' = wire
  BY DEF Transfer
<1>4. w \in Writes /\ w.conn \in Conns /\ w.conn <= conn /\ w.msg \in Msgs /\ ~closed
  BY <1>1, <1>3 DEF IInv, Future, Dead, Writes
<1>5. PICK u \in Writes : /\ u = [w EXCEPT !.status = r] /\ u.gen = w.gen /\ u.conn = w.conn
                          /\ u.msg = w.msg /\ u.status = r
  <2> DEFINE e == [w EXCEPT !.status = r]
  <2>1. e \in Writes /\ e.gen = w.gen /\ e.conn = w.conn /\ e.msg = w.msg /\ e.status = r
    BY <1>4 DEF Writes
  <2> QED
    BY <2>1
<1>6. writes' = (writes \ {w}) \cup {u}
  BY <1>3, <1>5
<1>7. /\ wire[w.conn] \in Seq(Msgs) /\ Len(wire[w.conn]) \in Nat /\ w.msg \in Nat
      /\ \A i \in 1 .. Len(wire[w.conn]) : wire[w.conn][i] \in Nat
  <2>1. wire[w.conn] \in Seq(Msgs)
    BY <1>1, <1>4 DEF Typed
  <2>2. w.msg \in Nat
    BY <1>4 DEF Msgs
  <2> QED
    BY <2>1, <2>2, EntryTypes
<1>8. PICK z \in Seq(Msgs) :
        /\ z = Append(wire[w.conn], w.msg) /\ Len(z) = Len(wire[w.conn]) + 1
        /\ \A i \in 1 .. Len(wire[w.conn]) : z[i] = wire[w.conn][i]
        /\ z[Len(wire[w.conn]) + 1] = w.msg
  <2>1. Append(wire[w.conn], w.msg) \in Seq(Msgs)
    BY <1>4, <1>7, PushFacts
  <2> QED
    BY <1>4, <1>7, <2>1, PushFacts
<1>9. wire' \in [Conns -> Seq(Msgs)] /\ \A c \in Conns : c # w.conn => wire'[c] = wire[c]
  BY <1>1, <1>3, <1>8 DEF Typed
<1>10. Typed' /\ Flags'
  BY <1>1, <1>2, <1>9 DEF Typed, Flags
<1>11. TypeOK' /\ writes' \subseteq Writes
  BY <1>1, <1>2, <1>4, <1>5, <1>6, <1>10, TypeOKFrom
<1>12. (Single /\ Slack /\ Dead /\ Numbered)'
  BY <1>2, <1>3, <1>4, <1>5, <1>6 DEF IInv, Single, Slack, Dead, Numbered
<1>13. KeepsWriting'
  <2>1. SUFFICES ASSUME ~acquiring, write_queue # <<>> PROVE \E v \in writes' : v.gen = generation'
    BY <1>2 DEF KeepsWriting, Current
  <2>2. PICK v \in writes : v.gen = generation
    BY <1>4, <2>1 DEF IInv, KeepsWriting, Current
  <2> QED
    BY <1>2, <1>5, <1>6, <2>2
<1>14. Future'
  <2>1. \A v \in writes' : v.conn <= conn
    BY <1>4, <1>5, <1>6 DEF IInv, Future
  <2>2. \A c \in Conns : c > conn => c # w.conn
    BY <1>1, <1>4 DEF Typed, Conns
  <2>3. \A c \in Conns : c > conn => wire'[c] = <<>> /\ posted'[c] = <<>>
    BY <1>2, <1>9, <2>2 DEF IInv, Future
  <2> QED
    BY <1>2, <2>1, <2>3 DEF Future
<1>15. CASE tampered
  BY <1>2, <1>11, <1>12, <1>13, <1>14, <1>15
     DEF IInv, Undisturbed, WireOrder, Pipeline, Ledger, Fresh
<1>16. CASE ~tampered
  <2>1. w.gen = generation /\ w.conn = conn /\ ~acquiring
    BY <1>3, <1>4, <1>16 DEF IInv, Undisturbed
  <2>2. \A v \in writes' : v.gen = generation => v = u
    BY <1>5, <1>6, <2>1 DEF IInv, Single
  <2>3. Undisturbed' /\ Fresh'
    BY <1>2, <1>3, <1>5, <1>6, <1>16, <2>1 DEF IInv, Undisturbed, Fresh
  <2>4. /\ w.msg < next_msg /\ origin[w.msg] = conn
        /\ Leads(w.msg, posted[conn], inline) /\ Fronts(w.msg, write_queue, inline)
        /\ Follows(w.msg, wire[conn], inline)
    BY <1>3, <1>4, <1>16, <2>1 DEF IInv, Pipeline
  <2>5. /\ Increasing(write_queue, inline) /\ Mine(write_queue, conn, next_msg, origin)
        /\ Increasing(posted[conn], inline) /\ Mine(posted[conn], conn, next_msg, origin)
        /\ Outside(posted[conn], inline)
        /\ Before(write_queue, posted[conn], inline) /\ Before(wire[conn], posted[conn], inline)
        /\ AllFront(wire[conn], write_queue, inline)
        /\ Increasing(wire[conn], inline) /\ Mine(wire[conn], conn, next_msg, origin)
    BY <1>4, <1>16 DEF IInv, Pipeline, WireOrder
  <2>6. accepted + Sent = Len(wire[conn]) + overflows + Len(write_queue) /\ Sent = 0
    <3>1. Sent = 0
      BY <1>3, <2>1 DEF IInv, Single, Sent
    <3> QED
      BY <1>4, <1>16, <2>1, <3>1 DEF IInv, Ledger
  <2>7. CASE r = "ok"
    <3>1. wire'[conn] = z
      BY <1>1, <1>3, <1>8, <2>1, <2>7 DEF Typed
    <3>2. Increasing(z, inline)
      BY <1>4, <1>7, <1>8, <2>1, <2>4, <2>5, PushOrder
    <3>3. \A i \in 1 .. Len(z) :
            z[i] = w.msg \/ (i \in 1 .. Len(wire[conn]) /\ z[i] = wire[conn][i])
      BY <1>7, <1>8, <2>1
    <3>4. /\ Mine(z, conn, next_msg, origin) /\ Before(z, posted[conn], inline)
          /\ AllFront(z, write_queue, inline)
      BY <2>4, <2>5, <3>3 DEF Mine, Before, AllFront
    <3>5. WireOrder'
      BY <1>2, <3>1, <3>2, <3>4 DEF WireOrder
    <3>6. Pipeline'
      BY <1>2, <1>5, <2>2, <2>4, <2>5, <2>7, <3>1, <3>4 DEF Pipeline
    <3>7. Sent' = 1
      BY <1>2, <1>5, <1>6, <2>1, <2>7 DEF Sent
    <3>8. Ledger'
      <4>1. Len(wire'[conn']) = Len(wire[conn]) + 1 /\ Len(wire[conn]) \in Nat
        BY <1>2, <1>7, <1>8, <2>1, <3>1
      <4>2. accepted = Len(wire[conn]) + overflows + Len(write_queue)
        BY <1>1, <2>6 DEF Typed
      <4>3. accepted + 1 = (Len(wire[conn]) + 1) + overflows + Len(write_queue)
        BY <1>1, <4>1, <4>2 DEF Typed
      <4> QED
        BY <1>2, <3>7, <4>1, <4>3 DEF Ledger
    <3> QED
      BY <1>11, <1>12, <1>13, <1>14, <2>3, <3>5, <3>6, <3>8 DEF IInv
  <2>8. CASE r = "failed"
    <3>1. wire' = wire
      BY <1>3, <2>8
    <3>2. WireOrder'
      BY <1>2, <2>5, <3>1 DEF WireOrder
    <3>3. Pipeline'
      BY <1>2, <1>5, <2>2, <2>4, <2>5, <2>8, <3>1 DEF Pipeline
    <3>4. Sent' = 0
      BY <1>2, <1>5, <2>2, <2>8 DEF Sent
    <3>5. Ledger'
      BY <1>2, <2>6, <3>1, <3>4 DEF Ledger
    <3> QED
      BY <1>11, <1>12, <1>13, <1>14, <2>3, <3>2, <3>3, <3>5 DEF IInv
  <2> QED
    BY <2>7, <2>8
<1> QED
  BY <1>15, <1>16

\* do_write_queue where no write counts: at most the new one does.
LEMMA StartFacts ==
  ASSUME IInv, NEW q \in Seq(Msgs), NEW ws \in SUBSET writes, \A w \in ws : w.gen # generation,
         do_write_queue(q, ws), write_queue' = q,
         UNCHANGED <<closed, generation, conn, acquiring>>
  PROVE  /\ writes' \subseteq Writes /\ \A w \in writes' : w.gen <= generation' /\ w.conn <= conn
         /\ Single' /\ KeepsWriting' /\ Dead' /\ Sent' = 0
         /\ \A w \in writes' : w \in ws \/ (q # <<>> /\ w.gen = generation /\ w.conn = conn)
         /\ \A w \in writes' : w.gen = generation =>
              /\ w.msg = Head(q) /\ q # <<>>
              /\ w.status = IF closed THEN "failed" ELSE "live"
<1>1. Typed /\ Flags /\ \A w \in writes : w \in Writes /\ w.gen <= generation
  BY TypedInv
<1>2. \A w \in ws : w \in Writes /\ w.gen <= generation /\ w.conn <= conn
  BY <1>1 DEF IInv, Future
<1>3. CASE Closed \/ q = <<>>
  <2>1. writes' = ws
    BY <1>3 DEF do_write_queue
  <2>2. Single' /\ KeepsWriting' /\ Dead' /\ Sent' = 0
    BY <1>3, <2>1 DEF IInv, Single, KeepsWriting, Dead, Sent, Closed
  <2> QED
    BY <1>2, <2>1, <2>2
<1>4. CASE ~Closed /\ q # <<>>
  <2>1. Head(q) \in Msgs
    BY <1>4, PopFacts
  <2>2. PICK u \in Writes : /\ u = Write(q) /\ u.gen = generation /\ u.conn = conn
                            /\ u.msg = Head(q) /\ u.status = IF closed THEN "failed" ELSE "live"
    <3> DEFINE e == [conn |-> conn, gen |-> generation, msg |-> Head(q),
                     status |-> IF closed THEN "failed" ELSE "live"]
    <3>1. e \in Writes
      BY <1>1, <2>1 DEF Writes, Typed
    <3>2. e = Write(q)
      BY DEF Write
    <3> QED
      BY <3>1, <3>2
  <2>3. writes' = ws \cup {u}
    BY <1>4, <2>2 DEF do_write_queue
  <2>4. generation <= generation /\ conn <= conn
    BY <1>1 DEF Typed
  <2>5. Single' /\ Sent' = 0
    BY <1>4, <2>2, <2>3 DEF Single, Sent
  <2>6. Dead'
    BY <2>2, <2>3 DEF IInv, Dead
  <2>7. KeepsWriting'
    BY <2>2, <2>3 DEF KeepsWriting, Current
  <2> QED
    BY <1>2, <1>4, <2>2, <2>3, <2>4, <2>5, <2>6, <2>7
<1> QED
  BY <1>3, <1>4

\* A write completes that does not count.
LEMMA StaleInv ==
  ASSUME IInv, NEW w \in writes, w.gen # generation, writes' = writes \ {w},
         UNCHANGED <<closed, revived, write_queue, generation, trailing, overflow_count, conn, acquiring,
                     posted, histVars, tampered>>
  PROVE  IInv'
<1>1. \A v : v \in writes' /\ v.gen = generation <=> v \in writes /\ v.gen = generation
  OBVIOUS
<1>2. TypeOK' /\ writes' \subseteq Writes
  BY DEF IInv, TypeOK, histVars
<1>3. (Single /\ KeepsWriting /\ Slack /\ Dead /\ Future /\ Numbered)'
  BY <1>1 DEF IInv, Single, KeepsWriting, Current, Slack, Dead, Future, Numbered, histVars
<1>4. Undisturbed' /\ WireOrder' /\ Fresh'
  BY DEF IInv, Undisturbed, WireOrder, Fresh, histVars
<1>5. Pipeline'
  BY DEF IInv, Pipeline, histVars
<1>6. Sent' = Sent
  BY <1>1 DEF Sent
<1>7. Ledger'
  BY <1>6 DEF IInv, Ledger, histVars
<1> QED
  BY <1>2, <1>3, <1>4, <1>5, <1>7 DEF IInv

\* The handler of the write that counts, for a message that was sent.
LEMMA NextWriteInv ==
  ASSUME IInv, NEW w \in writes, w.gen = generation, w.status = "ok",
         write_queue' = Tail(write_queue), do_write_queue(write_queue', writes \ {w}),
         UNCHANGED <<closed, revived, generation, trailing, overflow_count, conn, acquiring, posted,
                     histVars, tampered>>
  PROVE  IInv'
<1> USE WriteQueueAssumption
<1>1. Typed /\ Flags /\ \A v \in writes : v \in Writes /\ v.gen <= generation
  BY TypedInv
<1>2. write_queue # <<>> /\ \A v \in writes \ {w} : v.gen # generation
  BY DEF IInv, Single
<1>3. PICK q \in Seq(Msgs) :
        /\ q = Tail(write_queue) /\ Len(q) = Len(write_queue) - 1 /\ Len(q) \in Nat
        /\ \A i \in 1 .. Len(q) : i + 1 \in 1 .. Len(write_queue) /\ q[i] = write_queue[i + 1]
  BY <1>1, <1>2, PopFacts DEF Typed
<1>4. /\ writes' \subseteq Writes /\ \A v \in writes' : v.gen <= generation' /\ v.conn <= conn
      /\ Single' /\ KeepsWriting' /\ Dead' /\ Sent' = 0
      /\ \A v \in writes' : v \in writes \ {w} \/ (q # <<>> /\ v.gen = generation /\ v.conn = conn)
      /\ \A v \in writes' : v.gen = generation =>
           /\ v.msg = Head(q) /\ q # <<>>
           /\ v.status = IF closed THEN "failed" ELSE "live"
  BY <1>2, <1>3, StartFacts
<1>5. Typed' /\ Flags'
  BY <1>1, <1>3 DEF Typed, Flags, histVars
<1>6. TypeOK'
  BY <1>4, <1>5, TypeOKFrom
<1>7. Slack' /\ Future' /\ Numbered'
  BY <1>1, <1>3, <1>4 DEF IInv, Slack, Future, Numbered, Typed, histVars
<1>8. WireOrder' /\ Fresh'
  BY DEF IInv, WireOrder, Fresh, histVars
<1>9. CASE tampered \/ closed
  <2>1. Undisturbed'
    BY <1>4, <1>9 DEF IInv, Undisturbed, histVars
  <2> QED
    BY <1>4, <1>6, <1>7, <1>8, <1>9, <2>1 DEF IInv, Pipeline, Ledger
<1>10. CASE ~tampered /\ ~closed
  <2>1. ~acquiring /\ Undisturbed'
    BY <1>4, <1>10 DEF IInv, Undisturbed
  <2>2. /\ Increasing(write_queue, inline) /\ Mine(write_queue, conn, next_msg, origin)
        /\ Increasing(posted[conn], inline) /\ Mine(posted[conn], conn, next_msg, origin)
        /\ Outside(posted[conn], inline)
        /\ Before(write_queue, posted[conn], inline) /\ Before(wire[conn], posted[conn], inline)
        /\ AllFront(wire[conn], write_queue, inline)
    BY <1>10 DEF IInv, Pipeline
  <2>3. Increasing(q, inline) /\ Mine(q, conn, next_msg, origin) /\ Before(q, posted[conn], inline)
    <3>1. Increasing(q, inline)
      BY <1>1, <1>2, <1>3, <2>2, PopOrder DEF Typed
    <3>2. \A i \in 1 .. Len(q) : \E k \in 1 .. Len(write_queue) : q[i] = write_queue[k]
      BY <1>3
    <3>3. Mine(q, conn, next_msg, origin)
      BY <2>2, <3>2 DEF Mine
    <3>4. Before(q, posted[conn], inline)
      BY <2>2, <3>2 DEF Before
    <3> QED
      BY <3>1, <3>3, <3>4
  <2>4. \A i \in 1 .. Len(wire[conn]) : Leads(wire[conn][i], q, inline)
    BY <1>1, <1>2, <1>3, <2>2, PopOrder DEF Typed, AllFront
  <2>5. AllFront(wire[conn], q, inline)
    BY <2>4 DEF AllFront, Leads, Fronts
  <2>6. ASSUME NEW v \in writes', v.gen = generation
        PROVE  /\ v.msg < next_msg /\ origin[v.msg] = conn
               /\ Leads(v.msg, posted[conn], inline) /\ Fronts(v.msg, q, inline)
               /\ v.status = "live" => Follows(v.msg, wire[conn], inline)
    <3>1. q # <<>> /\ v.msg = q[1] /\ 1 \in 1 .. Len(q)
      BY <1>4, <2>6, PopFacts
    <3>2. v.msg < next_msg /\ origin[v.msg] = conn /\ Leads(v.msg, posted[conn], inline)
      BY <2>3, <3>1 DEF Mine, Before
    <3>3. Fronts(v.msg, q, inline)
      <4>1. SUFFICES ASSUME NEW k \in 1 .. Len(q), k # 1 PROVE Prec(q[1], q[k], inline)
        BY <3>1 DEF Fronts
      <4>2. 1 < k
        BY <1>3, <4>1
      <4> QED
        BY <2>3, <3>1, <4>2 DEF Increasing
    <3>4. Follows(v.msg, wire[conn], inline)
      BY <2>4, <3>1 DEF Leads, Follows
    <3> QED
      BY <3>2, <3>3, <3>4
  <2>7. Pipeline'
    BY <1>3, <2>2, <2>3, <2>5, <2>6 DEF Pipeline, histVars
  <2>8. Sent = 1
    BY DEF Sent
  <2>9. Ledger'
    <3>1. accepted + 1 = Len(wire[conn]) + overflows + Len(write_queue)
      BY <1>10, <2>1, <2>8 DEF IInv, Ledger
    <3>2. accepted + 0 = Len(wire[conn]) + overflows + Len(q)
      BY <1>1, <1>3, <3>1 DEF Typed
    <3> QED
      BY <1>3, <1>4, <3>2 DEF Ledger, histVars
  <2> QED
    BY <1>4, <1>6, <1>7, <1>8, <2>1, <2>7, <2>9 DEF IInv
<1> QED
  BY <1>9, <1>10

\* A close_session() that is refused: another one is under way.
LEMMA RefusedInv ==
  ASSUME IInv, NEW w \in writes, w.gen = generation, closed \/ acquiring, writes' = writes \ {w},
         UNCHANGED <<closed, revived, write_queue, generation, trailing, overflow_count, conn, acquiring,
                     posted, histVars, tampered>>
  PROVE  IInv'
<1>1. tampered \/ closed
  BY DEF IInv, Undisturbed
<1>2. TypeOK' /\ writes' \subseteq Writes
  BY DEF IInv, TypeOK, histVars
<1>3. (Single /\ KeepsWriting /\ Slack /\ Dead /\ Future /\ Numbered)'
  BY DEF IInv, Single, KeepsWriting, Slack, Dead, Future, Numbered, histVars
<1>4. Undisturbed' /\ WireOrder' /\ Fresh'
  BY DEF IInv, Undisturbed, WireOrder, Fresh, histVars
<1>5. Pipeline' /\ Ledger'
  BY <1>1 DEF Pipeline, Ledger
<1> QED
  BY <1>2, <1>3, <1>4, <1>5 DEF IInv

LEMMA WriteHandlerInv == IInv /\ WriteHandler => IInv'
<1> SUFFICES ASSUME IInv, WriteHandler PROVE IInv'
  OBVIOUS
<1>1. Typed /\ Flags
  BY TypedInv
<1>2. UNCHANGED <<overflow_count, conn, acquiring, posted, histVars, tampered>>
  BY DEF WriteHandler
<1>3. PICK w \in writes :
        /\ w.status # "live"
        /\ \/ /\ w.gen # generation /\ writes' = writes \ {w}
              /\ UNCHANGED <<closed, revived, write_queue, generation, trailing>>
           \/ /\ w.gen = generation /\ close_session(write_queue, writes \ {w})
           \/ /\ w.gen = generation /\ w.status = "ok" /\ write_queue' = Tail(write_queue)
              /\ do_write_queue(write_queue', writes \ {w})
              /\ UNCHANGED <<closed, revived, generation, trailing>>
  BY DEF WriteHandler, Stale
<1>4. CASE /\ w.gen # generation /\ writes' = writes \ {w}
           /\ UNCHANGED <<closed, revived, write_queue, generation, trailing>>
  BY <1>2, <1>4, StaleInv
<1>5. CASE w.gen = generation /\ close_session(write_queue, writes \ {w})
  <2>1. CASE /\ closed' = TRUE /\ revived' = FALSE /\ cleanup /\ trailing' = trailing + 1
             /\ writes' = Aborted(writes \ {w})
    <3>1. /\ UNCHANGED <<conn, acquiring, next_msg, origin, inline, wire>>
          /\ posted' \in [Conns -> Seq(Msgs)]
          /\ overflow_count' \in 0 .. write_queue_overflow_limit
          /\ accepted' \in Nat /\ overflows' \in Nat /\ tampered' = tampered /\ posted' = posted
      BY <1>1, <1>2 DEF histVars, Typed
    <3>2. tampered' \in BOOLEAN /\ writes \ {w} \in SUBSET writes
      BY <1>1, <3>1 DEF Flags
    <3>3. Recorded
      BY <3>1, RecordedSame
    <3> QED
      BY <2>1, <3>1, <3>2, <3>3, CloseInv
  <2>2. CASE /\ closed \/ acquiring
             /\ writes' = writes \ {w}
             /\ UNCHANGED <<closed, revived, write_queue, generation, trailing>>
    BY <1>2, <1>5, <2>2, RefusedInv
  <2> QED
    BY <1>5, <2>1, <2>2 DEF close_session, Aborted
<1>6. CASE /\ w.gen = generation /\ w.status = "ok" /\ write_queue' = Tail(write_queue)
           /\ do_write_queue(write_queue', writes \ {w})
           /\ UNCHANGED <<closed, revived, generation, trailing>>
  BY <1>2, <1>6, NextWriteInv
<1> QED
  BY <1>3, <1>4, <1>5, <1>6

-----------------------------------------------------------------------------
(* The function of post_write, on the strand or at once.                   *)

\* What accepting the message m comes with, whatever enqueue_write does: what
\* came before all that waits on the strand comes before m, and m before what
\* is left there.
Accepts(m) ==
  /\ m \in Msgs /\ Recorded
  /\ posted' \in [Conns -> Seq(Msgs)]
  /\ \A d \in Conns : posted[d] = <<>> => posted'[d] = <<>>
  /\ tampered' \in BOOLEAN /\ (tampered => tampered')
  /\ conn' = conn /\ acquiring' = acquiring /\ wire' = wire
  /\ ~tampered' /\ ~closed =>
       /\ ~acquiring /\ m < next_msg' /\ origin'[m] = conn
       /\ Increasing(posted'[conn], inline') /\ Mine(posted'[conn], conn, next_msg', origin')
       /\ Outside(posted'[conn], inline') /\ Leads(m, posted'[conn], inline')
       /\ \A x \in Msgs : x < next_msg /\ Leads(x, posted[conn], inline) =>
            Prec(x, m, inline') /\ Leads(x, posted'[conn], inline')

\* A function that waited is the first on its strand.
LEMMA RunPostAccepts == ASSUME IInv, NEW c \in Conns, RunPost(c) PROVE Accepts(Head(posted[c]))
<1>1. Typed /\ Flags
  BY TypedInv
<1>2. posted[c] # <<>> /\ posted[c] \in Seq(Msgs) /\ posted' = [posted EXCEPT ![c] = Tail(@)]
  BY <1>1 DEF RunPost, Typed
<1>3. Head(posted[c]) \in Msgs /\ Tail(posted[c]) \in Seq(Msgs)
  BY <1>2, PopFacts
<1>4. /\ posted' \in [Conns -> Seq(Msgs)] /\ posted'[c] = Tail(posted[c])
      /\ \A d \in Conns : posted[d] = <<>> => posted'[d] = <<>>
  BY <1>1, <1>2, <1>3 DEF Typed
<1>5. /\ conn' = conn /\ acquiring' = acquiring /\ wire' = wire
      /\ next_msg' = next_msg /\ origin' = origin /\ inline' = inline
      /\ tampered' = (tampered \/ (c # conn /\ ~closed))
  BY DEF RunPost
<1>6. Recorded
  BY <1>5, RecordedSame
<1>7. ASSUME ~tampered', ~closed
      PROVE  /\ ~acquiring /\ Head(posted[c]) < next_msg' /\ origin'[Head(posted[c])] = conn
             /\ Increasing(posted'[conn], inline') /\ Mine(posted'[conn], conn, next_msg', origin')
             /\ Outside(posted'[conn], inline') /\ Leads(Head(posted[c]), posted'[conn], inline')
             /\ \A x \in Msgs : x < next_msg /\ Leads(x, posted[conn], inline) =>
                  Prec(x, Head(posted[c]), inline') /\ Leads(x, posted'[conn], inline')
  <2>1. c = conn /\ ~tampered /\ ~acquiring
    BY <1>2, <1>5, <1>7 DEF IInv, Undisturbed
  <2>2. /\ Increasing(posted[c], inline) /\ Mine(posted[c], conn, next_msg, origin)
        /\ Outside(posted[c], inline)
    BY <1>7, <2>1 DEF IInv, Pipeline
  <2>3. /\ Increasing(Tail(posted[c]), inline) /\ Leads(Head(posted[c]), Tail(posted[c]), inline)
        /\ \A x : Leads(x, posted[c], inline) =>
             Prec(x, Head(posted[c]), inline) /\ Leads(x, Tail(posted[c]), inline)
    BY <1>2, <2>2, PopOrder
  <2>4. /\ Head(posted[c]) = posted[c][1] /\ 1 \in 1 .. Len(posted[c])
        /\ \A i \in 1 .. Len(Tail(posted[c])) :
             \E k \in 1 .. Len(posted[c]) : Tail(posted[c])[i] = posted[c][k]
    BY <1>2, PopFacts
  <2>5. /\ Head(posted[c]) < next_msg /\ origin[Head(posted[c])] = conn
        /\ Mine(Tail(posted[c]), conn, next_msg, origin) /\ Outside(Tail(posted[c]), inline)
    BY <2>2, <2>4 DEF Mine, Outside
  <2> QED
    BY <1>4, <1>5, <2>1, <2>3, <2>5
<1>8. tampered' \in BOOLEAN
  BY <1>5
<1> QED
  BY <1>3, <1>4, <1>5, <1>6, <1>7, <1>8 DEF Accepts

\* A message posted in a handler of the strand comes after all that was taken
\* from the strand, and before all that is on it.
LEMMA PostInlineAccepts == ASSUME IInv, PostInline PROVE Accepts(next_msg)
<1> USE WriteQueueAssumption
<1>1. Typed /\ Flags
  BY TypedInv
<1>2. /\ ~acquiring /\ next_msg <= MaxMsgs /\ next_msg' = next_msg + 1
      /\ origin' = [origin EXCEPT ![next_msg] = conn] /\ inline' = inline \cup {next_msg}
      /\ posted' = posted /\ conn' = conn /\ acquiring' = acquiring /\ wire' = wire
      /\ tampered' = tampered
  BY DEF PostInline
<1>3. next_msg \in Msgs /\ next_msg \in Nat
  BY <1>1, <1>2 DEF Typed, Msgs
<1>4. Recorded
  <2>1. /\ next_msg' \in 1 .. MaxMsgs + 1 /\ origin' \in [Msgs -> Conns \cup {0}]
        /\ inline' \subseteq Msgs
    BY <1>1, <1>2, <1>3 DEF Typed
  <2>2. Kept
    BY <1>1, <1>2, <1>3 DEF Typed, Msgs, Kept
  <2>3. Numbered'
    BY <1>1, <1>2, <1>3 DEF IInv, Numbered, Typed, Msgs
  <2> QED
    BY <2>1, <2>2, <2>3 DEF Recorded
<1>5. ASSUME ~tampered, ~closed
      PROVE  /\ next_msg < next_msg' /\ origin'[next_msg] = conn
             /\ Increasing(posted[conn], inline') /\ Mine(posted[conn], conn, next_msg', origin')
             /\ Outside(posted[conn], inline') /\ Leads(next_msg, posted[conn], inline')
             /\ \A x \in Msgs : x < next_msg /\ Leads(x, posted[conn], inline) =>
                  Prec(x, next_msg, inline') /\ Leads(x, posted[conn], inline')
  <2>1. /\ Increasing(posted[conn], inline) /\ Mine(posted[conn], conn, next_msg, origin)
        /\ Outside(posted[conn], inline)
    BY <1>5 DEF IInv, Pipeline
  <2>2. /\ Increasing(posted[conn], inline') /\ Mine(posted[conn], conn, next_msg', origin')
        /\ Outside(posted[conn], inline')
        /\ \A x \in Msgs : x < next_msg /\ Leads(x, posted[conn], inline)
                            => Leads(x, posted[conn], inline')
    BY <1>1, <1>4, <2>1, KeptFacts DEF Typed, Recorded
  <2>3. Leads(next_msg, posted[conn], inline')
    BY <1>2, <2>1, <2>2 DEF Mine, Outside, Leads, Prec
  <2>4. next_msg < next_msg' /\ origin'[next_msg] = conn
    BY <1>1, <1>2, <1>3 DEF Typed
  <2> QED
    BY <2>2, <2>3, <2>4 DEF Prec
<1> QED
  BY <1>1, <1>2, <1>3, <1>4, <1>5 DEF Accepts, Typed, Flags

\* The message joins what enqueue_write keeps of the queue, b.
Joins(b, q, m) ==
  /\ b \in Seq(Msgs) /\ q \in Seq(Msgs) /\ m \in Msgs
  /\ Len(b) \in Nat /\ Len(b) < max_write_queue_size
  /\ Full => Len(b) = Len(write_queue) - 1
  /\ ~Full => Len(b) = Len(write_queue)
  /\ \A i \in 1 .. Len(b) : \E j \in 1 .. Len(write_queue) : b[i] = write_queue[j]
  /\ \A h : Increasing(write_queue, h) => Increasing(b, h)
  /\ \A x, h : Fronts(x, write_queue, h) => Fronts(x, b, h)
  /\ q = Append(b, m) /\ q # <<>> /\ Len(q) = Len(b) + 1 /\ Len(q) \in Nat
  /\ \A i \in 1 .. Len(q) : q[i] = m \/ (i \in 1 .. Len(b) /\ q[i] = b[i])

\* Then the order of the messages is kept,
LEMMA JoinsOrder ==
  ASSUME IInv, NEW m, Accepts(m), NEW b, NEW q, Joins(b, q, m), ~tampered', ~closed
  PROVE  /\ Increasing(q, inline') /\ Mine(q, conn, next_msg', origin')
         /\ Before(q, posted'[conn], inline') /\ Before(wire[conn], posted'[conn], inline')
         /\ AllFront(wire[conn], q, inline') /\ Follows(m, wire[conn], inline')
         /\ \A w \in writes : w.gen = generation =>
              /\ w.msg < next_msg' /\ origin'[w.msg] = conn
              /\ Leads(w.msg, posted'[conn], inline') /\ Fronts(w.msg, q, inline')
              /\ w.status = "live" => Follows(w.msg, wire[conn], inline')
<1>1. Typed /\ \A w \in writes : w \in Writes
  BY TypedInv
<1>2. /\ m \in Msgs /\ Kept /\ ~tampered /\ m < next_msg' /\ origin'[m] = conn
      /\ Leads(m, posted'[conn], inline')
      /\ \A x \in Msgs : x < next_msg /\ Leads(x, posted[conn], inline) =>
           Prec(x, m, inline') /\ Leads(x, posted'[conn], inline')
  BY DEF Accepts, Recorded
<1>3. /\ Increasing(write_queue, inline) /\ Mine(write_queue, conn, next_msg, origin)
      /\ Before(write_queue, posted[conn], inline) /\ Before(wire[conn], posted[conn], inline)
      /\ AllFront(wire[conn], write_queue, inline) /\ Mine(wire[conn], conn, next_msg, origin)
  BY <1>2 DEF IInv, Pipeline, WireOrder
<1>4. /\ Increasing(write_queue, inline') /\ Mine(write_queue, conn, next_msg', origin')
      /\ AllFront(wire[conn], write_queue, inline')
      /\ \A x \in Msgs : x < next_msg =>
           (Fronts(x, write_queue, inline) => Fronts(x, write_queue, inline'))
  BY <1>1, <1>2, <1>3, KeptFacts DEF Typed
<1>5. \A i \in 1 .. Len(wire[conn]) :
        Prec(wire[conn][i], m, inline') /\ Leads(wire[conn][i], posted'[conn], inline')
  <2>1. \A i \in 1 .. Len(wire[conn]) : wire[conn][i] \in Msgs /\ wire[conn][i] < next_msg
    BY <1>1, <1>3, EntryTypes DEF Typed, Mine
  <2> QED
    BY <1>2, <1>3, <2>1 DEF Before
<1>6. \A i \in 1 .. Len(write_queue) :
        Prec(write_queue[i], m, inline') /\ Leads(write_queue[i], posted'[conn], inline')
  <2>1. \A i \in 1 .. Len(write_queue) : write_queue[i] \in Msgs /\ write_queue[i] < next_msg
    BY <1>1, <1>3, EntryTypes DEF Typed, Mine
  <2> QED
    BY <1>2, <1>3, <2>1 DEF Before
<1>7. b \in Seq(Msgs) /\ q = Append(b, m) /\ Increasing(b, inline') /\ Follows(m, b, inline')
  BY <1>4, <1>6 DEF Joins, Follows
<1>8. /\ Increasing(q, inline')
      /\ \A x : Fronts(x, write_queue, inline') /\ Prec(x, m, inline') => Fronts(x, q, inline')
  <2>1. Increasing(q, inline')
    BY <1>2, <1>7, PushOrder
  <2>2. \A x : Fronts(x, write_queue, inline') => Fronts(x, b, inline')
    BY DEF Joins
  <2>3. \A x : Fronts(x, b, inline') /\ Prec(x, m, inline') => Fronts(x, q, inline')
    BY <1>2, <1>7, PushOrder
  <2> QED
    BY <2>1, <2>2, <2>3
<1>9. \A i \in 1 .. Len(q) : q[i] = m \/ \E j \in 1 .. Len(write_queue) : q[i] = write_queue[j]
  BY DEF Joins
<1>10. Mine(q, conn, next_msg', origin') /\ Before(q, posted'[conn], inline')
  <2>1. Mine(q, conn, next_msg', origin')
    BY <1>2, <1>4, <1>9 DEF Mine
  <2>2. Before(q, posted'[conn], inline')
    BY <1>2, <1>6, <1>9 DEF Before
  <2> QED
    BY <2>1, <2>2
<1>11. /\ Before(wire[conn], posted'[conn], inline') /\ AllFront(wire[conn], q, inline')
       /\ Follows(m, wire[conn], inline')
  BY <1>4, <1>5, <1>8 DEF Before, AllFront, Follows
<1>12. ASSUME NEW w \in writes, w.gen = generation
       PROVE  /\ w.msg < next_msg' /\ origin'[w.msg] = conn
              /\ Leads(w.msg, posted'[conn], inline') /\ Fronts(w.msg, q, inline')
              /\ w.status = "live" => Follows(w.msg, wire[conn], inline')
  <2>1. /\ w.msg \in Msgs /\ w.msg < next_msg /\ origin[w.msg] = conn
        /\ Leads(w.msg, posted[conn], inline) /\ Fronts(w.msg, write_queue, inline)
        /\ w.status = "live" => Follows(w.msg, wire[conn], inline)
    BY <1>1, <1>2, <1>12 DEF IInv, Pipeline, Writes
  <2>2. Prec(w.msg, m, inline') /\ Leads(w.msg, posted'[conn], inline')
    BY <1>2, <2>1
  <2>3. Fronts(w.msg, q, inline')
    BY <1>4, <1>8, <2>1, <2>2
  <2>4. w.status = "live" => Follows(w.msg, wire[conn], inline')
    BY <1>1, <1>2, <1>3, <2>1, KeptFacts DEF Typed
  <2>5. w.msg < next_msg' /\ origin'[w.msg] = conn
    BY <1>2, <2>1 DEF Kept
  <2> QED
    BY <2>2, <2>3, <2>4, <2>5
<1> QED
  BY <1>8, <1>10, <1>11, <1>12

\* and so is the ledger.
Counted ==
  /\ accepted' = accepted + 1 /\ overflows' = overflows + (IF Full THEN 1 ELSE 0)
  /\ accepted' \in Nat /\ overflows' \in Nat

LEMMA JoinsLedger ==
  ASSUME IInv, NEW m, Accepts(m), Counted, NEW b, NEW q, Joins(b, q, m), ~tampered', ~closed
  PROVE  accepted' + Sent = Len(wire[conn]) + overflows' + Len(q)
<1>1. Typed
  BY TypedInv
<1>2. ~tampered /\ ~acquiring
  BY DEF Accepts
<1>3. accepted + Sent = Len(wire[conn]) + overflows + Len(write_queue) /\ Sent \in Nat
  BY <1>2 DEF IInv, Ledger, Sent
<1>4. /\ Len(wire[conn]) \in Nat /\ accepted \in Nat /\ overflows \in Nat
      /\ Len(write_queue) \in Nat
  BY <1>1 DEF Typed
<1>5. accepted' = accepted + 1 /\ overflows' = overflows + (IF Full THEN 1 ELSE 0)
  BY DEF Counted
<1>6. overflows' + Len(q) = overflows + Len(write_queue) + 1 /\ overflows' \in Nat /\ Len(q) \in Nat
  <2>1. CASE Full
    <3>1. Len(q) = Len(write_queue) /\ overflows' = overflows + 1
      BY <1>4, <1>5, <2>1 DEF Joins
    <3> QED
      BY <1>4, <3>1
  <2>2. CASE ~Full
    <3>1. Len(q) = Len(write_queue) + 1 /\ overflows' = overflows
      BY <1>4, <1>5, <2>2 DEF Joins
    <3> QED
      BY <1>4, <3>1
  <2> QED
    BY <2>1, <2>2
<1>7. accepted' = accepted + 1
  BY <1>5
<1>8. PICK x \in Nat, a \in Nat, y \in Nat, o \in Nat, l \in Nat :
        /\ x = Sent /\ a = accepted /\ y = Len(wire[conn]) /\ o = overflows
        /\ l = Len(write_queue) /\ a + x = y + o + l
  BY <1>3, <1>4
<1>9. PICK p \in Nat, k \in Nat : p = overflows' /\ k = Len(q) /\ p + k = o + l + 1
  BY <1>6, <1>8
<1>10. (a + 1) + x = y + p + k
  <2>1. a + x = y + o + l
    BY <1>8
  <2>2. p + k = o + l + 1
    BY <1>9
  <2> QED
    BY <2>1, <2>2
<1> QED
  BY <1>7, <1>8, <1>9, <1>10

\* The parts of the invariant that neither the queue nor the writes are in.
LEMMA AcceptedInv ==
  ASSUME IInv, NEW m, Accepts(m), closed' = closed,
         ~tampered' => \A w \in writes' : w.status = "live" => w.gen = generation' /\ w.conn = conn,
         \A w \in writes' : w.conn <= conn
  PROVE  Undisturbed' /\ WireOrder' /\ Fresh' /\ Future' /\ Numbered'
<1>1. Typed /\ Flags
  BY TypedInv
<1>2. /\ conn' = conn /\ acquiring' = acquiring /\ wire' = wire /\ Recorded
      /\ tampered => tampered'
  BY DEF Accepts
<1>3. Future' /\ Numbered'
  BY <1>2 DEF IInv, Future, Accepts, Recorded
<1>4. WireOrder'
  BY <1>2, WireOrderKept
<1>5. CASE tampered'
  BY <1>3, <1>4, <1>5 DEF Undisturbed, Fresh
<1>6. CASE ~tampered'
  <2>1. ~tampered /\ (~closed => ~acquiring)
    BY <1>6 DEF Accepts
  <2>2. acquiring => posted'[conn] = <<>> /\ wire[conn] = <<>>
    BY <1>1, <2>1 DEF IInv, Undisturbed, Accepts, Typed
  <2>3. Undisturbed' /\ Fresh'
    BY <1>2, <1>6, <2>1, <2>2 DEF Undisturbed, Fresh
  <2> QED
    BY <1>3, <1>4, <2>3
<1> QED
  BY <1>5, <1>6

\* enqueue_write keeps the message.
LEMMA PushedInv ==
  ASSUME IInv, NEW m, Accepts(m), Counted, NEW b, NEW q, Joins(b, q, m), write_queue' = q,
         overflow_count' \in 0 .. write_queue_overflow_limit,
         overflow_count' # write_queue_overflow_limit,
         UNCHANGED <<closed, revived, generation, trailing>>,
         write_queue # <<>> => writes' = writes,
         write_queue = <<>> => do_write_queue(q, writes)
  PROVE  IInv'
<1>1. Typed /\ Flags /\ \A v \in writes : v \in Writes /\ v.gen <= generation
  BY TypedInv
<1>2. /\ conn' = conn /\ acquiring' = acquiring /\ wire' = wire /\ Recorded
  BY DEF Accepts
<1>3. q \in Seq(Msgs) /\ q # <<>> /\ Len(q) \in Nat /\ Len(q) <= max_write_queue_size
  BY WriteQueueAssumption DEF Joins
<1>4. Typed' /\ Flags' /\ Slack'
  <2>1. Flags'
    BY <1>1, <1>2 DEF Flags, Accepts
  <2>2. posted'[conn'] \in Seq(Msgs) /\ posted' \in [Conns -> Seq(Msgs)]
        /\ accepted' \in Nat /\ overflows' \in Nat
    BY <1>1, <1>2 DEF Accepts, Counted, Typed
  <2> QED
    BY <1>1, <1>2, <1>3, <2>1, <2>2 DEF Typed, Slack, Recorded
<1>5. /\ writes' \subseteq Writes /\ \A w \in writes' : w.gen <= generation' /\ w.conn <= conn
      /\ Single' /\ KeepsWriting' /\ Dead' /\ Sent' = Sent
      /\ \A w \in writes' : w \in writes \/ (w.gen = generation /\ w.conn = conn)
      /\ \A w \in writes' : w.gen = generation => w \in writes \/ (w.msg = m /\ q = <<m>>)
  <2>1. CASE write_queue # <<>>
    <3>1. writes' = writes
      BY <2>1
    <3>2. Single' /\ KeepsWriting' /\ Dead' /\ Sent' = Sent
      BY <1>2, <1>3, <2>1, <3>1 DEF IInv, Single, KeepsWriting, Current, Dead, Sent
    <3>3. \A w \in writes : w.conn <= conn
      BY DEF IInv, Future
    <3> QED
      BY <1>1, <3>1, <3>2, <3>3
  <2>2. CASE write_queue = <<>>
    <3>1. \A w \in writes : w.gen # generation
      BY <2>2 DEF IInv, Single
    <3>2. Sent = 0
      BY <3>1 DEF Sent
    <3>3. writes \in SUBSET writes
      OBVIOUS
    <3>4. b = <<>>
      <4>1. Len(write_queue) = 0 /\ ~Full
        BY <2>2, WriteQueueAssumption DEF Full
      <4> QED
        BY <4>1, EmptySeq DEF Joins
    <3>5. Head(q) = m /\ q = <<m>>
      BY <3>4 DEF Joins
    <3> QED
      BY <1>2, <1>3, <2>2, <3>1, <3>2, <3>3, <3>5, StartFacts
  <2> QED
    BY <2>1, <2>2
<1>6. TypeOK'
  BY <1>4, <1>5, TypeOKFrom
<1>7. Undisturbed' /\ WireOrder' /\ Fresh' /\ Future' /\ Numbered'
  <2>1. tampered => tampered'
    BY DEF Accepts
  <2>2. ~tampered' => \A w \in writes' : w.status = "live" => w.gen = generation' /\ w.conn = conn
    BY <1>5, <2>1 DEF IInv, Undisturbed
  <2> QED
    BY <1>5, <2>2, AcceptedInv
<1>8. CASE tampered' \/ closed
  <2>1. Pipeline' /\ Ledger'
    BY <1>8 DEF Pipeline, Ledger
  <2> QED
    BY <1>4, <1>5, <1>6, <1>7, <2>1 DEF IInv
<1>9. CASE ~tampered' /\ ~closed
  <2>1. /\ Increasing(q, inline') /\ Mine(q, conn, next_msg', origin')
        /\ Before(q, posted'[conn], inline') /\ Before(wire[conn], posted'[conn], inline')
        /\ AllFront(wire[conn], q, inline') /\ Follows(m, wire[conn], inline')
        /\ \A w \in writes : w.gen = generation =>
             /\ w.msg < next_msg' /\ origin'[w.msg] = conn
             /\ Leads(w.msg, posted'[conn], inline') /\ Fronts(w.msg, q, inline')
             /\ w.status = "live" => Follows(w.msg, wire[conn], inline')
    BY <1>9, JoinsOrder
  <2>2. /\ m < next_msg' /\ origin'[m] = conn /\ Leads(m, posted'[conn], inline')
        /\ Increasing(posted'[conn], inline') /\ Mine(posted'[conn], conn, next_msg', origin')
        /\ Outside(posted'[conn], inline')
    BY <1>9 DEF Accepts
  <2>3. Ledger'
    <3>1. accepted' + Sent = Len(wire[conn]) + overflows' + Len(q)
      BY <1>9, JoinsLedger
    <3> QED
      BY <1>2, <1>5, <3>1 DEF Ledger
  <2>4. ASSUME NEW w \in writes', w.gen = generation
        PROVE  /\ w.msg < next_msg' /\ origin'[w.msg] = conn
               /\ Leads(w.msg, posted'[conn], inline') /\ Fronts(w.msg, q, inline')
               /\ w.status = "live" => Follows(w.msg, wire[conn], inline')
    <3>1. CASE w \in writes
      BY <2>1, <2>4, <3>1
    <3>2. CASE w \notin writes
      <4>1. w.msg = m /\ q = <<m>>
        BY <1>5, <2>4, <3>2
      <4>2. Fronts(m, q, inline')
        BY <4>1 DEF Fronts
      <4> QED
        BY <2>1, <2>2, <4>1, <4>2
    <3> QED
      BY <3>1, <3>2
  <2>5. Pipeline'
    BY <1>2, <2>1, <2>2, <2>4 DEF Pipeline
  <2> QED
    BY <1>4, <1>5, <1>6, <1>7, <2>3, <2>5 DEF IInv
<1> QED
  BY <1>8, <1>9

\* enqueue_write, and the start of a write.
LEMMA EnqueueInv == ASSUME IInv, NEW m, Accepts(m), Enqueue(m) PROVE IInv'
<1> USE WriteQueueAssumption
<1>1. Typed /\ Flags /\ \A v \in writes : v \in Writes /\ v.gen <= generation
  BY TypedInv
<1>2. m \in Msgs
  BY DEF Accepts
<1>3. Counted
  <2>1. accepted' = accepted + 1 /\ overflows' = overflows + (IF Full THEN 1 ELSE 0)
    BY DEF Enqueue
  <2> QED
    BY <1>1, <2>1 DEF Counted, Typed
<1>4. Full => write_queue # <<>>
  BY <1>1 DEF Full, Typed
<1>5. Full <=> Len(write_queue) = max_write_queue_size
  BY <1>1 DEF Full, Typed
<1>6. CASE /\ Push(m)
           /\ IF Idle THEN do_write_queue(write_queue', writes) ELSE UNCHANGED writes
           /\ UNCHANGED <<closed, revived, generation, trailing>>
  <2>1. PICK q \in Seq(Msgs) :
          /\ q = Append(write_queue, m) /\ q # <<>> /\ Len(q) = Len(write_queue) + 1
          /\ \A i \in 1 .. Len(write_queue) : q[i] = write_queue[i]
          /\ q[Len(write_queue) + 1] = m
    BY <1>1, <1>2, PushFacts DEF Typed
  <2>2. write_queue' = q /\ overflow_count' = 0 /\ ~Full
    BY <1>6, <2>1 DEF Push
  <2>3. \A i \in 1 .. Len(q) : q[i] = m \/ (i \in 1 .. Len(write_queue) /\ q[i] = write_queue[i])
    BY <1>1, <2>1 DEF Typed
  <2>4. Len(q) \in Nat /\ Len(write_queue) \in Nat /\ Len(write_queue) < max_write_queue_size
    BY <1>1, <1>5, <2>1, <2>2 DEF Typed
  <2>5. Joins(write_queue, q, m)
    BY <1>1, <1>2, <2>1, <2>2, <2>3, <2>4 DEF Joins, Typed
  <2>6. /\ write_queue # <<>> => writes' = writes
        /\ write_queue = <<>> => do_write_queue(q, writes)
    BY <1>6, <2>2 DEF Idle
  <2> QED
    BY <1>3, <1>6, <2>2, <2>5, <2>6, PushedInv
<1>7. CASE /\ DropOldest(m)
           /\ IF Idle THEN do_write_queue(write_queue', writes) ELSE UNCHANGED writes
           /\ UNCHANGED <<closed, revived, generation, trailing>>
  <2>1. Full /\ write_queue # <<>> /\ overflow_count + 1 < write_queue_overflow_limit
        /\ overflow_count' = overflow_count + 1 /\ write_queue' = Append(Tail(write_queue), m)
    BY <1>4, <1>7 DEF DropOldest
  <2>2. PICK b \in Seq(Msgs) :
          /\ b = Tail(write_queue) /\ Len(b) = Len(write_queue) - 1
          /\ \A i \in 1 .. Len(b) : i + 1 \in 1 .. Len(write_queue) /\ b[i] = write_queue[i + 1]
    BY <1>1, <2>1, PopFacts DEF Typed
  <2>3. PICK q \in Seq(Msgs) :
          /\ q = Append(b, m) /\ q # <<>> /\ Len(q) = Len(b) + 1
          /\ \A i \in 1 .. Len(b) : q[i] = b[i]
          /\ q[Len(b) + 1] = m
    BY <1>2, PushFacts
  <2>4. Len(b) \in Nat /\ Len(q) \in Nat /\ Len(b) < max_write_queue_size
    BY <1>1, <1>5, <2>1, <2>2, <2>3 DEF Typed
  <2>5. \A i \in 1 .. Len(q) : q[i] = m \/ (i \in 1 .. Len(b) /\ q[i] = b[i])
    BY <2>3, <2>4
  <2>6. /\ \A h : Increasing(write_queue, h) => Increasing(b, h)
        /\ \A x, h : Fronts(x, write_queue, h) => Fronts(x, b, h)
    <3>1. /\ \A h : Increasing(write_queue, h) => Increasing(b, h)
          /\ \A x, h : Fronts(x, write_queue, h) => Leads(x, b, h)
      BY <1>1, <2>1, <2>2, PopOrder DEF Typed
    <3> QED
      BY <3>1 DEF Leads, Fronts
  <2>7. \A i \in 1 .. Len(b) : \E j \in 1 .. Len(write_queue) : b[i] = write_queue[j]
    BY <2>2
  <2>8. Joins(b, q, m)
    BY <1>2, <2>1, <2>2, <2>3, <2>4, <2>5, <2>6, <2>7 DEF Joins
  <2>9. overflow_count' \in 0 .. write_queue_overflow_limit
        /\ overflow_count' # write_queue_overflow_limit
    BY <1>1, <2>1 DEF Typed
  <2>10. write_queue # <<>> => writes' = writes
    BY <1>7 DEF Idle
  <2> QED
    BY <1>3, <1>7, <2>1, <2>2, <2>3, <2>8, <2>9, <2>10, PushedInv
<1>8. CASE /\ Full /\ overflow_count + 1 >= write_queue_overflow_limit
           /\ overflow_count' = overflow_count + 1
           /\ close_session(Tail(write_queue), writes)
  <2>1. overflow_count' \in 0 .. write_queue_overflow_limit
    BY <1>1, <1>5, <1>8 DEF IInv, Slack, Typed
  <2>2. CASE /\ closed' = TRUE /\ revived' = FALSE /\ cleanup /\ trailing' = trailing + 1
             /\ writes' = Aborted(writes)
    <3>1. writes \in SUBSET writes
      OBVIOUS
    <3> QED
      BY <1>3, <2>1, <2>2, <3>1, CloseInv DEF Accepts, Counted
  <2>3. CASE /\ closed \/ acquiring
             /\ write_queue' = Tail(write_queue) /\ writes' = writes
             /\ UNCHANGED <<closed, revived, generation, trailing>>
    <3>1. write_queue # <<>>
      BY <1>4, <1>8
    <3>2. /\ Tail(write_queue) \in Seq(Msgs) /\ Len(Tail(write_queue)) = Len(write_queue) - 1
      BY <1>1, <3>1, PopFacts DEF Typed
    <3>3. /\ Len(write_queue') \in Nat /\ Len(write_queue') < max_write_queue_size
          /\ write_queue' # <<>> /\ write_queue' \in Seq(Msgs)
      <4>1. Len(Tail(write_queue)) > 0
        BY <1>1, <1>5, <1>8, <3>2 DEF Typed
      <4>2. Tail(write_queue) # <<>>
        BY <3>2, <4>1, NonEmpty
      <4> QED
        BY <1>1, <1>5, <1>8, <2>3, <3>2, <4>1, <4>2 DEF Typed
    <3>4. tampered' \/ closed
      BY <2>3 DEF Accepts
    <3>5. conn' = conn /\ acquiring' = acquiring /\ wire' = wire /\ Recorded
      BY DEF Accepts
    <3>6. Typed' /\ Flags' /\ Slack'
      <4>1. Flags'
        BY <1>1, <2>3, <3>5 DEF Flags, Accepts
      <4>2. posted'[conn'] \in Seq(Msgs) /\ posted' \in [Conns -> Seq(Msgs)]
            /\ accepted' \in Nat /\ overflows' \in Nat
        BY <1>1, <1>3, <3>5 DEF Accepts, Counted, Typed
      <4> QED
        BY <1>1, <2>1, <2>3, <3>3, <3>5, <4>1, <4>2 DEF Typed, Slack, Recorded
    <3>7. TypeOK' /\ writes' \subseteq Writes
      BY <1>1, <2>3, <3>6, TypeOKFrom
    <3>8. (Single /\ KeepsWriting /\ Dead)'
      BY <2>3, <3>1, <3>3, <3>5 DEF IInv, Single, KeepsWriting, Current, Dead
    <3>9. Undisturbed' /\ WireOrder' /\ Fresh' /\ Future' /\ Numbered'
      <4>1. tampered => tampered'
        BY DEF Accepts
      <4>2. ~tampered' => \A w \in writes' : w.status = "live" => w.gen = generation' /\ w.conn = conn
        BY <2>3, <4>1 DEF IInv, Undisturbed
      <4>3. \A w \in writes' : w.conn <= conn
        BY <2>3 DEF IInv, Future
      <4> QED
        BY <2>3, <4>2, <4>3, AcceptedInv
    <3>10. Pipeline' /\ Ledger'
      BY <2>3, <3>4 DEF Pipeline, Ledger
    <3> QED
      BY <3>6, <3>7, <3>8, <3>9, <3>10 DEF IInv
  <2> QED
    BY <1>8, <2>2, <2>3 DEF close_session, Aborted
<1> QED
  BY <1>6, <1>7, <1>8 DEF Enqueue

-----------------------------------------------------------------------------
(* The theorems.                                                           *)

\* The invariant holds of every state.
THEOREM WriteQueueInductive == Spec => []IInv
<1>1. Init => IInv
  BY InitInv
<1>2. IInv /\ [Next]_vars => IInv'
  <2> SUFFICES ASSUME IInv, [Next]_vars PROVE IInv'
    OBVIOUS
  <2>1. CASE Post
    BY <2>1, PostInv
  <2>2. CASE Transfer
    BY <2>2, TransferInv
  <2>3. CASE WriteHandler
    BY <2>3, WriteHandlerInv
  <2>4. CASE Close
    BY <2>4, CloseStepInv
  <2>5. CASE TrailingCleanup
    BY <2>5, TrailingInv
  <2>6. CASE reset
    BY <2>6, ResetInv
  <2>7. CASE AcquireCleanup
    BY <2>7, AcquireInv
  <2>8. CASE on_nickname_registered
    BY <2>8, RegisteredInv
  <2>9. CASE PostInline
    <3>1. Accepts(next_msg) /\ Enqueue(next_msg)
      BY <2>9, PostInlineAccepts DEF PostInline
    <3> QED
      BY <3>1, EnqueueInv
  <2>10. ASSUME NEW c \in Conns, RunPost(c) PROVE IInv'
    <3>1. Accepts(Head(posted[c])) /\ Enqueue(Head(posted[c]))
      BY <2>10, RunPostAccepts DEF RunPost
    <3> QED
      BY <3>1, EnqueueInv
  <2>11. CASE UNCHANGED vars
    BY <2>11 DEF vars, histVars, IInv, TypeOK, Single, KeepsWriting, Current, Slack, Dead, Future,
       Numbered, Undisturbed, WireOrder, Pipeline, Ledger, Sent, Fresh
  <2> QED
    BY <2>1, <2>2, <2>3, <2>4, <2>5, <2>6, <2>7, <2>8, <2>9, <2>10, <2>11 DEF Next
<1> QED
  BY <1>1, <1>2, PTL DEF Spec

\* Types, with the limits of the queue and of the overflow counter of enqueue_write.
THEOREM WriteQueueTypeOK == Spec => []TypeOK
<1>1. IInv => TypeOK
  BY DEF IInv
<1> QED
  BY <1>1, WriteQueueInductive, PTL

\* At most one async_write has a handler that counts, its message is in the
\* queue, and on an undisturbed connection it is the only one on the socket.
THEOREM WriteQueueOneWriter == Spec => []OneWriter
<1>1. IInv => OneWriter
  <2> SUFFICES ASSUME IInv PROVE OneWriter
    OBVIOUS
  <2>1. Cardinality(Current) <= 1
    <3>1. CASE Current = {}
      BY <3>1, FS_EmptySet
    <3>2. CASE Current # {}
      <4>1. PICK w : w \in Current
        BY <3>2
      <4>2. Current = {w}
        BY <4>1 DEF IInv, Single, Current
      <4>3. Cardinality({w}) = 1
        BY FS_Singleton
      <4> QED
        BY <4>2, <4>3
    <3> QED
      BY <3>1, <3>2
  <2>2. Current # {} => write_queue # <<>>
    BY DEF IInv, Single, Current
  <2>3. tampered \/ \A w \in writes : w.status = "live" => w \in Current /\ w.conn = conn
    BY DEF IInv, Undisturbed, Current
  <2> QED
    BY <2>1, <2>2, <2>3 DEF OneWriter
<1> QED
  BY <1>1, WriteQueueInductive, PTL

\* An open session with messages in its queue is writing one.
THEOREM WriteQueueKeepsWriting == Spec => []KeepsWriting
<1>1. IInv => KeepsWriting
  BY DEF IInv
<1> QED
  BY <1>1, WriteQueueInductive, PTL

\* The client of an undisturbed connection receives its own messages, each at
\* most once and in the order of the post_write calls, except that one made in a
\* handler of the strand overtakes those that dispatch() queued and the strand
\* has not run.
THEOREM WriteQueueInOrder == Spec => []InOrder
<1>1. IInv => InOrder
  <2> SUFFICES ASSUME IInv, ~tampered, NEW i \in DOMAIN wire[conn], NEW j \in DOMAIN wire[conn]
               PROVE  /\ i < j => Precedes(wire[conn][i], wire[conn][j])
                      /\ origin[wire[conn][i]] = conn
    BY DEF InOrder
  <2>1. wire[conn] \in Seq(Msgs)
    BY TypedInv DEF Typed
  <2>2. DOMAIN wire[conn] = 1 .. Len(wire[conn])
    BY <2>1
  <2> QED
    BY <2>2 DEF IInv, WireOrder, Increasing, Mine, Prec, Precedes
<1> QED
  BY <1>1, WriteQueueInductive, PTL

\* What an undisturbed connection did not receive, once it has nothing left to
\* write, is as much as enqueue_write dropped.
THEOREM WriteQueueLoss == Spec => []LossIsOverflow
<1>1. IInv => LossIsOverflow
  <2> SUFFICES ASSUME IInv, ~tampered, ~closed, write_queue = <<>>
               PROVE  accepted = Len(wire[conn]) + overflows
    BY DEF LossIsOverflow
  <2>1. Typed /\ Flags
    BY TypedInv
  <2>2. Sent = 0
    BY DEF IInv, Single, Sent
  <2>3. CASE acquiring
    <3>1. accepted = 0 /\ overflows = 0 /\ wire[conn] = <<>>
      BY <2>3 DEF IInv, Fresh, Undisturbed
    <3> QED
      BY <3>1
  <2>4. CASE ~acquiring
    <3>1. accepted + Sent = Len(wire[conn]) + overflows + Len(write_queue) /\ Len(write_queue) = 0
      BY <2>4 DEF IInv, Ledger
    <3>2. Len(wire[conn]) \in Nat /\ accepted \in Nat /\ overflows \in Nat
      BY <2>1 DEF Typed
    <3> QED
      BY <2>2, <3>1, <3>2
  <2> QED
    BY <2>3, <2>4
<1> QED
  BY <1>1, WriteQueueInductive, PTL
================================================================================
