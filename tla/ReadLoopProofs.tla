----------------------------- MODULE ReadLoopProofs -----------------------------
(***************************************************************************)
(* Proofs about ReadLoop, for any limits, any number of connections and    *)
(* any streams.                                                            *)
(***************************************************************************)
EXTENDS ReadLoop, FiniteSetTheorems, FunctionTheorems, SequenceTheorems, WellFoundedInduction, TLAPS

-----------------------------------------------------------------------------
(* The inductive invariant.                                                *)

Statuses == {"live", "ready", "failed", "aborted"}
Texts == Chunks \cup {<<>>}
Reads == [id : Nat, conn : Conns, status : Statuses, chunk : Texts]

ReadsOK(rs, c) ==
  /\ rs \in SUBSET Reads /\ IsFiniteSet(rs)
  /\ \A r \in rs : r.conn <= c

Message == {m \in Seq(Digits) : Len(m) \in 1 .. MAX_PACKET_SIZE}
StrandStates == [at : {"idle", "extract", "close", "cleanup", "next"},
                 then : {"idle", "extract", "next"}]

\* TypeOK with records of finitely many reads and sequences of messages.
Typed ==
  /\ closed \in BOOLEAN /\ conn \in Conns /\ accepting \in {"cleanup", "start", "done"}
  /\ read_pending \in BOOLEAN /\ task_running \in BOOLEAN /\ task_queue \in 0 .. max_task_queue
  /\ buffer \in Seq(Digits)
  /\ posted \in [Conns -> Nat]
  /\ ReadsOK(reads, conn)
  /\ strand \in [Conns -> StrandStates]
  /\ trailing \in Nat /\ bytes \in 0 .. MaxBytes
  /\ stream \in Seq(Digits) /\ out \in Seq(Message)
  /\ dropped \in BOOLEAN /\ tampered \in BOOLEAN

\* Nothing is queued on the strand of a connection that is still to come.
Future == \A c \in Conns : c > conn => posted[c] = 0 /\ strand[c].at = "idle"

NoRead == \A r \in reads : r.conn # conn

\* The loop of the connection: not started, on its way to the strand, waiting
\* for the client, in the handler, and at the end of the handler with the next
\* read queued.
Clean ==
  /\ posted[conn] = 0 /\ NoRead /\ strand[conn].at = "idle"
  /\ ~read_pending /\ ~task_running /\ task_queue = 0 /\ ~dropped

Starting ==
  /\ posted[conn] = 1 /\ NoRead /\ strand[conn].at = "idle"
  /\ read_pending /\ ~task_running /\ task_queue = 0

Waiting ==
  /\ posted[conn] = 0 /\ strand[conn].at = "idle"
  /\ read_pending /\ task_running /\ task_queue = 0
  /\ \E r \in reads : r.conn = conn
  /\ \A r, s \in reads : r.conn = conn /\ s.conn = conn => r = s
  /\ \A r \in reads : r.conn = conn => r.status # "aborted"

Handling ==
  /\ posted[conn] = 0 /\ NoRead /\ strand[conn].at \in {"extract", "close"}
  /\ ~read_pending /\ task_running /\ task_queue = 0

Ending ==
  /\ posted[conn] = 0 /\ NoRead /\ strand[conn].at = "next"
  /\ read_pending /\ task_running /\ task_queue = 1

Looping ==
  ~closed /\ ~tampered =>
    \/ accepting # "done" /\ Clean
    \/ accepting = "done" /\ (Starting \/ Waiting \/ Handling \/ Ending)

\* What was thrown away is thrown away by the handler that closes the session.
Dropping == dropped /\ ~tampered /\ ~closed => strand[conn].at = "close"

IInv == Typed /\ Future /\ Looping /\ Dropping /\ Bounded


-----------------------------------------------------------------------------
(* The message buffer.                                                     *)

\* A set of natural numbers has a smallest: the resync scan stops at the first
\* candidate.
LEMMA Smallest ==
  ASSUME NEW S \in SUBSET Nat, S # {}
  PROVE  /\ (CHOOSE i \in S : \A j \in S : i <= j) \in S
         /\ \A k \in S : (CHOOSE i \in S : \A j \in S : i <= j) <= k
<1>1. \E x \in S : \A y \in S : ~(<<y, x>> \in OpToRel(<, Nat))
  BY NatLessThanWellFounded, WFMin
<1>2. PICK x \in S : \A y \in S : ~(<<y, x>> \in OpToRel(<, Nat))
  BY <1>1
<1>3. \A y \in S : ~(y < x)
  <2> TAKE y \in S
  <2>1. <<y, x>> \in Nat \X Nat
    OBVIOUS
  <2>2. ~(<<y, x>> \in {ss \in Nat \X Nat : ss[1] < ss[2]})
    BY <1>2 DEF OpToRel
  <2> QED
    BY <2>1, <2>2
<1>4. \A y \in S : x <= y
  BY <1>3
<1> QED
  BY <1>4, Zenon

\* What a cut leaves, and the message it finds, are pieces of the buffer.
LEMMA CutTypes ==
  ASSUME NEW b \in Seq(Digits), NEW s \in Nat, s + Prefix <= Len(b), Valid(read_len_at(b, s))
  PROVE  /\ CutAt(b, s).left \in Seq(Digits)
         /\ CutAt(b, s).found \in BOOLEAN /\ CutAt(b, s).invalid = FALSE
         /\ CutAt(b, s).found => /\ CutAt(b, s).msg \in Seq(Digits)
                                 /\ Len(CutAt(b, s).msg) \in 1 .. MAX_PACKET_SIZE
         /\ ~CutAt(b, s).found => Len(CutAt(b, s).left) < Prefix + MAX_PACKET_SIZE
<1> DEFINE len == read_len_at(b, s)
           rest == SubSeq(b, s + 1, Len(b))
<1>1. Len(b) \in Nat /\ \A i \in 1 .. Len(b) : b[i] \in Digits
  BY LenProperties, ElementOfSeq
<1>2. b[s + 1] \in Int /\ b[s + 2] \in Int /\ Base \in Int
  BY <1>1, BufferAssumption DEF Prefix, Digits
<1>3. len \in Int
  BY <1>2 DEF read_len_at
<1>4. len \in 1 .. MAX_PACKET_SIZE /\ MAX_PACKET_SIZE \in Nat
  BY <1>3, BufferAssumption DEF Valid
<1>5. rest \in Seq(Digits)
  BY <1>1, SubSeqProperties
<1>6. Len(rest) \in Nat /\ \A i \in 1 .. Len(rest) : rest[i] \in Digits
  BY <1>5, LenProperties, ElementOfSeq
<1> HIDE DEF len, rest
<1>7. CASE Len(rest) >= Prefix + len
  <2>1. CutAt(b, s) = [found |-> TRUE, msg |-> SubSeq(rest, Prefix + 1, Prefix + len),
                       left |-> SubSeq(rest, Prefix + len + 1, Len(rest)), invalid |-> FALSE]
    BY <1>7 DEF CutAt, len, rest
  <2>2. SubSeq(rest, Prefix + len + 1, Len(rest)) \in Seq(Digits)
    BY <1>4, <1>6, SubSeqProperties DEF Prefix
  <2>3. /\ SubSeq(rest, Prefix + 1, Prefix + len) \in Seq(Digits)
        /\ Len(SubSeq(rest, Prefix + 1, Prefix + len)) = len
    <3>1. Prefix + 1 \in Int /\ Prefix + len \in Int /\ Prefix + 1 <= Prefix + len
          /\ Prefix + len - (Prefix + 1) + 1 = len
      BY <1>4 DEF Prefix
    <3>2. \A i \in Prefix + 1 .. Prefix + len : rest[i] \in Digits
      BY <1>4, <1>6, <1>7 DEF Prefix
    <3>3. PICK m, k : m = Prefix + 1 /\ k = Prefix + len
      OBVIOUS
    <3>4. m \in Int /\ k \in Int /\ (\A i \in m .. k : rest[i] \in Digits)
          /\ m <= k /\ k - m + 1 = len
      BY <1>4, <3>2, <3>3 DEF Prefix
    <3>5. SubSeq(rest, m, k) \in Seq(Digits) /\ Len(SubSeq(rest, m, k)) = len
      BY <3>4, SubSeqProperties
    <3> QED
      BY <3>3, <3>5, Zenon
  <2> QED
    BY <2>1, <2>2, <2>3, <1>4
<1>8. CASE ~(Len(rest) >= Prefix + len)
  <2>1. CutAt(b, s) = Wait(rest)
    BY <1>8 DEF CutAt, len, rest
  <2> QED
    BY <2>1, <1>8, <1>4, <1>5, <1>6 DEF Wait, Prefix
<1> QED
  BY <1>7, <1>8

\* extract_message: what is left is a piece of the buffer, a message has a
\* length the prefix may have, and a buffer that is kept without a message is
\* bounded.
LEMMA Extracted ==
  ASSUME NEW b \in Seq(Digits)
  PROVE  LET r == extract_message(b) IN
         /\ r.left \in Seq(Digits) /\ r.found \in BOOLEAN /\ r.invalid \in BOOLEAN
         /\ r.found => r.msg \in Seq(Digits) /\ Len(r.msg) \in 1 .. MAX_PACKET_SIZE
         /\ ~r.found => \/ Len(r.left) <= ABSOLUTE_MAX_BUFFER
                        \/ Len(r.left) < Prefix + MAX_PACKET_SIZE
<1>1. Len(b) \in Nat /\ <<>> \in Seq(Digits) /\ Len(<<>>) = 0
  BY LenProperties, EmptySeq
<1>2. MAX_PACKET_SIZE \in Nat /\ ABSOLUTE_MAX_BUFFER \in Nat
  BY BufferAssumption
<1>3. CASE Len(b) < Prefix
  <2>1. extract_message(b) = Wait(b)
    BY <1>3, <1>1 DEF extract_message, Prefix
  <2> QED
    BY <2>1, <1>1, <1>2, <1>3 DEF Wait, Prefix
<1>4. CASE Len(b) >= Prefix /\ Valid(read_len_at(b, 0))
  <2>1. extract_message(b) = CutAt(b, 0)
    BY <1>4, <1>1 DEF extract_message, Prefix
  <2>2. 0 + Prefix <= Len(b)
    BY <1>4, <1>1 DEF Prefix
  <2> QED
    BY <2>1, <2>2, <1>4, CutTypes
<1>5. CASE Len(b) >= Prefix /\ ~Valid(read_len_at(b, 0)) /\ Candidates(b) # {}
  <2> DEFINE i == CHOOSE i \in Candidates(b) : \A j \in Candidates(b) : i <= j
  <2>1. extract_message(b) = CutAt(b, i)
    BY <1>5, <1>1 DEF extract_message, Prefix
  <2>2. Candidates(b) \in SUBSET Nat
    BY DEF Candidates
  <2>3. i \in Candidates(b)
    BY <2>2, <1>5, Smallest
  <2> HIDE DEF i
  <2>4. i \in Nat /\ i + Prefix <= Len(b) /\ Valid(read_len_at(b, i))
    BY <2>3, <1>1, BufferAssumption DEF Candidates, Prefix
  <2> QED
    BY <2>1, <2>4, CutTypes
<1>6. CASE Len(b) >= Prefix /\ ~Valid(read_len_at(b, 0)) /\ Candidates(b) = {}
  <2>1. extract_message(b) = IF TooBig(b) THEN [Wait(<<>>) EXCEPT !.invalid = TRUE] ELSE Wait(b)
    BY <1>6, <1>1 DEF extract_message, Prefix
  <2> QED
    BY <2>1, <1>1, <1>2 DEF Wait, TooBig, Prefix
<1> QED
  BY <1>1, <1>3, <1>4, <1>5, <1>6 DEF Prefix


-----------------------------------------------------------------------------
(* The reads.                                                              *)

LEMMA TextTypes ==
  ASSUME NEW t \in Texts
  PROVE  /\ t \in Seq(Digits) /\ Len(t) \in 0 .. ReadSize /\ DOMAIN t = 1 .. Len(t)
         /\ \A i \in 1 .. Len(t) : t[i] \in Digits
<1>1. t \in Seq(Digits)
  <2>1. CASE t = <<>>
    BY <2>1, EmptySeq
  <2>2. CASE t \in Chunks
    <3>1. PICK n \in 1 .. ReadSize : t \in [1 .. n -> Digits]
      BY <2>2 DEF Chunks
    <3> QED
      BY <3>1, SeqDef, BufferAssumption
  <2> QED
    BY <2>1, <2>2 DEF Texts
<1>2. Len(t) \in Nat /\ DOMAIN t = 1 .. Len(t) /\ \A i \in 1 .. Len(t) : t[i] \in Digits
  BY <1>1, LenProperties, ElementOfSeq
<1>3. Len(t) <= ReadSize
  <2>1. CASE t = <<>>
    BY <2>1, EmptySeq, BufferAssumption
  <2>2. CASE t \in Chunks
    <3>1. PICK n \in 1 .. ReadSize : t \in [1 .. n -> Digits]
      BY <2>2 DEF Chunks
    <3>2. 1 .. n = 1 .. Len(t)
      BY <3>1, <1>2
    <3>3. n \in 1 .. Len(t)
      BY <3>2, <3>1, BufferAssumption
    <3>4. Len(t) \in 1 .. Len(t)
      BY <3>3, <1>2
    <3>5. Len(t) \in 1 .. n
      BY <3>2, <3>4, Zenon
    <3> QED
      BY <3>1, <3>5, <1>2, BufferAssumption
  <2> QED
    BY <2>1, <2>2 DEF Texts
<1> QED
  BY <1>1, <1>2, <1>3

LEMMA ZerosText == Zeros \in Texts
<1>1. 0 \in Digits
  BY BufferAssumption DEF Digits
<1>2. Zeros \in [1 .. ReadSize -> Digits] /\ ReadSize \in 1 .. ReadSize
  BY <1>1, BufferAssumption DEF Zeros
<1> QED
  BY <1>2 DEF Texts, Chunks

Overlay(t, chunk) == [i \in DOMAIN t |-> IF i <= Len(chunk) THEN chunk[i] ELSE t[i]]

LEMMA OverlayText ==
  ASSUME NEW t \in Texts, NEW chunk \in Texts
  PROVE  Overlay(t, chunk) \in Texts
<1>1. /\ Len(t) \in 0 .. ReadSize /\ DOMAIN t = 1 .. Len(t) /\ t \in Seq(Digits)
      /\ \A i \in 1 .. Len(t) : t[i] \in Digits
      /\ Len(chunk) \in 0 .. ReadSize /\ \A i \in 1 .. Len(chunk) : chunk[i] \in Digits
  BY TextTypes
<1>2. Overlay(t, chunk) \in [1 .. Len(t) -> Digits]
  <2>1. \A i \in 1 .. Len(t) : (IF i <= Len(chunk) THEN chunk[i] ELSE t[i]) \in Digits
    BY <1>1, BufferAssumption
  <2> QED
    BY <2>1, <1>1 DEF Overlay
<1>3. CASE Len(t) = 0
  <2>1. Overlay(t, chunk) \in [1 .. 0 -> Digits]
    BY <1>2, <1>3
  <2>2. Overlay(t, chunk) \in Seq(Digits)
    BY <2>1, SeqDef
  <2>3. Len(Overlay(t, chunk)) \in Nat /\ 1 .. Len(Overlay(t, chunk)) = 1 .. 0
    BY <2>1, <2>2, LenProperties
  <2>4. Len(Overlay(t, chunk)) = 0
    <3>1. 1 \notin 1 .. Len(Overlay(t, chunk))
      BY <2>3
    <3> QED
      BY <2>3, <3>1
  <2> QED
    BY <2>2, <2>4, EmptySeq DEF Texts
<1>4. CASE Len(t) # 0
  <2>1. Len(t) \in 1 .. ReadSize
    BY <1>1, <1>4, BufferAssumption
  <2> QED
    BY <2>1, <1>2 DEF Texts, Chunks
<1> QED
  BY <1>3, <1>4

Overwritten(r, chunk) == [r EXCEPT !.chunk = Overlay(r.chunk, chunk)]

\* f gives for each read of S what becomes of it in T.
Carries(S, T, f) ==
  /\ f \in [S -> T] /\ \A q \in T : \E r \in S : q = f[r]
  /\ \A r \in S : f[r].id = r.id /\ f[r].conn = r.conn

\* What a write to data_ and a closing of the socket do to the reads.
LEMMA OverwriteCarries ==
  ASSUME NEW rs \in SUBSET Reads, NEW chunk \in Texts
  PROVE  \E f : /\ Carries(rs, Overwrite(rs, chunk), f) /\ Overwrite(rs, chunk) \in SUBSET Reads
                /\ \A r \in rs : f[r].status = r.status
<1> DEFINE f == [r \in rs |-> Overwritten(r, chunk)]
<1>1. Overwrite(rs, chunk) = {Overwritten(r, chunk) : r \in rs}
  BY DEF Overwrite, Overwritten, Overlay
<1>2. \A r \in rs : /\ Overwritten(r, chunk) \in Reads
                    /\ Overwritten(r, chunk).id = r.id /\ Overwritten(r, chunk).conn = r.conn
                    /\ Overwritten(r, chunk).status = r.status
  <2> TAKE r \in rs
  <2>1. r \in Reads /\ r.chunk \in Texts
    BY DEF Reads
  <2>2. PICK o : o = Overlay(r.chunk, chunk)
    OBVIOUS
  <2>3. o \in Texts
    BY <2>1, <2>2, OverlayText
  <2>4. Overwritten(r, chunk) = [r EXCEPT !.chunk = o]
    BY <2>2 DEF Overwritten
  <2> QED
    BY <2>1, <2>3, <2>4 DEF Reads
<1>3. \A r \in rs : f[r] = Overwritten(r, chunk)
  OBVIOUS
<1>4. Carries(rs, Overwrite(rs, chunk), f)
  BY <1>1, <1>2, <1>3, Zenon DEF Carries
<1>5. Overwrite(rs, chunk) \in SUBSET Reads /\ \A r \in rs : f[r].status = r.status
  BY <1>1, <1>2, <1>3, Zenon
<1> QED
  BY <1>4, <1>5, Zenon

AbortedRead(r) == IF r.status = "live" THEN [r EXCEPT !.status = "aborted"] ELSE r

LEMMA AbortedCarries ==
  ASSUME NEW rs \in SUBSET Reads
  PROVE  \E f : Carries(rs, Aborted(rs), f) /\ Aborted(rs) \in SUBSET Reads
<1> DEFINE f == [r \in rs |-> AbortedRead(r)]
<1>1. Aborted(rs) = {AbortedRead(r) : r \in rs}
  BY DEF Aborted, AbortedRead
<1>2. \A r \in rs : /\ AbortedRead(r) \in Reads
                    /\ AbortedRead(r).id = r.id /\ AbortedRead(r).conn = r.conn
  BY DEF Reads, AbortedRead, Statuses
<1>3. \A r \in rs : f[r] = AbortedRead(r)
  OBVIOUS
<1> QED
  BY <1>1, <1>2, <1>3, Zenon DEF Carries

LEMMA CarriesFinite ==
  ASSUME NEW S, NEW T, NEW f, Carries(S, T, f), IsFiniteSet(S)
  PROVE  IsFiniteSet(T)
<1>1. f \in Surjection(S, T)
  BY DEF Carries, Surjection
<1> QED
  BY <1>1, FS_Surjection


LEMMA OverwriteReads ==
  ASSUME NEW rs, NEW c, ReadsOK(rs, c), NEW chunk \in Texts
  PROVE  ReadsOK(Overwrite(rs, chunk), c)
<1>1. PICK f : Carries(rs, Overwrite(rs, chunk), f) /\ Overwrite(rs, chunk) \in SUBSET Reads
  BY OverwriteCarries DEF ReadsOK
<1>2. IsFiniteSet(Overwrite(rs, chunk))
  BY <1>1, CarriesFinite DEF ReadsOK
<1>3. \A q \in Overwrite(rs, chunk) : q.conn <= c
  BY <1>1, Zenon DEF ReadsOK, Carries
<1> QED
  BY <1>1, <1>2, <1>3, Zenon DEF ReadsOK

LEMMA AbortedReads ==
  ASSUME NEW rs, NEW c, ReadsOK(rs, c)
  PROVE  ReadsOK(Aborted(rs), c)
<1>1. PICK f : Carries(rs, Aborted(rs), f) /\ Aborted(rs) \in SUBSET Reads
  BY AbortedCarries DEF ReadsOK
<1>2. IsFiniteSet(Aborted(rs))
  BY <1>1, CarriesFinite DEF ReadsOK
<1>3. \A q \in Aborted(rs) : q.conn <= c
  BY <1>1, Zenon DEF ReadsOK, Carries
<1> QED
  BY <1>1, <1>2, <1>3, Zenon DEF ReadsOK

\* There is always a number for the next read.
LEMMA FreshRead ==
  ASSUME NEW rs, NEW c, ReadsOK(rs, c)
  PROVE  \E i \in 1 .. Cardinality(rs) + 1 : \A r \in rs : r.id # i
<1> DEFINE ids == {r.id : r \in rs}
           f == [r \in rs |-> r.id]
           n == Cardinality(rs)
<1>1. IsFiniteSet(rs) /\ n \in Nat
  BY FS_CardinalityType DEF ReadsOK
<1>2. f \in Surjection(rs, ids)
  BY Zenon DEF Surjection
<1>3. IsFiniteSet(ids) /\ Cardinality(ids) <= n
  BY <1>1, <1>2, FS_Surjection
<1>4. Cardinality(ids) \in Nat
  BY <1>3, FS_CardinalityType
<1>5. IsFiniteSet(1 .. n + 1) /\ Cardinality(1 .. n + 1) = n + 1
  BY <1>1, FS_Interval
<1>6. ~((1 .. n + 1) \in SUBSET ids)
  <2> SUFFICES ASSUME (1 .. n + 1) \in SUBSET ids PROVE FALSE
    OBVIOUS
  <2>1. Cardinality(1 .. n + 1) <= Cardinality(ids)
    BY <1>3, FS_Subset
  <2> HIDE DEF n, ids
  <2> QED
    BY <2>1, <1>1, <1>3, <1>4, <1>5
<1> QED
  BY <1>6, Zenon

\* async_read_some adds a read of the connection of the moment.
LEMMA NewRead ==
  ASSUME conn \in Conns, ReadsOK(reads, conn)
  PROVE  /\ Read(reads) \in Reads /\ Read(reads).conn = conn
         /\ Read(reads).status # "aborted"
         /\ ReadsOK(reads \cup {Read(reads)}, conn)
<1> DEFINE i == CHOOSE i \in 1 .. Cardinality(reads) + 1 : \A r \in reads : r.id # i
<1>1. i \in 1 .. Cardinality(reads) + 1
  BY FreshRead, Zenon
<1>2. Cardinality(reads) \in Nat
  BY FS_CardinalityType DEF ReadsOK
<1>3. i \in Nat
  BY <1>1, <1>2
<1>4. Read(reads) = [id |-> i, conn |-> conn, status |-> IF closed THEN "failed" ELSE "live",
                     chunk |-> <<>>]
  BY DEF Read
<1> HIDE DEF i
<1>5. Read(reads) \in Reads /\ Read(reads).conn = conn /\ Read(reads).status # "aborted"
  BY <1>3, <1>4 DEF Reads, Statuses, Texts
<1>6. IsFiniteSet(reads \cup {Read(reads)})
  BY FS_AddElement DEF ReadsOK
<1>7. conn <= conn
  BY ReadLoopAssumption DEF Conns
<1> QED
  BY <1>5, <1>6, <1>7, Zenon DEF ReadsOK

\* TypeOK is what Typed says of the variables; nothing else depends on revived.
Revivable == revived \in BOOLEAN

LEMMA TypedTypes == Typed /\ Revivable => TypeOK
<1> SUFFICES ASSUME Typed, Revivable PROVE TypeOK
  OBVIOUS
<1>1. \A r \in reads : /\ r.id \in Nat /\ r.conn \in 1 .. conn
                       /\ r.status \in {"live", "ready", "failed", "aborted"}
                       /\ r.chunk \in Chunks \cup {<<>>}
  <2> TAKE r \in reads
  <2>1. r \in Reads /\ r.conn <= conn /\ conn \in Conns
    BY DEF Typed, ReadsOK
  <2> QED
    BY <2>1, ReadLoopAssumption DEF Reads, Statuses, Texts, Conns
<1>2. \A i \in DOMAIN out : out[i] \in Seq(Digits) /\ Len(out[i]) \in 1 .. MAX_PACKET_SIZE
  <2>1. DOMAIN out = 1 .. Len(out) /\ \A i \in 1 .. Len(out) : out[i] \in Message
    BY LenProperties, ElementOfSeq DEF Typed
  <2> QED
    BY <2>1 DEF Message
<1> QED
  BY <1>1, <1>2 DEF Typed, Revivable, TypeOK, StrandStates


-----------------------------------------------------------------------------
(* Every step preserves the invariant.                                     *)

LEMMA CleanupEffect ==
  ASSUME NEW rs, NEW c, ReadsOK(rs, c), cleanup(rs)
  PROVE  /\ task_queue' = 0 /\ task_queue' \in 0 .. max_task_queue
         /\ task_running' = FALSE /\ read_pending' = FALSE
         /\ ReadsOK(reads', c)
<1>1. ReadsOK(reads', c)
  BY OverwriteReads, ZerosText, Zenon DEF cleanup
<1> QED
  BY <1>1, ReadLoopAssumption DEF cleanup

\* A close leaves a closed session, of which only types and strands matter.
LEMMA CloseEffect ==
  ASSUME Typed, close_session
  PROVE  /\ closed' = TRUE /\ task_queue' \in 0 .. max_task_queue
         /\ task_running' = FALSE /\ read_pending' = FALSE
         /\ ReadsOK(reads', conn)
         /\ stream' \in Seq(Digits) /\ out' \in Seq(Message) /\ bytes' = bytes
<1>1. ReadsOK(Aborted(reads), conn)
  BY AbortedReads DEF Typed
<1>2. cleanup(Aborted(reads))
  BY DEF close_session
<1>3. /\ task_queue' \in 0 .. max_task_queue
      /\ task_running' = FALSE /\ read_pending' = FALSE
      /\ ReadsOK(reads', conn)
  BY <1>1, <1>2, CleanupEffect
<1>4. closed' = TRUE /\ stream' = <<>> /\ out' = <<>> /\ bytes' = bytes
  BY DEF close_session
<1> QED
  BY <1>3, <1>4, EmptySeq

LEMMA InitInv == Init => IInv
<1> SUFFICES ASSUME Init PROVE IInv
  OBVIOUS
<1>1. ReadsOK(reads, conn)
  BY FS_EmptySet DEF Init, ReadsOK
<1>2. <<>> \in Seq(Digits) /\ <<>> \in Seq(Message) /\ Len(<<>>) = 0
  BY EmptySeq
<1>3. Typed
  <2>1. Resting \in StrandStates
    BY DEF Resting, StrandStates
  <2>2. strand \in [Conns -> StrandStates] /\ posted \in [Conns -> Nat]
    BY <2>1 DEF Init
  <2>3. conn \in Conns /\ task_queue \in 0 .. max_task_queue /\ bytes \in 0 .. MaxBytes
    BY ReadLoopAssumption DEF Init, Conns
  <2>4. closed \in BOOLEAN /\ read_pending \in BOOLEAN /\ task_running \in BOOLEAN
        /\ dropped \in BOOLEAN /\ tampered \in BOOLEAN
    BY DEF Init
  <2> QED
    BY <1>1, <1>2, <2>2, <2>3, <2>4 DEF Init, Typed
<1>4. Future /\ Looping /\ Dropping
  BY ReadLoopAssumption DEF Init, Future, Looping, Dropping, Clean, NoRead, Conns, Resting
<1>5. Bounded
  BY <1>2, BufferAssumption DEF Init, Bounded
<1> QED
  BY <1>3, <1>4, <1>5 DEF IInv

LEMMA CloseInv == IInv /\ Close => IInv'
<1> SUFFICES ASSUME IInv, Close PROVE IInv'
  OBVIOUS
<1>1. Typed /\ Future
  BY DEF IInv
<1>2. close_session /\ trailing' = trailing + 1
  BY DEF Close
<1>3. UNCHANGED <<conn, accepting, buffer, posted, strand, dropped, tampered>>
  BY DEF Close
<1>4. /\ closed' = TRUE /\ task_queue' \in 0 .. max_task_queue
      /\ task_running' = FALSE /\ read_pending' = FALSE
      /\ ReadsOK(reads', conn)
      /\ stream' \in Seq(Digits) /\ out' \in Seq(Message) /\ bytes' = bytes
  BY <1>1, <1>2, CloseEffect
<1>5. Typed'
  <2>1. closed' \in BOOLEAN /\ task_running' \in BOOLEAN /\ read_pending' \in BOOLEAN
    BY <1>4
  <2>2. trailing' \in Nat
    BY <1>1, <1>2 DEF Typed
  <2> QED
    BY <1>1, <1>3, <1>4, <2>1, <2>2 DEF Typed
<1>6. Future'
  BY <1>1, <1>3 DEF Future
<1> QED
  BY <1>4, <1>5, <1>6 DEF IInv, Looping, Dropping, Bounded

LEMMA TrailingInv == IInv /\ TrailingCleanup => IInv'
<1> SUFFICES ASSUME IInv, TrailingCleanup PROVE IInv'
  OBVIOUS
<1>1. Typed /\ Future
  BY DEF IInv
<1>2. cleanup(reads) /\ trailing > 0 /\ trailing' = trailing - 1
  BY DEF TrailingCleanup
<1>3. UNCHANGED <<closed, conn, accepting, buffer, posted, strand, bytes, stream, out, dropped>>
  BY DEF TrailingCleanup, histVars
<1>4. /\ task_queue' \in 0 .. max_task_queue /\ task_running' = FALSE /\ read_pending' = FALSE
      /\ ReadsOK(reads', conn)
  BY <1>1, <1>2, CleanupEffect DEF Typed
<1>5. tampered' = (tampered \/ ~closed)
  BY DEF TrailingCleanup
<1>6. tampered' \in BOOLEAN /\ (closed' \/ tampered')
  BY <1>3, <1>5
<1>7. Typed'
  <2>1. task_running' \in BOOLEAN /\ read_pending' \in BOOLEAN
    BY <1>4
  <2>2. trailing' \in Nat
    BY <1>1, <1>2 DEF Typed
  <2> QED
    BY <1>1, <1>3, <1>4, <1>6, <2>1, <2>2 DEF Typed
<1>8. Future'
  BY <1>1, <1>3 DEF Future
<1> QED
  BY <1>6, <1>7, <1>8 DEF IInv, Looping, Dropping, Bounded

LEMMA ResetInv == IInv /\ reset => IInv'
<1> SUFFICES ASSUME IInv, reset PROVE IInv'
  OBVIOUS
<1>1. Typed /\ Future
  BY DEF IInv
<1>2. /\ cleanup(reads) /\ conn < MaxConns /\ closed' = FALSE /\ conn' = conn + 1
      /\ accepting' = "cleanup" /\ buffer' = <<>> /\ stream' = <<>> /\ out' = <<>>
      /\ dropped' = FALSE /\ tampered' = FALSE
      /\ UNCHANGED <<posted, strand, trailing, bytes>>
  BY DEF reset
<1>3. /\ task_queue' = 0 /\ task_queue' \in 0 .. max_task_queue
      /\ task_running' = FALSE /\ read_pending' = FALSE
      /\ ReadsOK(reads', conn)
  BY <1>1, <1>2, CleanupEffect DEF Typed
<1>4. conn \in Nat /\ conn' \in Conns /\ conn' > conn
  BY <1>1, <1>2, ReadLoopAssumption DEF Typed, Conns
<1>5. \A r \in reads' : r.conn \in Nat /\ r.conn <= conn
  BY <1>3, ReadLoopAssumption DEF ReadsOK, Reads, Conns
<1>6. ReadsOK(reads', conn')
  <2>1. \A r \in reads' : r.conn <= conn'
    BY <1>4, <1>5, <1>2
  <2> QED
    BY <2>1, <1>3 DEF ReadsOK
<1>7. <<>> \in Seq(Digits) /\ <<>> \in Seq(Message) /\ Len(<<>>) = 0
  BY EmptySeq
<1>8. Typed'
  BY <1>1, <1>2, <1>3, <1>4, <1>6, <1>7 DEF Typed
<1>9. Future'
  BY <1>1, <1>2, <1>4 DEF Future, Conns
<1>10. NoRead'
  <2>1. \A r \in reads' : r.conn # conn'
    BY <1>4, <1>5, <1>2
  <2> QED
    BY <2>1 DEF NoRead
<1>11. posted'[conn'] = 0 /\ strand'[conn'].at = "idle"
  BY <1>1, <1>2, <1>4 DEF Future
<1>12. Looping'
  BY <1>2, <1>3, <1>10, <1>11 DEF Looping, Clean
<1>13. Bounded'
  BY <1>2, <1>7, BufferAssumption DEF Bounded
<1> QED
  BY <1>2, <1>8, <1>9, <1>12, <1>13 DEF IInv, Dropping

LEMMA AcquireInv == IInv /\ AcquireCleanup => IInv'
<1> SUFFICES ASSUME IInv, AcquireCleanup PROVE IInv'
  OBVIOUS
<1>1. Typed /\ Future
  BY DEF IInv
<1>2. cleanup(reads) /\ accepting = "cleanup" /\ accepting' = "start"
  BY DEF AcquireCleanup
<1>3. UNCHANGED <<closed, conn, buffer, posted, strand, trailing, bytes, stream, out, dropped,
                  tampered>>
  BY DEF AcquireCleanup, histVars
<1>4. /\ task_queue' = 0 /\ task_queue' \in 0 .. max_task_queue
      /\ task_running' = FALSE /\ read_pending' = FALSE
      /\ ReadsOK(reads', conn)
  BY <1>1, <1>2, CleanupEffect DEF Typed
<1>5. Typed'
  BY <1>1, <1>2, <1>3, <1>4 DEF Typed
<1>6. Future'
  BY <1>1, <1>3 DEF Future
<1>7. Looping'
  <2> SUFFICES ASSUME ~closed, ~tampered PROVE Clean'
    BY <1>2, <1>3 DEF Looping
  <2>1. posted[conn] = 0 /\ NoRead /\ strand[conn].at = "idle" /\ ~dropped
    BY <1>2 DEF IInv, Looping, Clean
  <2>2. PICK f : Carries(reads, reads', f)
    BY <1>1, <1>2, OverwriteCarries, ZerosText DEF Typed, ReadsOK, cleanup
  <2>3. NoRead'
    <3>1. \A q \in reads' : \E r \in reads : q.conn = r.conn
      BY <2>2 DEF Carries
    <3> QED
      BY <2>1, <3>1, <1>3 DEF NoRead
  <2> QED
    BY <2>1, <2>3, <1>3, <1>4 DEF Clean
<1>8. Dropping' /\ Bounded'
  BY <1>3 DEF IInv, Dropping, Bounded
<1> QED
  BY <1>5, <1>6, <1>7, <1>8 DEF IInv


LEMMA StrandTypes ==
  ASSUME NEW pc
  PROVE  /\ At(pc).at = pc /\ Closing(pc).at = "close"
         /\ pc \in {"idle", "extract", "next"} => At(pc) \in StrandStates /\ Closing(pc) \in StrandStates
         /\ Resting \in StrandStates /\ Resting.at = "idle"
BY DEF At, Closing, Resting, StrandStates

\* A step of strand c, whatever it does to it, leaves the others alone.
LEMMA StrandEffect ==
  ASSUME Typed, NEW c \in Conns, NEW q \in StrandStates, strand' = [strand EXCEPT ![c] = q]
  PROVE  /\ strand' \in [Conns -> StrandStates] /\ strand'[c] = q
         /\ \A d \in Conns : d # c => strand'[d] = strand[d]
BY DEF Typed

\* Nothing new is queued for connections to come.
LEMMA FutureKept ==
  ASSUME Typed, Future, NEW c \in Conns, c <= conn, conn' = conn,
         \A d \in Conns : d # c => strand'[d] = strand[d],
         \A d \in Conns : d > conn => posted'[d] = posted[d]
  PROVE  Future'
<1>1. \A d \in Conns : d > conn => d # c
  BY ReadLoopAssumption DEF Typed, Conns
<1> QED
  BY <1>1 DEF Future

\* A strand with something on it is one of a connection that was.
LEMMA StrandOfPast ==
  ASSUME Typed, Future, NEW c \in Conns, strand[c].at # "idle" \/ posted[c] > 0
  PROVE  c <= conn
BY ReadLoopAssumption DEF Typed, Future, Conns

LEMMA EnqueueEffect ==
  ASSUME Typed, NEW c \in Conns, NEW pc \in {"idle", "next"}, Enqueue(c, pc)
  PROVE  /\ task_queue' \in 0 .. max_task_queue /\ task_running' \in BOOLEAN
         /\ ReadsOK(reads', conn)
         /\ strand' \in [Conns -> StrandStates]
         /\ \A d \in Conns : d # c => strand'[d] = strand[d]
<1>1. /\ At(pc) \in StrandStates /\ Closing(pc) \in StrandStates
  BY StrandTypes
<1>2. PICK q \in StrandStates : strand' = [strand EXCEPT ![c] = q]
  BY <1>1, Zenon DEF Enqueue
<1>3. /\ strand' \in [Conns -> StrandStates]
      /\ \A d \in Conns : d # c => strand'[d] = strand[d]
  BY <1>2, StrandEffect
<1>4. ReadsOK(reads', conn)
  <2>1. reads' = reads \/ reads' = reads \cup {Read(reads)}
    BY Zenon DEF Enqueue
  <2>2. ReadsOK(reads, conn) /\ ReadsOK(reads \cup {Read(reads)}, conn)
    BY NewRead DEF Typed
  <2> QED
    BY <2>1, <2>2, Zenon
<1>5. task_queue \in 0 .. max_task_queue /\ task_running \in BOOLEAN
  BY DEF Typed
<1>6. \/ task_queue' = task_queue
      \/ task_queue < max_task_queue /\ task_queue' = task_queue + 1
  BY Zenon DEF Enqueue
<1>7. task_queue' \in 0 .. max_task_queue
  BY <1>5, <1>6, ReadLoopAssumption
<1>8. task_running' = task_running \/ task_running' = TRUE
  BY Zenon DEF Enqueue
<1>9. task_running' \in BOOLEAN
  BY <1>5, <1>8
<1> QED
  BY <1>3, <1>4, <1>7, <1>9

LEMMA StartInv == IInv /\ Start => IInv'
<1> SUFFICES ASSUME IInv, Start PROVE IInv'
  OBVIOUS
<1>1. Typed /\ Future
  BY DEF IInv
<1>2. accepting = "start" /\ accepting' = "done"
  BY DEF Start
<1>3. UNCHANGED <<closed, conn, task_running, task_queue, buffer, reads, strand, trailing,
                  bytes, stream, out, dropped, tampered>>
  BY DEF Start, histVars
<1>4. \/ MayRead /\ read_pending' = TRUE /\ posted' = [posted EXCEPT ![conn] = @ + 1]
      \/ ~MayRead /\ UNCHANGED <<read_pending, posted>>
  BY DEF Start
<1>5. read_pending' \in BOOLEAN
  BY <1>1, <1>4 DEF Typed
<1>6. posted' \in [Conns -> Nat] /\ \A d \in Conns : d # conn => posted'[d] = posted[d]
  BY <1>1, <1>4 DEF Typed
<1>7. Typed'
  BY <1>1, <1>2, <1>3, <1>5, <1>6 DEF Typed
<1>8. Future'
  BY <1>1, <1>3, <1>6, ReadLoopAssumption DEF Future, Typed, Conns
<1>9. Looping'
  <2> SUFFICES ASSUME ~closed, ~tampered PROVE Starting'
    BY <1>2, <1>3 DEF Looping
  <2>1. Clean
    BY <1>2 DEF IInv, Looping
  <2>2. read_pending' = TRUE /\ posted' = [posted EXCEPT ![conn] = @ + 1]
    BY <1>4, <2>1 DEF MayRead, Clean
  <2>3. posted'[conn] = 1
    BY <1>1, <2>1, <2>2 DEF Typed, Clean
  <2>4. NoRead'
    BY <1>3, <2>1 DEF NoRead, Clean
  <2> QED
    BY <1>3, <2>1, <2>2, <2>3, <2>4 DEF Starting, Clean
<1>10. Dropping' /\ Bounded'
  BY <1>3 DEF IInv, Dropping, Bounded
<1> QED
  BY <1>7, <1>8, <1>9, <1>10 DEF IInv

\* A read of the connection joins none: the loop waits for it.
LEMMA WaitingFrom ==
  ASSUME Typed, NoRead, reads' = reads \cup {Read(reads)}, conn' = conn,
         posted'[conn] = 0, strand'[conn].at = "idle",
         read_pending' = TRUE, task_running' = TRUE, task_queue' = 0
  PROVE  Waiting'
<1>1. Read(reads).conn = conn /\ Read(reads).status # "aborted"
  BY NewRead DEF Typed
<1>2. \A r \in reads' : r.conn = conn' => r = Read(reads)
  BY Zenon DEF NoRead
<1>3. Read(reads) \in reads'
  OBVIOUS
<1>4. /\ \E r \in reads' : r.conn = conn'
      /\ \A r, s \in reads' : r.conn = conn' /\ s.conn = conn' => r = s
      /\ \A r \in reads' : r.conn = conn' => r.status # "aborted"
  BY <1>1, <1>2, <1>3, Zenon
<1> QED
  BY <1>4 DEF Waiting

LEMMA RunPostedInv == ASSUME NEW c \in Conns PROVE IInv /\ RunPosted(c) => IInv'
<1> SUFFICES ASSUME IInv, RunPosted(c) PROVE IInv'
  OBVIOUS
<1>1. Typed /\ Future
  BY DEF IInv
<1>2. /\ posted[c] > 0 /\ strand[c].at = "idle"
      /\ posted' = [posted EXCEPT ![c] = @ - 1] /\ Enqueue(c, "idle")
      /\ tampered' = (tampered \/ (c # conn /\ ~closed))
  BY DEF RunPosted
<1>3. UNCHANGED <<closed, conn, accepting, read_pending, buffer, trailing,
                  bytes, stream, out, dropped>>
  BY DEF RunPosted, histVars
<1>4. /\ task_queue' \in 0 .. max_task_queue /\ task_running' \in BOOLEAN
      /\ ReadsOK(reads', conn)
      /\ strand' \in [Conns -> StrandStates]
      /\ \A d \in Conns : d # c => strand'[d] = strand[d]
  BY <1>1, <1>2, EnqueueEffect
<1>5. posted' \in [Conns -> Nat] /\ posted'[c] = posted[c] - 1
      /\ \A d \in Conns : d # c => posted'[d] = posted[d]
  BY <1>1, <1>2 DEF Typed
<1>6. tampered' \in BOOLEAN
  BY <1>2
<1>7. Typed'
  BY <1>1, <1>3, <1>4, <1>5, <1>6 DEF Typed
<1>8. c <= conn
  BY <1>1, <1>2, StrandOfPast
<1>9. Future'
  <2>1. \A d \in Conns : d > conn => posted'[d] = posted[d]
    BY <1>1, <1>5, <1>8, ReadLoopAssumption DEF Typed, Conns
  <2> QED
    BY <1>1, <1>3, <1>4, <1>8, <2>1, FutureKept
<1>10. ASSUME ~closed, ~tampered, c = conn
       PROVE  ~dropped /\ accepting = "done" /\ Waiting' /\ strand'[conn].at = "idle"
  <2>1. accepting = "done" /\ Starting
    BY <1>10, <1>2 DEF IInv, Looping, Clean, Waiting, Handling, Ending
  <2>2. ~dropped
    BY <1>10, <1>2 DEF IInv, Dropping
  <2>3. task_queue = 0 /\ ~task_running /\ 0 < max_task_queue /\ ~(0 >= max_task_queue)
    BY <2>1, ReadLoopAssumption DEF Starting
  <2>4. /\ strand' = [strand EXCEPT ![c] = At("idle")] /\ task_queue' = task_queue
        /\ task_running' = TRUE /\ reads' = reads \cup {Read(reads)}
    BY <1>2, <2>3, Zenon DEF Enqueue
  <2>5. strand'[conn].at = "idle"
    BY <2>4, <1>10, <1>1, StrandTypes DEF Typed
  <2>6. posted'[conn] = 0
    BY <1>5, <1>10, <2>1 DEF Starting
  <2>7. NoRead /\ read_pending' = TRUE
    BY <2>1, <1>3, <1>1 DEF Starting, Typed
  <2>8. task_queue' = 0
    BY <2>3, <2>4
  <2>9. Waiting'
    BY <1>1, <1>3, <2>4, <2>5, <2>6, <2>7, <2>8, WaitingFrom
  <2> QED
    BY <2>1, <2>2, <2>5, <2>9
<1>11. ASSUME ~closed', ~tampered' PROVE ~closed /\ ~tampered /\ c = conn
  BY <1>11, <1>2, <1>3
<1>12. Looping' /\ Dropping'
  BY <1>3, <1>10, <1>11 DEF Looping, Dropping
<1>13. Bounded'
  <2> SUFFICES ASSUME ~closed', ~tampered'
               PROVE  Len(buffer') <= ABSOLUTE_MAX_BUFFER \/ Len(buffer') < Prefix + MAX_PACKET_SIZE
    BY DEF Bounded
  <2> QED
    BY <1>2, <1>3, <1>11 DEF IInv, Bounded
<1> QED
  BY <1>7, <1>9, <1>12, <1>13 DEF IInv


\* What the client sends, or its going, changes what becomes of the reads, one
\* for one.
LEMMA CompleteEffect ==
  ASSUME Typed, Complete
  PROVE  /\ \E f : /\ Carries(reads, reads', f)
                   /\ \A r \in reads : r.status # "aborted" => f[r].status # "aborted"
         /\ ReadsOK(reads', conn)
         /\ bytes' \in 0 .. MaxBytes /\ stream' \in Seq(Digits)
<1>1. reads \in SUBSET Reads /\ IsFiniteSet(reads) /\ ReadsOK(reads, conn)
  BY DEF Typed, ReadsOK
<1>2. ASSUME NEW r \in reads, NEW q \in Reads, NEW chunk \in Texts,
             q.id = r.id, q.conn = r.conn, q.status # "aborted",
             reads' = Overwrite(reads \ {r}, chunk) \cup {q}
      PROVE  \E f : /\ Carries(reads, reads', f) /\ reads' \in SUBSET Reads
                    /\ \A s \in reads : s.status # "aborted" => f[s].status # "aborted"
  <2>1. \A rs \in SUBSET Reads :
          \E g : /\ Carries(rs, Overwrite(rs, chunk), g)
                 /\ Overwrite(rs, chunk) \in SUBSET Reads
                 /\ \A s \in rs : g[s].status = s.status
    BY OverwriteCarries
  <2>2. PICK g : /\ Carries(reads \ {r}, Overwrite(reads \ {r}, chunk), g)
                 /\ Overwrite(reads \ {r}, chunk) \in SUBSET Reads
                 /\ \A s \in reads \ {r} : g[s].status = s.status
    <3>1. reads \ {r} \in SUBSET Reads
      BY <1>1
    <3> QED
      BY <2>1, <3>1, Zenon
  <2> DEFINE f == [s \in reads |-> IF s = r THEN q ELSE g[s]]
  <2>3. f[r] = q /\ \A s \in reads \ {r} : f[s] = g[s]
    OBVIOUS
  <2>4. f \in [reads -> reads']
    BY <1>2, <2>2 DEF Carries
  <2>5. \A p \in reads' : \E s \in reads : p = f[s]
    <3> TAKE p \in reads'
    <3>1. CASE p = q
      BY <3>1, <2>3
    <3>2. CASE p # q
      <4>1. PICK s \in reads \ {r} : p = g[s]
        BY <3>2, <1>2, <2>2, Zenon DEF Carries
      <4> QED
        BY <4>1, <2>3
    <3> QED
      BY <3>1, <3>2
  <2>6. \A s \in reads : f[s].id = s.id /\ f[s].conn = s.conn
    <3> TAKE s \in reads
    <3>1. CASE s = r
      BY <3>1, <1>2, <2>3
    <3>2. CASE s # r
      BY <3>2, <2>2, <2>3 DEF Carries
    <3> QED
      BY <3>1, <3>2
  <2>7. \A s \in reads : s.status # "aborted" => f[s].status # "aborted"
    <3> TAKE s \in reads
    <3>1. CASE s = r
      BY <3>1, <1>2, <2>3
    <3>2. CASE s # r
      BY <3>2, <2>2, <2>3
    <3> QED
      BY <3>1, <3>2
  <2>8. reads' \in SUBSET Reads
    BY <1>2, <2>2
  <2> HIDE DEF f
  <2> QED
    BY <2>4, <2>5, <2>6, <2>7, <2>8 DEF Carries
<1>3. ASSUME NEW r \in reads, NEW q \in Reads,
             q.id = r.id, q.conn = r.conn, q.status # "aborted",
             reads' = (reads \ {r}) \cup {q}
      PROVE  \E f : /\ Carries(reads, reads', f) /\ reads' \in SUBSET Reads
                    /\ \A s \in reads : s.status # "aborted" => f[s].status # "aborted"
  <2> DEFINE f == [s \in reads |-> IF s = r THEN q ELSE s]
  <2>1. f[r] = q /\ \A s \in reads : s # r => f[s] = s
    OBVIOUS
  <2>2. f \in [reads -> reads'] /\ \A p \in reads' : \E s \in reads : p = f[s]
    BY <1>3
  <2>3. \A s \in reads : /\ f[s].id = s.id /\ f[s].conn = s.conn
                         /\ s.status # "aborted" => f[s].status # "aborted"
    <3> TAKE s \in reads
    <3>1. CASE s = r
      BY <3>1, <1>3, <2>1
    <3>2. CASE s # r
      BY <3>2, <2>1
    <3> QED
      BY <3>1, <3>2
  <2>4. reads' \in SUBSET Reads
    BY <1>1, <1>3
  <2> HIDE DEF f
  <2> QED
    BY <2>2, <2>3, <2>4 DEF Carries
<1>4. PICK r \in reads :
        \/ \E chunk \in Chunks :
             /\ bytes + Len(chunk) <= MaxBytes
             /\ bytes' = bytes + Len(chunk)
             /\ stream' = IF tampered THEN <<>> ELSE stream \o chunk
             /\ reads' = Overwrite(reads \ {r}, chunk)
                           \cup {[r EXCEPT !.status = "ready", !.chunk = chunk]}
        \/ /\ reads' = (reads \ {r}) \cup {[r EXCEPT !.status = "failed"]}
           /\ UNCHANGED <<bytes, stream>>
  BY DEF Complete
<1>5. r \in Reads
  BY <1>1
<1>6. /\ \E f : /\ Carries(reads, reads', f) /\ reads' \in SUBSET Reads
                /\ \A s \in reads : s.status # "aborted" => f[s].status # "aborted"
      /\ bytes' \in 0 .. MaxBytes /\ stream' \in Seq(Digits)
  <2>1. ASSUME NEW chunk \in Chunks,
               bytes + Len(chunk) <= MaxBytes, bytes' = bytes + Len(chunk),
               stream' = IF tampered THEN <<>> ELSE stream \o chunk,
               reads' = Overwrite(reads \ {r}, chunk)
                          \cup {[r EXCEPT !.status = "ready", !.chunk = chunk]}
        PROVE  /\ \E f : /\ Carries(reads, reads', f) /\ reads' \in SUBSET Reads
                         /\ \A s \in reads : s.status # "aborted" => f[s].status # "aborted"
               /\ bytes' \in 0 .. MaxBytes /\ stream' \in Seq(Digits)
    <3>1. chunk \in Texts
      BY DEF Texts
    <3>2. PICK q : q = [r EXCEPT !.status = "ready", !.chunk = chunk]
      OBVIOUS
    <3>3. q \in Reads /\ q.id = r.id /\ q.conn = r.conn /\ q.status # "aborted"
      BY <1>5, <3>1, <3>2 DEF Reads, Statuses
    <3>4. reads' = Overwrite(reads \ {r}, chunk) \cup {q}
      BY <2>1, <3>2, Zenon
    <3>5. \E f : /\ Carries(reads, reads', f) /\ reads' \in SUBSET Reads
                 /\ \A s \in reads : s.status # "aborted" => f[s].status # "aborted"
      BY <3>1, <3>3, <3>4, <1>2
    <3>6. chunk \in Seq(Digits) /\ Len(chunk) \in Nat
      BY <3>1, TextTypes, BufferAssumption
    <3>7. bytes' \in 0 .. MaxBytes
      BY <2>1, <3>6, ReadLoopAssumption DEF Typed
    <3>8. stream \o chunk \in Seq(Digits) /\ <<>> \in Seq(Digits)
      BY <3>6, ConcatProperties, EmptySeq DEF Typed
    <3>9. stream' \in Seq(Digits)
      BY <2>1, <3>8, Zenon
    <3> QED
      BY <3>5, <3>7, <3>9
  <2>2. ASSUME reads' = (reads \ {r}) \cup {[r EXCEPT !.status = "failed"]},
               UNCHANGED <<bytes, stream>>
        PROVE  /\ \E f : /\ Carries(reads, reads', f) /\ reads' \in SUBSET Reads
                         /\ \A s \in reads : s.status # "aborted" => f[s].status # "aborted"
               /\ bytes' \in 0 .. MaxBytes /\ stream' \in Seq(Digits)
    <3>1. PICK q : q = [r EXCEPT !.status = "failed"]
      OBVIOUS
    <3>2. q \in Reads /\ q.id = r.id /\ q.conn = r.conn /\ q.status # "aborted"
      BY <1>5, <3>1 DEF Reads, Statuses
    <3>3. reads' = (reads \ {r}) \cup {q}
      BY <2>2, <3>1, Zenon
    <3>4. \E f : /\ Carries(reads, reads', f) /\ reads' \in SUBSET Reads
                 /\ \A s \in reads : s.status # "aborted" => f[s].status # "aborted"
      BY <3>2, <3>3, <1>3
    <3>5. bytes' \in 0 .. MaxBytes /\ stream' \in Seq(Digits)
      BY <2>2 DEF Typed
    <3> QED
      BY <3>4, <3>5
  <2> QED
    BY <1>4, <2>1, <2>2
<1>7. PICK f : /\ Carries(reads, reads', f) /\ reads' \in SUBSET Reads
               /\ \A s \in reads : s.status # "aborted" => f[s].status # "aborted"
  BY <1>6
<1>8. IsFiniteSet(reads')
  BY <1>1, <1>7, CarriesFinite
<1>9. \A q \in reads' : q.conn <= conn
  BY <1>1, <1>7 DEF ReadsOK, Carries
<1> QED
  BY <1>6, <1>7, <1>8, <1>9 DEF ReadsOK

LEMMA CompleteInv == IInv /\ Complete => IInv'
<1> SUFFICES ASSUME IInv, Complete PROVE IInv'
  OBVIOUS
<1>1. Typed /\ Future
  BY DEF IInv
<1>2. UNCHANGED <<closed, conn, accepting, read_pending, task_running, task_queue, buffer, posted,
                  strand, trailing, out, dropped, tampered>>
  BY DEF Complete, loopVars
<1>3. /\ ReadsOK(reads', conn)
      /\ bytes' \in 0 .. MaxBytes /\ stream' \in Seq(Digits)
  BY <1>1, CompleteEffect
<1>4. PICK f : /\ Carries(reads, reads', f)
               /\ \A r \in reads : r.status # "aborted" => f[r].status # "aborted"
  BY <1>1, CompleteEffect
<1>5. Typed'
  BY <1>1, <1>2, <1>3 DEF Typed
<1>6. Future' /\ Dropping' /\ Bounded'
  BY <1>1, <1>2 DEF Future, IInv, Dropping, Bounded
<1>7. NoRead => NoRead'
  BY <1>2, <1>4 DEF NoRead, Carries
<1>8. Waiting => Waiting'
  <2> SUFFICES ASSUME Waiting PROVE Waiting'
    OBVIOUS
  <2>1. \E r \in reads' : r.conn = conn
    <3>1. PICK r \in reads : r.conn = conn
      BY DEF Waiting
    <3>2. f[r] \in reads' /\ f[r].conn = conn
      BY <3>1, <1>4 DEF Carries
    <3> QED
      BY <3>2
  <2>2. \A q \in reads' : q.conn = conn => \E r \in reads : q = f[r] /\ r.conn = conn
    BY <1>4 DEF Carries
  <2>3. \A p, q \in reads' : p.conn = conn /\ q.conn = conn => p = q
    BY <2>2, Zenon DEF Waiting
  <2>4. \A q \in reads' : q.conn = conn => q.status # "aborted"
    BY <2>2, <1>4, Zenon DEF Waiting
  <2> QED
    BY <1>2, <2>1, <2>3, <2>4 DEF Waiting
<1>9. /\ Clean => Clean'
      /\ Starting => Starting'
      /\ Handling => Handling'
      /\ Ending => Ending'
  BY <1>2, <1>7 DEF Clean, Starting, Handling, Ending
<1>10. Looping'
  <2>1. closed' = closed /\ tampered' = tampered /\ accepting' = accepting
    BY <1>2
  <2>2. Looping
    BY DEF IInv
  <2> SUFFICES ASSUME ~closed, ~tampered
               PROVE  \/ accepting # "done" /\ Clean'
                      \/ accepting = "done" /\ (Starting' \/ Waiting' \/ Handling' \/ Ending')
    BY <2>1 DEF Looping
  <2>3. CASE accepting # "done"
    <3>1. Clean
      BY <2>2, <2>3 DEF Looping
    <3> QED
      BY <3>1, <2>3, <1>9
  <2>4. CASE accepting = "done"
    <3>1. Starting \/ Waiting \/ Handling \/ Ending
      BY <2>2, <2>4 DEF Looping
    <3> QED
      BY <3>1, <2>4, <1>8, <1>9
  <2> QED
    BY <2>3, <2>4
<1> QED
  BY <1>3, <1>5, <1>6, <1>10 DEF IInv


LEMMA HandleInv == IInv /\ Handle => IInv'
<1> SUFFICES ASSUME IInv, Handle PROVE IInv'
  OBVIOUS
<1>1. Typed /\ Future
  BY DEF IInv
<1>2. PICK r \in reads :
        /\ r.status # "live" /\ strand[r.conn].at = "idle"
        /\ reads' = reads \ {r}
        /\ release_read(r)
        /\ \/ /\ r.status = "ready"
              /\ buffer' = buffer \o r.chunk
              /\ strand' = [strand EXCEPT ![r.conn] = At("extract")]
           \/ /\ r.status = "failed"
              /\ strand' = [strand EXCEPT ![r.conn] = Closing("next")]
              /\ UNCHANGED buffer
           \/ /\ r.status = "aborted"
              /\ strand' = [strand EXCEPT ![r.conn] = At("next")]
              /\ UNCHANGED buffer
        /\ tampered' = (tampered \/ (r.conn # conn /\ ~closed))
  BY DEF Handle
<1>3. UNCHANGED <<closed, conn, accepting, task_running, task_queue, posted, trailing,
                  bytes, stream, out, dropped>>
  BY DEF Handle, histVars
<1>4. /\ r \in Reads /\ r.conn \in Conns /\ r.conn <= conn /\ r.chunk \in Texts
  BY <1>1 DEF Typed, ReadsOK, Reads
<1>5. PICK q \in StrandStates : /\ strand' = [strand EXCEPT ![r.conn] = q]
                                /\ r.status # "aborted" => q.at \in {"extract", "close"}
  <2>1. /\ At("extract") \in StrandStates /\ At("extract").at = "extract"
        /\ Closing("next") \in StrandStates /\ Closing("next").at = "close"
        /\ At("next") \in StrandStates
    BY StrandTypes
  <2> QED
    BY <1>2, <2>1
<1>6. /\ strand' \in [Conns -> StrandStates] /\ strand'[r.conn] = q
      /\ \A d \in Conns : d # r.conn => strand'[d] = strand[d]
  BY <1>1, <1>4, <1>5, StrandEffect
<1>7. ReadsOK(reads', conn)
  <2>1. IsFiniteSet(reads')
    BY <1>1, <1>2, FS_RemoveElement DEF Typed, ReadsOK
  <2> QED
    BY <1>1, <1>2, <2>1 DEF Typed, ReadsOK
<1>8. buffer' \in Seq(Digits)
  <2>1. r.chunk \in Seq(Digits)
    BY <1>4, TextTypes
  <2>2. buffer \o r.chunk \in Seq(Digits) /\ buffer \in Seq(Digits)
    BY <1>1, <2>1, ConcatProperties DEF Typed
  <2>3. buffer' = buffer \o r.chunk \/ buffer' = buffer
    BY <1>2
  <2> QED
    BY <2>2, <2>3, Zenon
<1>9. read_pending' \in BOOLEAN /\ tampered' \in BOOLEAN /\ read_pending' = FALSE
  BY <1>2 DEF release_read
<1>10. Typed'
  BY <1>1, <1>3, <1>6, <1>7, <1>8, <1>9 DEF Typed
<1>11. Future'
  BY <1>1, <1>3, <1>4, <1>6, FutureKept
<1>12. ASSUME ~closed', ~tampered' PROVE ~closed /\ ~tampered /\ r.conn = conn
  BY <1>12, <1>2, <1>3
<1>13. ASSUME ~closed', ~tampered'
       PROVE  accepting' = "done" /\ Handling' /\ ~dropped'
  <2>1. ~closed /\ ~tampered /\ r.conn = conn
    BY <1>13, <1>12
  <2>2. accepting = "done" /\ Waiting
    BY <2>1 DEF IInv, Looping, Clean, Starting, Handling, Ending, NoRead
  <2>3. strand'[conn].at \in {"extract", "close"}
    BY <2>1, <2>2, <1>5, <1>6 DEF Waiting
  <2>4. NoRead'
    BY <1>2, <1>3, <2>1, <2>2 DEF NoRead, Waiting
  <2>5. ~dropped
    BY <2>1, <2>2 DEF IInv, Dropping, Waiting
  <2> QED
    BY <1>3, <1>9, <2>2, <2>3, <2>4, <2>5 DEF Waiting, Handling
<1>14. Looping' /\ Dropping'
  BY <1>13 DEF Looping, Dropping
<1>15. Bounded'
  BY <1>13 DEF Bounded, Handling
<1> QED
  BY <1>10, <1>11, <1>14, <1>15 DEF IInv

LEMMA DispatchInv == ASSUME NEW c \in Conns PROVE IInv /\ Dispatch(c) => IInv'
<1> SUFFICES ASSUME IInv, Dispatch(c) PROVE IInv'
  OBVIOUS
<1>1. Typed /\ Future
  BY DEF IInv
<1>2. PICK r : r = extract_message(buffer)
  OBVIOUS
<1>3. /\ strand[c].at = "extract" /\ r.found /\ buffer' = r.left
      /\ \E pc \in {At("extract"), Closing("extract"), Closing("idle")} :
           strand' = [strand EXCEPT ![c] = pc]
      /\ tampered' = (tampered \/ (c # conn /\ ~closed))
      /\ out' = IF closed \/ tampered' THEN <<>> ELSE Append(out, r.msg)
  BY <1>2 DEF Dispatch
<1>4. UNCHANGED <<closed, conn, accepting, read_pending, task_running, task_queue, posted, reads,
                  trailing, bytes, stream, dropped>>
  BY DEF Dispatch, loopVars
<1>5. buffer' \in Seq(Digits) /\ r.msg \in Message
  BY <1>1, <1>2, <1>3, Extracted DEF Typed, Message
<1>6. PICK q \in StrandStates : /\ strand' = [strand EXCEPT ![c] = q]
                                /\ q.at \in {"extract", "close"}
  <2>1. /\ At("extract") \in StrandStates /\ At("extract").at = "extract"
        /\ Closing("extract") \in StrandStates /\ Closing("extract").at = "close"
        /\ Closing("idle") \in StrandStates /\ Closing("idle").at = "close"
    BY StrandTypes
  <2> QED
    BY <1>3, <2>1
<1>7. /\ strand' \in [Conns -> StrandStates] /\ strand'[c] = q
      /\ \A d \in Conns : d # c => strand'[d] = strand[d]
  BY <1>1, <1>6, StrandEffect
<1>8. out' \in Seq(Message)
  <2>1. Append(out, r.msg) \in Seq(Message) /\ <<>> \in Seq(Message)
    BY <1>1, <1>5, AppendProperties, EmptySeq DEF Typed
  <2> QED
    BY <1>3, <2>1, Zenon
<1>9. tampered' \in BOOLEAN
  BY <1>3
<1>10. Typed'
  BY <1>1, <1>4, <1>5, <1>7, <1>8, <1>9 DEF Typed
<1>11. Future'
  BY <1>1, <1>3, <1>4, <1>7, FutureKept, StrandOfPast
<1>12. ASSUME ~closed', ~tampered'
       PROVE  accepting' = "done" /\ Handling' /\ ~dropped'
  <2>1. ~closed /\ ~tampered /\ c = conn
    BY <1>12, <1>3, <1>4
  <2>2. accepting = "done" /\ Handling
    BY <2>1, <1>3 DEF IInv, Looping, Clean, Starting, Waiting, Ending
  <2>3. strand'[conn].at \in {"extract", "close"}
    BY <2>1, <1>6, <1>7
  <2>4. NoRead'
    BY <1>4, <2>2 DEF NoRead, Handling
  <2>5. ~dropped
    BY <1>3, <2>1, <2>2 DEF IInv, Dropping
  <2> QED
    BY <1>4, <2>2, <2>3, <2>4, <2>5 DEF Handling
<1>13. Looping' /\ Dropping'
  BY <1>12 DEF Looping, Dropping
<1>14. Bounded'
  BY <1>12 DEF Bounded, Handling
<1> QED
  BY <1>10, <1>11, <1>13, <1>14 DEF IInv

LEMMA HandlerCloseInv == ASSUME NEW c \in Conns PROVE IInv /\ HandlerClose(c) => IInv'
<1> SUFFICES ASSUME IInv, HandlerClose(c) PROVE IInv'
  OBVIOUS
<1>1. Typed /\ Future
  BY DEF IInv
<1>2. strand[c].at = "close"
  BY DEF HandlerClose
<1>3. UNCHANGED <<conn, accepting, buffer, posted, trailing, dropped, tampered>>
  BY DEF HandlerClose
<1>4. c <= conn
  BY <1>1, <1>2, StrandOfPast
<1>5. CASE close_session /\ strand' = [strand EXCEPT ![c].at = "cleanup"]
  <2>1. /\ closed' = TRUE /\ task_queue' \in 0 .. max_task_queue
        /\ task_running' = FALSE /\ read_pending' = FALSE
        /\ ReadsOK(reads', conn)
        /\ stream' \in Seq(Digits) /\ out' \in Seq(Message) /\ bytes' = bytes
    BY <1>1, <1>5, CloseEffect
  <2>2. /\ strand' \in [Conns -> StrandStates]
        /\ \A d \in Conns : d # c => strand'[d] = strand[d]
    BY <1>1, <1>5 DEF Typed, StrandStates
  <2>3. closed' \in BOOLEAN /\ task_running' \in BOOLEAN /\ read_pending' \in BOOLEAN
    BY <2>1
  <2>4. Typed'
    BY <1>1, <1>3, <2>1, <2>2, <2>3 DEF Typed
  <2>5. Future'
    BY <1>1, <1>3, <1>4, <2>2, FutureKept
  <2> QED
    BY <2>1, <2>4, <2>5 DEF IInv, Looping, Dropping, Bounded
<1>6. CASE /\ Refused
           /\ strand' = [strand EXCEPT ![c] = At(strand[c].then)]
           /\ UNCHANGED <<closed, loopVars, reads, bytes, stream, out>>
  <2>1. UNCHANGED <<closed, read_pending, task_running, task_queue, reads, bytes, stream, out>>
    BY <1>6 DEF loopVars
  <2>2. At(strand[c].then) \in StrandStates
    <3>1. strand[c].then \in {"idle", "extract", "next"}
      BY <1>1 DEF Typed, StrandStates
    <3> QED
      BY <3>1, StrandTypes
  <2>3. /\ strand' \in [Conns -> StrandStates]
        /\ \A d \in Conns : d # c => strand'[d] = strand[d]
    BY <1>1, <1>6, <2>2, StrandEffect
  <2>4. Typed'
    BY <1>1, <1>3, <2>1, <2>3 DEF Typed
  <2>5. Future'
    BY <1>1, <1>3, <1>4, <2>3, FutureKept
  <2>6. ASSUME ~closed, ~tampered
        PROVE  accepting # "done" /\ Clean /\ strand'[conn] = strand[conn]
    <3>1. accepting = "cleanup"
      BY <1>6, <2>6 DEF Refused
    <3>2. accepting # "done" /\ Clean
      BY <3>1, <2>6 DEF IInv, Looping
    <3>3. c # conn /\ conn \in Conns
      BY <3>2, <1>2, <1>1 DEF Clean, Typed
    <3> QED
      BY <3>2, <3>3, <2>3
  <2>7. Looping'
    <3> SUFFICES ASSUME ~closed, ~tampered PROVE accepting # "done" /\ Clean'
      BY <1>3, <2>1 DEF Looping
    <3>1. Clean /\ strand'[conn] = strand[conn] /\ accepting # "done"
      BY <2>6
    <3>2. NoRead'
      BY <3>1, <1>3, <2>1 DEF Clean, NoRead
    <3> QED
      BY <3>1, <3>2, <1>3, <2>1 DEF Clean
  <2>8. Dropping' /\ Bounded'
    BY <1>3, <2>1, <2>6 DEF IInv, Dropping, Bounded
  <2> QED
    BY <2>4, <2>5, <2>7, <2>8 DEF IInv
<1> QED
  BY <1>5, <1>6 DEF HandlerClose

LEMMA HandlerCleanupInv == ASSUME NEW c \in Conns PROVE IInv /\ HandlerCleanup(c) => IInv'
<1> SUFFICES ASSUME IInv, HandlerCleanup(c) PROVE IInv'
  OBVIOUS
<1>1. Typed /\ Future
  BY DEF IInv
<1>2. /\ cleanup(reads) /\ strand[c].at = "cleanup"
      /\ strand' = [strand EXCEPT ![c] = At(strand[c].then)]
      /\ tampered' = (tampered \/ ~closed)
  BY DEF HandlerCleanup
<1>3. UNCHANGED <<closed, conn, accepting, buffer, posted, trailing, bytes, stream, out, dropped>>
  BY DEF HandlerCleanup, histVars
<1>4. /\ task_queue' \in 0 .. max_task_queue /\ task_running' = FALSE /\ read_pending' = FALSE
      /\ ReadsOK(reads', conn)
  BY <1>1, <1>2, CleanupEffect DEF Typed
<1>5. At(strand[c].then) \in StrandStates
  <2>1. strand[c].then \in {"idle", "extract", "next"}
    BY <1>1 DEF Typed, StrandStates
  <2> QED
    BY <2>1, StrandTypes
<1>6. /\ strand' \in [Conns -> StrandStates]
      /\ \A d \in Conns : d # c => strand'[d] = strand[d]
  BY <1>1, <1>2, <1>5, StrandEffect
<1>7. tampered' \in BOOLEAN /\ (closed' \/ tampered')
  BY <1>2, <1>3
<1>8. task_running' \in BOOLEAN /\ read_pending' \in BOOLEAN
  BY <1>4
<1>9. Typed'
  BY <1>1, <1>3, <1>4, <1>6, <1>7, <1>8 DEF Typed
<1>10. c <= conn
  BY <1>1, <1>2, StrandOfPast
<1>11. Future'
  BY <1>1, <1>3, <1>6, <1>10, FutureKept
<1> QED
  BY <1>7, <1>9, <1>11 DEF IInv, Looping, Dropping, Bounded


LEMMA RunNextInv == ASSUME NEW c \in Conns PROVE IInv /\ RunNext(c) => IInv'
<1> SUFFICES ASSUME IInv, RunNext(c) PROVE IInv'
  OBVIOUS
<1>1. Typed /\ Future
  BY DEF IInv
<1>2. /\ strand[c].at = "next" /\ run_next_task(task_queue)
      /\ strand' = [strand EXCEPT ![c] = Resting]
      /\ tampered' = (tampered \/ (c # conn /\ ~closed))
  BY DEF RunNext
<1>3. UNCHANGED <<closed, conn, accepting, read_pending, buffer, posted, trailing,
                  bytes, stream, out, dropped>>
  BY DEF RunNext, histVars
<1>4. \/ task_queue = 0 /\ task_queue' = 0 /\ task_running' = FALSE /\ reads' = reads
      \/ /\ task_queue > 0 /\ task_queue' = task_queue - 1 /\ task_running' = task_running
         /\ reads' = reads \cup {Read(reads)}
  BY <1>2 DEF run_next_task
<1>5. ReadsOK(reads', conn)
  <2>1. ReadsOK(reads, conn) /\ ReadsOK(reads \cup {Read(reads)}, conn)
    BY <1>1, NewRead DEF Typed
  <2> QED
    BY <1>4, <2>1, Zenon
<1>6. task_queue' \in 0 .. max_task_queue
  BY <1>1, <1>4, ReadLoopAssumption DEF Typed
<1>7. task_running' \in BOOLEAN /\ tampered' \in BOOLEAN
  <2>1. task_running \in BOOLEAN
    BY <1>1 DEF Typed
  <2> QED
    BY <2>1, <1>2, <1>4
<1>8. /\ strand' \in [Conns -> StrandStates] /\ strand'[c].at = "idle"
      /\ \A d \in Conns : d # c => strand'[d] = strand[d]
  BY <1>1, <1>2, StrandEffect, StrandTypes
<1>9. Typed'
  BY <1>1, <1>3, <1>5, <1>6, <1>7, <1>8 DEF Typed
<1>10. c <= conn
  BY <1>1, <1>2, StrandOfPast
<1>11. Future'
  BY <1>1, <1>3, <1>8, <1>10, FutureKept
<1>12. ASSUME ~closed', ~tampered'
       PROVE  /\ ~closed /\ ~tampered /\ c = conn
              /\ accepting' = "done" /\ Waiting' /\ ~dropped'
  <2>1. ~closed /\ ~tampered /\ c = conn
    BY <1>12, <1>2, <1>3
  <2>2. accepting = "done" /\ Ending
    BY <2>1, <1>2 DEF IInv, Looping, Clean, Starting, Waiting, Handling
  <2>3. ~dropped
    BY <2>1, <2>2 DEF IInv, Dropping, Ending
  <2>4. task_queue' = 0 /\ reads' = reads \cup {Read(reads)} /\ task_running' = task_running
    BY <1>4, <2>2 DEF Ending
  <2>5. task_running' = TRUE /\ read_pending' = TRUE
    BY <1>1, <1>3, <2>2, <2>4 DEF Ending, Typed
  <2>6. NoRead /\ posted'[conn] = 0 /\ strand'[conn].at = "idle"
    BY <1>3, <1>8, <2>1, <2>2 DEF Ending
  <2>7. Waiting'
    BY <1>1, <1>3, <2>4, <2>5, <2>6, WaitingFrom
  <2> QED
    BY <1>3, <2>1, <2>2, <2>3, <2>7
<1>13. Looping' /\ Dropping'
  BY <1>12 DEF Looping, Dropping
<1>14. Bounded'
  <2> SUFFICES ASSUME ~closed', ~tampered'
               PROVE  Len(buffer') <= ABSOLUTE_MAX_BUFFER \/ Len(buffer') < Prefix + MAX_PACKET_SIZE
    BY DEF Bounded
  <2> QED
    BY <1>2, <1>3, <1>12 DEF IInv, Bounded
<1> QED
  BY <1>9, <1>11, <1>13, <1>14 DEF IInv

LEMMA ReadOnInv == ASSUME NEW c \in Conns PROVE IInv /\ ReadOn(c) => IInv'
<1> SUFFICES ASSUME IInv, ReadOn(c) PROVE IInv'
  OBVIOUS
<1>1. Typed /\ Future
  BY DEF IInv
<1>2. PICK r : r = extract_message(buffer)
  OBVIOUS
<1>3. /\ strand[c].at = "extract" /\ ~r.found /\ buffer' = r.left
      /\ dropped' = (dropped \/ r.invalid)
      /\ tampered' = (tampered \/ (c # conn /\ ~closed))
  BY <1>2 DEF ReadOn
<1>4. UNCHANGED <<closed, conn, accepting, trailing, bytes, stream, out>>
  BY DEF ReadOn
<1>5. \/ /\ r.invalid
         /\ strand' = [strand EXCEPT ![c] = Closing("idle")]
         /\ UNCHANGED <<read_pending, task_running, task_queue, reads, posted>>
      \/ /\ ~r.invalid /\ ~MayRead
         /\ strand' = [strand EXCEPT ![c] = At("next")]
         /\ UNCHANGED <<read_pending, task_running, task_queue, reads, posted>>
      \/ /\ ~r.invalid /\ MayRead /\ c = conn
         /\ read_pending' = TRUE /\ Enqueue(c, "next") /\ UNCHANGED posted
      \/ /\ ~r.invalid /\ MayRead /\ c # conn
         /\ read_pending' = TRUE
         /\ posted' = [posted EXCEPT ![conn] = @ + 1]
         /\ strand' = [strand EXCEPT ![c] = At("next")]
         /\ UNCHANGED <<reads, task_queue, task_running>>
  BY <1>2 DEF ReadOn, MustClose, loopVars
<1>6. /\ buffer' \in Seq(Digits) /\ r.invalid \in BOOLEAN
      /\ Len(buffer') <= ABSOLUTE_MAX_BUFFER \/ Len(buffer') < Prefix + MAX_PACKET_SIZE
  BY <1>1, <1>2, <1>3, Extracted DEF Typed
<1>7. /\ ReadsOK(reads', conn)
      /\ task_queue' \in 0 .. max_task_queue /\ task_running' \in BOOLEAN
      /\ strand' \in [Conns -> StrandStates]
      /\ \A d \in Conns : d # c => strand'[d] = strand[d]
  <2>1. CASE Enqueue(c, "next")
    BY <1>1, <2>1, EnqueueEffect
  <2>2. CASE /\ \E q \in StrandStates : strand' = [strand EXCEPT ![c] = q]
             /\ UNCHANGED <<reads, task_queue, task_running>>
    <3>1. /\ strand' \in [Conns -> StrandStates]
          /\ \A d \in Conns : d # c => strand'[d] = strand[d]
      BY <1>1, <2>2, StrandEffect
    <3>2. /\ ReadsOK(reads, conn)
          /\ task_queue \in 0 .. max_task_queue /\ task_running \in BOOLEAN
      BY <1>1 DEF Typed
    <3> QED
      BY <2>2, <3>1, <3>2
  <2>3. Closing("idle") \in StrandStates /\ At("next") \in StrandStates
    BY StrandTypes
  <2> QED
    BY <1>5, <2>1, <2>2, <2>3, Zenon
<1>8. /\ posted' \in [Conns -> Nat] /\ \A d \in Conns : d # conn => posted'[d] = posted[d]
  <2>1. posted' = posted \/ posted' = [posted EXCEPT ![conn] = @ + 1]
    BY <1>5
  <2> QED
    BY <2>1, <1>1 DEF Typed
<1>9. read_pending' \in BOOLEAN /\ tampered' \in BOOLEAN /\ dropped' \in BOOLEAN
  <2>1. read_pending \in BOOLEAN
    BY <1>1 DEF Typed
  <2>2. read_pending' = read_pending \/ read_pending' = TRUE
    BY <1>5
  <2> QED
    BY <2>1, <2>2, <1>3
<1>10. Typed'
  BY <1>1, <1>4, <1>6, <1>7, <1>8, <1>9 DEF Typed
<1>11. c <= conn
  BY <1>1, <1>3, StrandOfPast
<1>12. Future'
  <2>1. \A d \in Conns : d > conn => posted'[d] = posted[d]
    BY <1>1, <1>8, ReadLoopAssumption DEF Typed, Conns
  <2> QED
    BY <1>1, <1>4, <1>7, <1>11, <2>1, FutureKept
<1>13. ASSUME ~closed', ~tampered'
       PROVE  /\ accepting' = "done"
              /\ \/ Handling' /\ strand'[conn'].at = "close"
                 \/ Ending' /\ ~dropped'
  <2>1. ~closed /\ ~tampered /\ c = conn
    BY <1>13, <1>3, <1>4
  <2>2. accepting = "done" /\ Handling
    BY <2>1, <1>3 DEF IInv, Looping, Clean, Starting, Waiting, Ending
  <2>3. ~dropped /\ conn \in Conns
    BY <2>1, <1>1, <1>3 DEF IInv, Dropping, Typed
  <2>4. MayRead
    BY <2>1, <2>2 DEF MayRead, Handling
  <2>5. CASE r.invalid
    <3>1. /\ strand' = [strand EXCEPT ![c] = Closing("idle")]
          /\ UNCHANGED <<read_pending, task_running, task_queue, reads, posted>>
      BY <1>5, <2>5
    <3>2. strand'[conn].at = "close"
      BY <3>1, <2>1, <1>1, StrandTypes DEF Typed
    <3>3. NoRead'
      BY <1>4, <2>2, <3>1 DEF NoRead, Handling
    <3> QED
      BY <1>4, <2>2, <3>1, <3>2, <3>3 DEF Handling
  <2>6. CASE ~r.invalid
    <3>1. read_pending' = TRUE /\ Enqueue(c, "next") /\ posted' = posted
      BY <1>5, <2>1, <2>4, <2>6
    <3>2. task_queue = 0 /\ task_running /\ 0 < max_task_queue /\ ~(0 >= max_task_queue)
      BY <2>2, ReadLoopAssumption DEF Handling
    <3>3. /\ strand' = [strand EXCEPT ![c] = At("next")] /\ task_queue' = task_queue + 1
          /\ task_running' = task_running /\ reads' = reads
      BY <3>1, <3>2 DEF Enqueue
    <3>4. strand'[conn].at = "next"
      BY <3>3, <2>1, <1>1, StrandTypes DEF Typed
    <3>5. NoRead'
      BY <1>4, <2>2, <3>3 DEF NoRead, Handling
    <3>6. ~dropped'
      BY <1>3, <2>3, <2>6
    <3>7. posted'[conn] = 0 /\ task_queue' = 1
      BY <2>2, <3>1, <3>2, <3>3 DEF Handling
    <3> QED
      BY <1>4, <2>2, <3>1, <3>2, <3>3, <3>4, <3>5, <3>6, <3>7 DEF Ending
  <2> QED
    BY <2>5, <2>6
<1>14. Looping' /\ Dropping'
  BY <1>13 DEF Looping, Dropping
<1>15. Bounded'
  BY <1>6 DEF Bounded
<1> QED
  BY <1>10, <1>12, <1>14, <1>15 DEF IInv

\* A late login changes state_ only: the socket stays closed, do_read may post.
LEMMA RegisteredInv == IInv /\ (on_nickname_registered \/ UNCHANGED vars) => IInv'
<1> SUFFICES ASSUME IInv, on_nickname_registered \/ UNCHANGED vars PROVE IInv'
  OBVIOUS
<1>1. UNCHANGED <<closed, conn, accepting, read_pending, task_running, task_queue, buffer, posted,
                  reads, strand, trailing, bytes, stream, out, dropped, tampered>>
  BY DEF on_nickname_registered, vars, loopVars, histVars
<1>2. Typed'
  BY <1>1 DEF IInv, Typed
<1>3. Future' /\ Dropping' /\ Bounded'
  BY <1>1 DEF IInv, Future, Dropping, Bounded
<1>4. Looping'
  BY <1>1 DEF IInv, Looping, Clean, Starting, Waiting, Handling, Ending, NoRead
<1> QED
  BY <1>2, <1>3, <1>4 DEF IInv

LEMMA NextInv == IInv /\ [Next]_vars => IInv'
<1> SUFFICES ASSUME IInv, [Next]_vars PROVE IInv'
  OBVIOUS
<1>1. ASSUME NEW c \in Conns, StrandStep(c) PROVE IInv'
  BY <1>1, RunPostedInv, DispatchInv, ReadOnInv, HandlerCloseInv, HandlerCleanupInv, RunNextInv
     DEF StrandStep
<1> QED
  BY <1>1, CloseInv, TrailingInv, ResetInv, AcquireInv, StartInv, CompleteInv, HandleInv,
     RegisteredInv DEF Next


-----------------------------------------------------------------------------
(* The theorems.                                                           *)

\* IInv holds of every state the read path can be in, whatever clients, timers
\* and recycling do.
THEOREM ReadLoopInductive == Spec => []IInv
<1>1. Init => IInv
  BY InitInv
<1>2. IInv /\ [Next]_vars => IInv'
  BY NextInv
<1> QED
  BY <1>1, <1>2, PTL DEF Spec

\* Every variable keeps its type: a chunk fits data_, a dispatched message has a
\* length its prefix may have, task_queue_ never exceeds its limit, and the
\* buffer is made of what clients sent.
THEOREM ReadLoopTypeOK == Spec => []TypeOK
<1>1. Init => Revivable
  BY DEF Init, Revivable
<1>2. Revivable /\ [Next]_vars => Revivable'
  <2> SUFFICES ASSUME revived \in BOOLEAN, [Next]_vars PROVE revived' \in BOOLEAN
    BY DEF Revivable
  <2>1. \/ revived' = revived \/ revived' = TRUE \/ revived' = FALSE
    BY Zenon DEF Next, StrandStep, Close, close_session, on_nickname_registered, TrailingCleanup,
       reset, AcquireCleanup, Start, Complete, Handle, RunPosted, Dispatch, ReadOn, HandlerClose,
       HandlerCleanup, RunNext, vars
  <2> QED
    BY <2>1
<1>3. IInv /\ Revivable => TypeOK
  BY TypedTypes DEF IInv
<1> QED
  BY <1>1, <1>2, <1>3, ReadLoopInductive, PTL DEF Spec

LEMMA LoopOnce == IInv => OneLoop
<1> SUFFICES ASSUME IInv, ~closed, ~tampered, accepting = "done"
             PROVE  posted[conn] + Cardinality(Outstanding)
                      + (IF strand[conn].at = "idle" THEN 0 ELSE 1) = 1
  BY DEF OneLoop
<1>1. Starting \/ Waiting \/ Handling \/ Ending
  BY DEF IInv, Looping
<1>2. NoRead => Cardinality(Outstanding) = 0
  <2>1. NoRead => Outstanding = {}
    BY DEF NoRead, Outstanding
  <2> QED
    BY <2>1, FS_EmptySet
<1>3. Waiting => Cardinality(Outstanding) = 1
  <2> SUFFICES ASSUME Waiting PROVE Cardinality(Outstanding) = 1
    OBVIOUS
  <2>1. PICK r \in reads : r.conn = conn
    BY DEF Waiting
  <2>2. \A s \in reads : s.conn = conn => s = r
    BY <2>1 DEF Waiting
  <2>3. Outstanding = {r}
    BY <2>1, <2>2, Zenon DEF Outstanding
  <2> QED
    BY <2>3, FS_Singleton
<1>4. CASE Starting
  BY <1>2, <1>4 DEF Starting
<1>5. CASE Waiting
  BY <1>3, <1>5 DEF Waiting
<1>6. CASE Handling
  BY <1>2, <1>6 DEF Handling
<1>7. CASE Ending
  BY <1>2, <1>7 DEF Ending
<1> QED
  BY <1>1, <1>4, <1>5, <1>6, <1>7

\* The read loop of an open connection that earlier ones left alone is never
\* lost and never doubled: do_read, post_task, run_next_task and the handler
\* pass one token around.
THEOREM ReadLoopOneLoop == Spec => []OneLoop
BY LoopOnce, ReadLoopInductive, PTL

\* Between reads the buffer of such a connection holds an incomplete message or
\* at most ABSOLUTE_MAX_BUFFER bytes, for any stream.
THEOREM ReadLoopBounded == Spec => []Bounded
<1>1. IInv => Bounded
  BY DEF IInv
<1> QED
  BY <1>1, ReadLoopInductive, PTL

\* A cleared buffer always ends the session: nothing behind the gap is
\* dispatched.
THEOREM ReadLoopDropCloses == Spec => []DropCloses
<1>1. IInv => DropCloses
  <2> SUFFICES ASSUME IInv, dropped, ~tampered, ~closed
               PROVE  \E c \in Conns : strand[c].at = "close"
    BY DEF DropCloses
  <2>1. conn \in Conns /\ strand[conn].at = "close"
    BY DEF IInv, Typed, Dropping
  <2> QED
    BY <2>1
<1> QED
  BY <1>1, ReadLoopInductive, PTL

-----------------------------------------------------------------------------
(* What the stream says.  A step goes from the end of one message to the   *)
(* end of the next.                                                        *)

Begin(s, k) == CHOOSE i \in Starts(s, k) : \A j \in Starts(s, k) : i <= j

End(s, i) == i + Prefix + read_len_at(s, i - 1)

Step(s, k, m, e) ==
  /\ Starts(s, k) # {}
  /\ e = End(s, Begin(s, k)) /\ e <= Len(s) + 1
  /\ m = SubSeq(s, Begin(s, k) + Prefix, e - 1)

\* No message is complete.
Stuck(s, k) == Starts(s, k) = {} \/ End(s, Begin(s, k)) > Len(s) + 1

\* A prefix that lies within the stream is a number.
LEMMA Byte ==
  ASSUME NEW s \in Seq(Digits), NEW i \in Nat \ {0}, i + 1 <= Len(s)
  PROVE  read_len_at(s, i - 1) = s[i] * Base + s[i + 1] /\ read_len_at(s, i - 1) \in Nat
<1>1. (i - 1) + 1 = i /\ (i - 1) + 2 = i + 1
  OBVIOUS
<1>2. read_len_at(s, i - 1) = s[i] * Base + s[i + 1]
  BY <1>1, Zenon DEF read_len_at
<1>3. Len(s) \in Nat /\ \A j \in 1 .. Len(s) : s[j] \in Digits
  BY LenProperties, ElementOfSeq
<1>4. s[i] \in Digits /\ s[i + 1] \in Digits
  BY <1>3
<1>5. s[i] \in Nat /\ s[i + 1] \in Nat /\ Base \in Nat
  BY <1>4, BufferAssumption DEF Digits
<1>6. s[i] * Base \in Nat
  BY <1>5
<1> QED
  BY <1>2, <1>5, <1>6

\* A start is at most the length of the scan away, and a message has a length.
LEMMA StartsTypes ==
  ASSUME NEW s \in Seq(Digits), NEW k \in Nat \ {0}, NEW i \in Starts(s, k)
  PROVE  /\ i \in Nat \ {0} /\ k <= i /\ i <= k + kMaxResyncScan /\ i + 1 <= Len(s)
         /\ read_len_at(s, i - 1) \in 1 .. MAX_PACKET_SIZE
         /\ Valid(read_len_at(s, i - 1))
         /\ End(s, i) \in Nat /\ i + 3 <= End(s, i)
<1>1. /\ i \in Nat \ {0} /\ k <= i /\ i <= k + kMaxResyncScan /\ i + 1 <= Len(s)
      /\ Valid(read_len_at(s, i - 1))
  BY BufferAssumption DEF Starts
<1>2. read_len_at(s, i - 1) \in Nat /\ MAX_PACKET_SIZE \in Nat
  BY <1>1, Byte, BufferAssumption
<1>3. read_len_at(s, i - 1) \in 1 .. MAX_PACKET_SIZE
  BY <1>1, <1>2 DEF Valid
<1> QED
  BY <1>1, <1>2, <1>3 DEF End, Prefix

\* The first start.
LEMMA BeginLeast ==
  ASSUME NEW s \in Seq(Digits), NEW k \in Nat \ {0}, Starts(s, k) # {}
  PROVE  Begin(s, k) \in Starts(s, k) /\ \A j \in Starts(s, k) : Begin(s, k) <= j
<1>1. Starts(s, k) \in SUBSET Nat
  BY StartsTypes
<1> QED
  BY <1>1, Smallest DEF Begin

LEMMA BeginIs ==
  ASSUME NEW s \in Seq(Digits), NEW k \in Nat \ {0}, NEW i \in Starts(s, k),
         \A j \in Starts(s, k) : i <= j
  PROVE  Begin(s, k) = i
<1>1. Begin(s, k) \in Starts(s, k) /\ Begin(s, k) <= i /\ i <= Begin(s, k)
  BY BeginLeast
<1>2. Begin(s, k) \in Nat /\ i \in Nat
  BY <1>1, StartsTypes
<1> QED
  BY <1>1, <1>2

\* What arrives later changes no prefix that is there.
LEMMA Later ==
  ASSUME NEW s \in Seq(Digits), NEW t \in Seq(Digits)
  PROVE  /\ s \o t \in Seq(Digits) /\ Len(s \o t) = Len(s) + Len(t)
         /\ \A i \in 1 .. Len(s) : (s \o t)[i] = s[i]
         /\ \A i \in Nat \ {0} : i + 1 <= Len(s) => read_len_at(s \o t, i - 1) = read_len_at(s, i - 1)
<1>1. /\ s \o t \in Seq(Digits) /\ Len(s \o t) = Len(s) + Len(t)
      /\ \A i \in 1 .. Len(s) : (s \o t)[i] = s[i]
      /\ Len(s) \in Nat /\ Len(t) \in Nat
  BY ConcatProperties, LenProperties
<1>2. ASSUME NEW i \in Nat \ {0}, i + 1 <= Len(s)
      PROVE read_len_at(s \o t, i - 1) = read_len_at(s, i - 1)
  <2>1. i + 1 <= Len(s \o t) /\ i \in 1 .. Len(s) /\ i + 1 \in 1 .. Len(s)
    BY <1>1, <1>2
  <2>2. (s \o t)[i] = s[i] /\ (s \o t)[i + 1] = s[i + 1]
    BY <1>1, <2>1
  <2> QED
    BY <1>1, <1>2, <2>1, <2>2, Byte
<1> QED
  BY <1>1, <1>2

\* Nor does it change where the next message begins and ends,
LEMMA BeginLater ==
  ASSUME NEW s \in Seq(Digits), NEW t \in Seq(Digits), NEW k \in Nat \ {0}, Starts(s, k) # {}
  PROVE  /\ Starts(s \o t, k) # {} /\ Begin(s \o t, k) = Begin(s, k)
         /\ End(s \o t, Begin(s \o t, k)) = End(s, Begin(s, k))
<1> DEFINE i == Begin(s, k)
<1>1. i \in Starts(s, k) /\ \A j \in Starts(s, k) : i <= j
  BY BeginLeast
<1> HIDE DEF i
<1>2. Len(s) \in Nat /\ Len(t) \in Nat /\ kMaxResyncScan \in Nat
  BY LenProperties, BufferAssumption
<1>3. i \in Nat \ {0} /\ k <= i /\ i <= k + kMaxResyncScan /\ i + 1 <= Len(s)
      /\ Valid(read_len_at(s, i - 1))
  BY <1>1, StartsTypes
<1>4. i \in Starts(s \o t, k)
  BY <1>2, <1>3, Later DEF Starts
<1>5. ASSUME NEW j \in Starts(s \o t, k) PROVE i <= j
  <2>1. j \in Nat \ {0} /\ k <= j /\ j <= k + kMaxResyncScan /\ Valid(read_len_at(s \o t, j - 1))
    BY <1>5, StartsTypes, Later
  <2>2. CASE j + 1 <= Len(s)
    <3>1. j \in Starts(s, k)
      BY <1>2, <2>1, <2>2, Later DEF Starts
    <3> QED
      BY <1>1, <3>1
  <2>3. CASE ~(j + 1 <= Len(s))
    BY <1>2, <1>3, <2>1, <2>3
  <2> QED
    BY <2>2, <2>3
<1>6. Begin(s \o t, k) = i
  BY <1>4, <1>5, Later, BeginIs
<1>7. End(s \o t, i) = End(s, i)
  BY <1>3, Later DEF End
<1> QED
  BY <1>4, <1>6, <1>7 DEF i

LEMMA StepTypes ==
  ASSUME NEW s \in Seq(Digits), NEW k \in Nat \ {0}, NEW m, NEW e, Step(s, k, m, e)
  PROVE  e \in 1 .. Len(s) + 1 /\ k < e /\ m \in Seq(Digits)
<1>1. PICK i : i = Begin(s, k)
  OBVIOUS
<1>2. i \in Starts(s, k)
  BY <1>1, BeginLeast DEF Step
<1>3. i \in Nat \ {0} /\ k <= i /\ End(s, i) \in Nat /\ i + 3 <= End(s, i) /\ Len(s) \in Nat
  BY <1>2, StartsTypes, LenProperties
<1>4. e = End(s, i) /\ e <= Len(s) + 1 /\ m = SubSeq(s, i + Prefix, e - 1)
  BY <1>1 DEF Step
<1>5. \A j \in i + Prefix .. e - 1 : s[j] \in Digits
  BY <1>3, <1>4, ElementOfSeq DEF Prefix
<1>6. PICK a \in Int, b \in Int : a = i + Prefix /\ b = e - 1
  BY <1>3, <1>4 DEF Prefix
<1>7. m \in Seq(Digits)
  BY <1>4, <1>5, <1>6, SubSeqProperties
<1> QED
  BY <1>3, <1>4, <1>7

\* or what it is.
LEMMA StepLater ==
  ASSUME NEW s \in Seq(Digits), NEW t \in Seq(Digits), NEW k \in Nat \ {0}, NEW m, NEW e,
         Step(s, k, m, e)
  PROVE  Step(s \o t, k, m, e)
<1>1. PICK i : i = Begin(s, k)
  OBVIOUS
<1>2. i \in Starts(s, k)
  BY <1>1, BeginLeast DEF Step
<1>3. i \in Nat \ {0} /\ End(s, i) \in Nat /\ i + 3 <= End(s, i)
  BY <1>2, StartsTypes
<1>4. e = End(s, i) /\ e <= Len(s) + 1 /\ m = SubSeq(s, i + Prefix, e - 1)
  BY <1>1 DEF Step
<1>5. /\ Starts(s \o t, k) # {} /\ Begin(s \o t, k) = i
      /\ End(s \o t, i) = End(s, i)
  BY <1>1, <1>2, BeginLater
<1>6. Len(s) \in Nat /\ Len(t) \in Nat /\ Len(s \o t) = Len(s) + Len(t)
  BY Later, LenProperties
<1>7. SubSeq(s \o t, i + Prefix, e - 1) = SubSeq(s, i + Prefix, e - 1)
  <2>1. PICK a \in Nat \ {0}, b \in Nat : a = i + Prefix /\ b = e - 1 /\ b <= Len(s) /\ a <= b
    <3>1. i + Prefix \in Nat \ {0} /\ e - 1 \in Nat /\ e - 1 <= Len(s) /\ i + Prefix <= e - 1
      BY <1>3, <1>4, <1>6 DEF Prefix
    <3> QED
      BY <3>1, Zenon
  <2>2. SubSeq(s \o t, a, b) = SubSeq(s, a, b)
    <3>1. a \in 1 .. Len(s) /\ b \in 1 .. Len(s)
      BY <1>6, <2>1
    <3> QED
      BY <3>1, SubSeqOfConcat1
  <2> QED
    BY <2>1, <2>2
<1>8. e <= Len(s \o t) + 1
  BY <1>3, <1>4, <1>6
<1> QED
  BY <1>4, <1>5, <1>7, <1>8, Zenon DEF Step

\* Induction on numbers, for a set of them.
LEMMA NumbersInduction ==
  ASSUME NEW Q, 0 \in Q, \A n \in Nat : n \in Q => n + 1 \in Q
  PROVE  \A n \in Nat : n \in Q
<1> SUFFICES ASSUME NEW m \in Nat, m \notin Q PROVE FALSE
  OBVIOUS
<1> DEFINE bad == {n \in Nat : n \notin Q}
<1>1. bad \subseteq Nat /\ bad # {}
  OBVIOUS
<1> HIDE DEF bad
<1>2. PICK x \in bad : \A y \in bad : ~(<<y, x>> \in OpToRel(<, Nat))
  BY <1>1, NatLessThanWellFounded, WFMin
<1>3. \A y \in bad : ~(y < x)
  <2> TAKE y \in bad
  <2>1. <<y, x>> \in Nat \X Nat
    BY <1>1
  <2>2. ~(<<y, x>> \in {ss \in Nat \X Nat : ss[1] < ss[2]})
    BY <1>2 DEF OpToRel
  <2> QED
    BY <2>1, <2>2
<1>4. x \in Nat /\ x \notin Q
  BY DEF bad
<1>5. x # 0
  BY <1>4
<1>6. x - 1 \in Nat /\ x - 1 < x /\ (x - 1) + 1 = x
  BY <1>4, <1>5
<1>7. x - 1 \in Q
  BY <1>3, <1>6 DEF bad
<1> QED
  BY <1>4, <1>6, <1>7

\* The messages d, cut out of s from its start, end before position k.
Parsed(s, d, k) ==
  \E q \in [1 .. Len(d) + 1 -> Nat \ {0}] :
    /\ q[1] = 1 /\ q[Len(d) + 1] = k
    /\ \A j \in 1 .. Len(d) : Step(s, q[j], d[j], q[j + 1])

\* The messages stay what they are when more arrives, and the next one is added.
LEMMA ParsedLater ==
  ASSUME NEW s \in Seq(Digits), NEW t \in Seq(Digits), NEW d \in Seq(Seq(Digits)), NEW k,
         Parsed(s, d, k)
  PROVE  Parsed(s \o t, d, k)
<1>1. PICK q \in [1 .. Len(d) + 1 -> Nat \ {0}] :
        /\ q[1] = 1 /\ q[Len(d) + 1] = k
        /\ \A j \in 1 .. Len(d) : Step(s, q[j], d[j], q[j + 1])
  BY Zenon DEF Parsed
<1>2. \A j \in 1 .. Len(d) : q[j] \in Nat \ {0}
  BY LenProperties
<1>3. \A j \in 1 .. Len(d) : Step(s \o t, q[j], d[j], q[j + 1])
  BY <1>1, <1>2, StepLater
<1> QED
  BY <1>1, <1>3, Zenon DEF Parsed

LEMMA ParsedNext ==
  ASSUME NEW s \in Seq(Digits), NEW d \in Seq(Seq(Digits)), NEW k, NEW m, NEW e,
         Parsed(s, d, k), Step(s, k, m, e)
  PROVE  Parsed(s, Append(d, m), e)
<1>1. PICK q \in [1 .. Len(d) + 1 -> Nat \ {0}] :
        /\ q[1] = 1 /\ q[Len(d) + 1] = k
        /\ \A j \in 1 .. Len(d) : Step(s, q[j], d[j], q[j + 1])
  BY Zenon DEF Parsed
<1>2. PICK n \in Nat : n = Len(d)
  BY LenProperties
<1>3. k \in Nat \ {0}
  BY <1>1, <1>2
<1>4. e \in Nat \ {0} /\ m \in Seq(Digits)
  <2>1. e \in 1 .. Len(s) + 1 /\ m \in Seq(Digits) /\ Len(s) \in Nat
    BY <1>3, StepTypes, LenProperties
  <2> QED
    BY <2>1
<1> DEFINE d2 == Append(d, m)
           q2 == [j \in 1 .. n + 2 |-> IF j = n + 2 THEN e ELSE q[j]]
<1>5. Len(d2) = n + 1 /\ d2[n + 1] = m /\ \A j \in 1 .. n : d2[j] = d[j]
  BY <1>2, <1>4, AppendProperties
<1> HIDE DEF d2
<1>6. q2 \in [1 .. n + 2 -> Nat \ {0}] /\ q2[1] = 1 /\ q2[n + 2] = e
  BY <1>1, <1>2, <1>4
<1>7. ASSUME NEW j \in 1 .. n + 1 PROVE Step(s, q2[j], d2[j], q2[j + 1])
  <2>1. CASE j = n + 1
    <3>1. q2[j] = k /\ q2[j + 1] = e /\ d2[j] = m
      BY <1>1, <1>2, <1>5, <2>1
    <3> QED
      BY <3>1
  <2>2. CASE j \in 1 .. n
    <3>1. q2[j] = q[j] /\ q2[j + 1] = q[j + 1] /\ d2[j] = d[j]
      BY <1>5, <2>2
    <3> QED
      BY <1>1, <1>2, <2>2, <3>1
  <2> QED
    BY <2>1, <2>2
<1> HIDE DEF q2
<1>8. 1 .. Len(d2) + 1 = 1 .. n + 2 /\ Len(d2) + 1 = n + 2 /\ 1 .. Len(d2) = 1 .. n + 1
  BY <1>5
<1>9. Parsed(s, d2, e)
  BY <1>6, <1>7, <1>8 DEF Parsed
<1> QED
  BY <1>9 DEF d2

LEMMA ParsedStart == ASSUME NEW s PROVE Parsed(s, <<>>, 1)
<1> DEFINE q == [j \in 1 .. 1 |-> 1]
<1>1. Len(<<>>) = 0 /\ 1 .. 0 = {} /\ 0 + 1 = 1
  OBVIOUS
<1>2. q \in [1 .. 1 -> Nat \ {0}] /\ q[1] = 1
  OBVIOUS
<1> HIDE DEF q
<1> QED
  BY <1>1, <1>2 DEF Parsed

LEMMA ParsedType ==
  ASSUME NEW s \in Seq(Digits), NEW d \in Seq(Seq(Digits)), NEW k, Parsed(s, d, k)
  PROVE  k \in 1 .. Len(s) + 1
<1>1. PICK q \in [1 .. Len(d) + 1 -> Nat \ {0}] :
        /\ q[1] = 1 /\ q[Len(d) + 1] = k
        /\ \A j \in 1 .. Len(d) : Step(s, q[j], d[j], q[j + 1])
  BY Zenon DEF Parsed
<1>2. PICK n \in Nat : n = Len(d)
  BY LenProperties
<1>3. Len(s) \in Nat
  BY LenProperties
<1>4. CASE n = 0
  BY <1>1, <1>2, <1>3, <1>4
<1>5. CASE n # 0
  <2>1. n \in 1 .. n /\ q[n] \in Nat \ {0}
    BY <1>2, <1>5
  <2>2. Step(s, q[n], d[n], k)
    BY <1>1, <1>2, <2>1
  <2> QED
    BY <2>1, <2>2, StepTypes
<1> QED
  BY <1>4, <1>5

-----------------------------------------------------------------------------
(* Messages as a function that exists.                                     *)

Body(s, k) == SubSeq(s, Begin(s, k) + Prefix, End(s, Begin(s, k)) - 1)

Rest(s, g, k) ==
  IF Starts(s, k) = {} THEN <<>>
  ELSE IF End(s, Begin(s, k)) > Len(s) + 1 THEN <<>>
       ELSE <<Body(s, k)>> \o g[End(s, Begin(s, k))]

Follows(s, D, g) == g = [k \in D |-> Rest(s, g, k)]

From(s) == CHOOSE g : Follows(s, 1 .. Len(s) + 1, g)

\* Messages follows the steps from position 1.
LEMMA MessagesFrom == ASSUME NEW s PROVE Messages(s) = From(s)[1]
BY DEF Messages, From, Follows, Rest, Body, End, Begin

\* The positions of which at most n are left.
LastPositions(s, n) == {k \in 1 .. Len(s) + 1 : k + n > Len(s) + 1}

\* The recursion of Messages has a solution, built from the end of the stream.
LEMMA FromExists ==
  ASSUME NEW s \in Seq(Digits)
  PROVE  \E g : Follows(s, 1 .. Len(s) + 1, g)
<1> DEFINE Q == {n \in Nat : \E g : Follows(s, LastPositions(s, n), g)}
<1>1. Len(s) \in Nat
  BY LenProperties
<1>2. 0 \in Q
  <2> DEFINE g == [k \in {} |-> 0]
  <2>1. LastPositions(s, 0) = {}
    BY <1>1 DEF LastPositions
  <2>2. g = [k \in {} |-> Rest(s, g, k)]
    OBVIOUS
  <2>3. Follows(s, LastPositions(s, 0), g)
    BY <2>1, <2>2 DEF Follows
  <2> QED
    BY <2>3
<1>3. ASSUME NEW n \in Nat, n \in Q PROVE n + 1 \in Q
  <2>1. PICK g : Follows(s, LastPositions(s, n), g)
    BY <1>3
  <2> DEFINE h == [k \in LastPositions(s, n + 1) |-> Rest(s, g, k)]
  <2>2. \A k \in LastPositions(s, n) : k \in LastPositions(s, n + 1)
    BY <1>1 DEF LastPositions
  <2>3. \A k \in LastPositions(s, n) : g[k] = Rest(s, g, k)
    BY <2>1 DEF Follows
  <2>4. \A k \in LastPositions(s, n) : h[k] = g[k]
    BY <2>2, <2>3
  <2> HIDE DEF h
  <2>5. ASSUME NEW k \in LastPositions(s, n + 1) PROVE Rest(s, g, k) = Rest(s, h, k)
    <3>1. k \in Nat \ {0} /\ k + (n + 1) > Len(s) + 1
      BY DEF LastPositions
    <3>2. CASE Starts(s, k) = {}
      BY <3>2 DEF Rest
    <3>3. CASE Starts(s, k) # {}
      <4>1. PICK e : e = End(s, Begin(s, k))
        OBVIOUS
      <4>2. PICK i : i = Begin(s, k)
        OBVIOUS
      <4>3. i \in Starts(s, k)
        BY <3>1, <3>3, <4>2, BeginLeast
      <4>4. i \in Nat /\ k <= i /\ e \in Nat /\ i + 3 <= e
        BY <3>1, <4>1, <4>2, <4>3, StartsTypes
      <4>5. CASE e > Len(s) + 1
        BY <3>3, <4>1, <4>5 DEF Rest
      <4>6. CASE ~(e > Len(s) + 1)
        <5>1. e \in LastPositions(s, n)
          BY <1>1, <3>1, <4>4, <4>6 DEF LastPositions
        <5>2. g[e] = h[e]
          BY <5>1, <2>4
        <5> QED
          BY <4>1, <5>2, Zenon DEF Rest
      <4> QED
        BY <4>5, <4>6
    <3> QED
      BY <3>2, <3>3
  <2>6. h = [k \in LastPositions(s, n + 1) |-> Rest(s, h, k)]
    <3>1. \A k \in LastPositions(s, n + 1) : h[k] = Rest(s, h, k)
      BY <2>5 DEF h
    <3> QED
      BY <3>1 DEF h
  <2>7. Follows(s, LastPositions(s, n + 1), h)
    BY <2>6 DEF Follows
  <2> QED
    BY <2>7
<1>4. \A n \in Nat : n \in Q
  BY <1>2, <1>3, NumbersInduction
<1>5. 1 .. Len(s) + 1 = LastPositions(s, Len(s) + 1)
  BY <1>1 DEF LastPositions
<1>6. Len(s) + 1 \in Nat
  BY <1>1
<1> QED
  BY <1>4, <1>5, <1>6

LEMMA FromUnfold ==
  ASSUME NEW s \in Seq(Digits)
  PROVE  \A k \in 1 .. Len(s) + 1 : From(s)[k] = Rest(s, From(s), k)
<1>1. Follows(s, 1 .. Len(s) + 1, From(s))
  BY FromExists, Zenon DEF From
<1> QED
  BY <1>1, Zenon DEF Follows

LEMMA FromStuck ==
  ASSUME NEW s \in Seq(Digits), NEW k \in 1 .. Len(s) + 1, Stuck(s, k)
  PROVE  From(s)[k] = <<>>
<1>1. From(s)[k] = Rest(s, From(s), k)
  BY FromUnfold
<1>2. CASE Starts(s, k) = {}
  BY <1>1, <1>2 DEF Rest
<1>3. CASE Starts(s, k) # {}
  BY <1>1, <1>3, Zenon DEF Rest, Stuck
<1> QED
  BY <1>2, <1>3

LEMMA FromStep ==
  ASSUME NEW s \in Seq(Digits), NEW k \in 1 .. Len(s) + 1, NEW m, NEW e, Step(s, k, m, e)
  PROVE  From(s)[k] = <<m>> \o From(s)[e]
<1>1. From(s)[k] = Rest(s, From(s), k)
  BY FromUnfold
<1>2. Starts(s, k) # {} /\ e = End(s, Begin(s, k)) /\ m = Body(s, k)
  BY Zenon DEF Step, Body
<1>3. ~(End(s, Begin(s, k)) > Len(s) + 1)
  <2>1. e <= Len(s) + 1 /\ e \in 1 .. Len(s) + 1 /\ Len(s) \in Nat
    <3>1. Len(s) \in Nat
      BY LenProperties
    <3>2. k \in Nat \ {0}
      BY <3>1
    <3> QED
      BY <3>1, <3>2, StepTypes DEF Step
  <2> QED
    BY <1>2, <2>1
<1> QED
  BY <1>1, <1>2, <1>3, Zenon DEF Rest

LEMMA FromType ==
  ASSUME NEW s \in Seq(Digits)
  PROVE  \A k \in 1 .. Len(s) + 1 : From(s)[k] \in Seq(Seq(Digits))
<1> DEFINE Q == {n \in Nat : \A k \in LastPositions(s, n) : From(s)[k] \in Seq(Seq(Digits))}
<1>1. Len(s) \in Nat
  BY LenProperties
<1>2. 0 \in Q
  BY <1>1 DEF LastPositions
<1>3. ASSUME NEW n \in Nat, n \in Q PROVE n + 1 \in Q
  <2> SUFFICES ASSUME NEW k \in LastPositions(s, n + 1) PROVE From(s)[k] \in Seq(Seq(Digits))
    OBVIOUS
  <2>1. k \in 1 .. Len(s) + 1 /\ k \in Nat \ {0} /\ k + (n + 1) > Len(s) + 1
    BY <1>1 DEF LastPositions
  <2>2. CASE Stuck(s, k)
    BY <2>1, <2>2, FromStuck, EmptySeq
  <2>3. CASE ~Stuck(s, k)
    <3>1. PICK e, m : e = End(s, Begin(s, k)) /\ m = SubSeq(s, Begin(s, k) + Prefix, e - 1)
      OBVIOUS
    <3>2. Starts(s, k) # {} /\ ~(e > Len(s) + 1)
      BY <2>3, <3>1 DEF Stuck
    <3>3. e \in Nat
      BY <2>1, <3>1, <3>2, BeginLeast, StartsTypes
    <3>4. e <= Len(s) + 1
      BY <1>1, <3>2, <3>3
    <3>5. Step(s, k, m, e)
      BY <3>1, <3>2, <3>4 DEF Step
    <3>6. From(s)[k] = <<m>> \o From(s)[e]
      BY <2>1, <3>5, FromStep
    <3>7. e \in 1 .. Len(s) + 1 /\ k < e /\ m \in Seq(Digits)
      BY <2>1, <3>5, StepTypes
    <3>8. e \in LastPositions(s, n)
      BY <1>1, <2>1, <3>7 DEF LastPositions
    <3>9. From(s)[e] \in Seq(Seq(Digits))
      BY <1>3, <3>8
    <3>10. <<m>> \in Seq(Seq(Digits))
      BY <3>7
    <3> QED
      BY <3>6, <3>9, <3>10, ConcatProperties
  <2> QED
    BY <2>2, <2>3
<1>4. \A n \in Nat : n \in Q
  BY <1>2, <1>3, NumbersInduction
<1>5. 1 .. Len(s) + 1 = LastPositions(s, Len(s) + 1)
  BY <1>1 DEF LastPositions
<1>6. Len(s) + 1 \in Nat
  BY <1>1
<1> QED
  BY <1>4, <1>5, <1>6

Associates(T) == \A u, v, w \in Seq(T) : (u \o v) \o w = u \o (v \o w)

LEMMA Associative == ASSUME NEW T PROVE Associates(T)
BY ConcatAssociative DEF Associates

\* The messages cut out so far and the ones from the position reached on are all of
\* them.
LEMMA ParsedMessages ==
  ASSUME NEW s \in Seq(Digits), NEW d \in Seq(Seq(Digits)), NEW k, Parsed(s, d, k)
  PROVE  Messages(s) = d \o From(s)[k]
<1>1. PICK q \in [1 .. Len(d) + 1 -> Nat \ {0}] :
        /\ q[1] = 1 /\ q[Len(d) + 1] = k
        /\ \A j \in 1 .. Len(d) : Step(s, q[j], d[j], q[j + 1])
  BY Zenon DEF Parsed
<1>2. Len(d) \in Nat /\ Len(s) \in Nat
  BY LenProperties
<1>3. ASSUME NEW j \in 1 .. Len(d) + 1 PROVE q[j] \in 1 .. Len(s) + 1
  <2>1. CASE j = 1
    BY <1>1, <1>2, <2>1
  <2>2. CASE j # 1
    <3>1. PICK i \in 1 .. Len(d) : j = i + 1
      <4>1. j - 1 \in 1 .. Len(d) /\ j = (j - 1) + 1
        BY <1>2, <2>2
      <4> QED
        BY <4>1, Zenon
    <3>2. q[i] \in Nat \ {0}
      <4>1. i \in 1 .. Len(d) + 1
        BY <1>2
      <4> QED
        BY <4>1
    <3>3. Step(s, q[i], d[i], q[i + 1])
      BY <1>1
    <3>4. q[i + 1] \in 1 .. Len(s) + 1
      BY <3>2, <3>3, StepTypes
    <3> QED
      BY <3>1, <3>4
  <2> QED
    BY <2>1, <2>2
<1> DEFINE F == From(s)
           Split(n) == Messages(s) = SubSeq(d, 1, n) \o F[q[n + 1]]
           Q == {n \in Nat : n <= Len(d) => Split(n)}
<1>4. \A j \in 1 .. Len(d) + 1 : F[q[j]] \in Seq(Seq(Digits))
  BY <1>3, FromType
<1>5. \A j \in 1 .. Len(d) : F[q[j]] = <<d[j]>> \o F[q[j + 1]]
  <2> TAKE j \in 1 .. Len(d)
  <2>1. q[j] \in 1 .. Len(s) + 1
    BY <1>2, <1>3
  <2>2. Step(s, q[j], d[j], q[j + 1])
    BY <1>1
  <2>3. From(s)[q[j]] = <<d[j]>> \o From(s)[q[j + 1]]
    <3>1. PICK a, m, e : a = q[j] /\ m = d[j] /\ e = q[j + 1]
      OBVIOUS
    <3>2. a \in 1 .. Len(s) + 1 /\ Step(s, a, m, e)
      BY <2>1, <2>2, <3>1, Zenon
    <3>3. From(s)[a] = <<m>> \o From(s)[e]
      BY <3>2, FromStep
    <3> QED
      BY <3>1, <3>3, Zenon
  <2> QED
    BY <2>3
<1>6. Messages(s) = F[1]
  BY MessagesFrom
<1> HIDE DEF F
<1>7. 0 \in Q
  <2>1. SubSeq(d, 1, 0) = <<>>
    BY SubSeqEmpty
  <2>2. <<>> \o F[q[1]] = F[q[1]]
    BY <1>2, <1>4, ConcatEmptySeq
  <2>3. F[q[0 + 1]] = F[q[1]] /\ q[1] = 1
    BY <1>1
  <2>4. Split(0)
    BY <1>6, <2>1, <2>2, <2>3
  <2> HIDE DEF Split
  <2> QED
    BY <2>4
<1>8. ASSUME NEW n \in Nat, n \in Q PROVE n + 1 \in Q
  <2> SUFFICES ASSUME n + 1 <= Len(d)
               PROVE  Split(n + 1)
    <3> HIDE DEF Split
    <3> QED
      OBVIOUS
  <2>1. n + 1 \in 1 .. Len(d) /\ n \in 0 .. Len(d) /\ n + 1 \in 1 .. Len(d) + 1
        /\ (n + 1) + 1 \in 1 .. Len(d) + 1 /\ 1 \in 1 .. Len(d) /\ (n + 1) - 1 = n
    BY <1>2
  <2>2. Split(n)
    <3> HIDE DEF Split
    <3> QED
      BY <1>2, <1>8, <2>1
  <2>3. PICK u, v, w : u = SubSeq(d, 1, n) /\ v = <<d[n + 1]>> /\ w = F[q[(n + 1) + 1]]
    OBVIOUS
  <2>4. u \in Seq(Seq(Digits)) /\ v \in Seq(Seq(Digits)) /\ w \in Seq(Seq(Digits))
    <3>1. d[n + 1] \in Seq(Digits)
      BY <2>1, ElementOfSeq
    <3>2. \A i \in 1 .. n : d[i] \in Seq(Digits)
      BY <1>2, <2>1, ElementOfSeq
    <3>3. SubSeq(d, 1, n) \in Seq(Seq(Digits))
      BY <3>2, SubSeqProperties
    <3> QED
      BY <1>4, <2>1, <2>3, <3>1, <3>3
  <2>5. Messages(s) = u \o (v \o w)
    BY <1>5, <2>1, <2>2, <2>3
  <2>6. Messages(s) = (u \o v) \o w
    <3>1. (u \o v) \o w = u \o (v \o w)
      <4>1. Associates(Seq(Digits))
        BY Associative
      <4> QED
        BY <2>4, <4>1 DEF Associates
    <3> QED
      BY <2>5, <3>1, Zenon
  <2>7. SubSeq(d, 1, n + 1) = u \o v
    <3>1. SubSeq(d, 1, n + 1) = SubSeq(d, 1, (n + 1) - 1) \o <<d[n + 1]>>
      <4>1. n + 1 \in 1 .. Len(d) /\ 1 \in 1 .. Len(d)
        BY <2>1
      <4> QED
        BY <4>1, SubSeqRecursiveSecond
    <3> QED
      BY <2>1, <2>3, <3>1
  <2> QED
    BY <2>3, <2>6, <2>7, Zenon
<1> HIDE DEF Q
<1>9. \A n \in Nat : n \in Q
  BY <1>7, <1>8, NumbersInduction
<1>10. Split(Len(d))
  <2> HIDE DEF Split
  <2> QED
    BY <1>2, <1>9 DEF Q
<1> QED
  BY <1>1, <1>10, SubSeqFull DEF F

\* So they are the first messages of s, and all where nothing is complete.
LEMMA ParsedFirst ==
  ASSUME NEW s \in Seq(Digits), NEW d \in Seq(Seq(Digits)), NEW k, Parsed(s, d, k)
  PROVE  /\ Len(d) <= Len(Messages(s)) /\ d = SubSeq(Messages(s), 1, Len(d))
         /\ Stuck(s, k) => d = Messages(s)
<1>1. k \in 1 .. Len(s) + 1
  BY ParsedType
<1>2. PICK w \in Seq(Seq(Digits)) : w = From(s)[k] /\ Messages(s) = d \o w
  BY <1>1, FromType, ParsedMessages
<1>3. Len(d) \in Nat /\ Len(w) \in Nat /\ Len(d \o w) = Len(d) + Len(w)
  BY LenProperties, ConcatProperties
<1>4. Len(d) <= Len(Messages(s))
  BY <1>2, <1>3
<1>5. d = SubSeq(d \o w, 1, Len(d))
  <2>1. CASE d = <<>>
    <3>1. SubSeq(d \o w, 1, 0) = <<>> /\ Len(d) = 0
      BY <2>1, SubSeqEmpty
    <3> QED
      BY <2>1, <3>1
  <2>2. CASE d # <<>>
    <3>1. 1 \in 1 .. Len(d) /\ Len(d) \in 1 .. Len(d)
      BY <2>2, <1>3, EmptySeq
    <3> QED
      BY <3>1, SubSeqOfConcat1, SubSeqFull
  <2> QED
    BY <2>1, <2>2
<1>6. Stuck(s, k) => d = Messages(s)
  BY <1>1, <1>2, FromStuck, ConcatEmptySeq
<1> QED
  BY <1>2, <1>4, <1>5, <1>6

\* b is what is left of s from position p on, and the offsets of b are positions
\* of s.
LEMMA Piece ==
  ASSUME NEW s \in Seq(Digits), NEW p \in 1 .. Len(s) + 1
  PROVE  LET b == SubSeq(s, p, Len(s)) IN
         /\ b \in Seq(Digits) /\ Len(b) = Len(s) + 1 - p
         /\ \A o \in Nat : o + Prefix <= Len(b) =>
              read_len_at(b, o) = read_len_at(s, (o + p) - 1)
<1>1. Len(s) \in Nat /\ \A i \in 1 .. Len(s) : s[i] \in Digits
  BY LenProperties, ElementOfSeq
<1>2. PICK b : b = SubSeq(s, p, Len(s))
  OBVIOUS
<1>3. b \in Seq(Digits) /\ Len(b) = Len(s) + 1 - p /\ \A i \in 1 .. Len(s) - p + 1 : b[i] = s[p + i - 1]
  BY <1>1, <1>2, SubSeqProperties
<1>4. ASSUME NEW o \in Nat, o + Prefix <= Len(b)
      PROVE  read_len_at(b, o) = read_len_at(s, (o + p) - 1)
  <2>1. o + 1 \in 1 .. Len(s) - p + 1 /\ o + 2 \in 1 .. Len(s) - p + 1
    BY <1>1, <1>3, <1>4 DEF Prefix
  <2>2. p + (o + 1) - 1 = ((o + p) - 1) + 1 /\ p + (o + 2) - 1 = ((o + p) - 1) + 2
    BY <1>1
  <2>3. b[o + 1] = s[((o + p) - 1) + 1] /\ b[o + 2] = s[((o + p) - 1) + 2]
    BY <1>3, <2>1, <2>2
  <2> QED
    BY <2>3, Zenon DEF read_len_at
<1> QED
  BY <1>2, <1>3, <1>4

\* The resync scan accepts the offsets that are starts.
LEMMA Scan ==
  ASSUME NEW s \in Seq(Digits), NEW p \in 1 .. Len(s) + 1, NEW b, b = SubSeq(s, p, Len(s)),
         NEW o \in Nat
  PROVE  o + p \in Starts(s, p) <=>
           \/ o = 0 /\ Len(b) >= Prefix /\ Valid(read_len_at(b, 0))
           \/ o \in Candidates(b)
<1>1. Len(s) \in Nat /\ kMaxResyncScan \in Nat
  BY LenProperties, BufferAssumption
<1>2. Len(b) = Len(s) + 1 - p /\ Len(b) \in Nat
  BY <1>1, Piece
<1>3. o + Prefix <= Len(b) => read_len_at(b, o) = read_len_at(s, (o + p) - 1)
  BY Piece
<1>4. o + p \in Starts(s, p) <=>
        /\ o <= kMaxResyncScan /\ o + Prefix <= Len(b) /\ Valid(read_len_at(s, (o + p) - 1))
  BY <1>1, <1>2 DEF Starts, Prefix
<1>5. o \in Candidates(b) <=>
        /\ 1 <= o /\ o <= kMaxResyncScan /\ o + Prefix <= Len(b) /\ Valid(read_len_at(b, o))
  BY <1>1, <1>2 DEF Candidates, Prefix
<1>6. CASE o = 0
  BY <1>1, <1>2, <1>3, <1>4, <1>5, <1>6 DEF Prefix
<1>7. CASE o # 0
  BY <1>3, <1>4, <1>5, <1>7
<1> QED
  BY <1>6, <1>7

\* What extract_message promises of b, which is what is left of s from position
\* p on: the next message of the stream, or there is none.
Extracts(s, p, b, r) ==
  /\ r.invalid \in BOOLEAN /\ r.found \in BOOLEAN
  /\ r.found => \E e \in 1 .. Len(s) + 1 :
                  Step(s, p, r.msg, e) /\ r.left = SubSeq(s, e, Len(s))
  /\ ~r.found => Stuck(s, p)
  /\ ~r.found /\ ~r.invalid =>
       r.left = b \/ (Starts(s, p) # {} /\ r.left = SubSeq(s, Begin(s, p), Len(s)))

LEMMA CutThere ==
  ASSUME NEW s \in Seq(Digits), NEW p \in 1 .. Len(s) + 1, NEW b, b = SubSeq(s, p, Len(s)),
         NEW o \in Nat, o + Prefix <= Len(b), Starts(s, p) # {}, Begin(s, p) = o + p
  PROVE  Extracts(s, p, b, CutAt(b, o))
<1>1. PICK i \in Nat : i = o + p
  OBVIOUS
<1>2. PICK e : e = End(s, i)
  OBVIOUS
<1>3. PICK len : len = read_len_at(b, o)
  OBVIOUS
<1>4. Len(s) \in Nat /\ Len(b) = Len(s) + 1 - p /\ b \in Seq(Digits) /\ Len(b) \in Nat
  BY LenProperties, Piece
<1>5. len = read_len_at(s, i - 1)
  BY <1>1, <1>3, Piece
<1>6. /\ i \in Nat \ {0} /\ i + 1 <= Len(s) /\ len \in 1 .. MAX_PACKET_SIZE
      /\ e \in Nat /\ i + 3 <= e
  <2>1. p \in Nat \ {0}
    BY <1>4
  <2>2. i \in Starts(s, p)
    BY <1>1, <2>1, BeginLeast
  <2> QED
    BY <1>2, <1>5, <2>1, <2>2, StartsTypes
<1>7. e = i + 2 + len /\ MAX_PACKET_SIZE \in Nat /\ len \in Nat /\ len >= 1
  BY <1>2, <1>5, <1>6, BufferAssumption DEF End, Prefix
<1>8. PICK rest : rest = SubSeq(s, i, Len(s))
  OBVIOUS
<1>9. SubSeq(b, o + 1, Len(b)) = rest
  <2>1. /\ p \in 1 .. Len(s) /\ Len(s) \in 1 .. Len(s)
        /\ o + 1 \in 1 .. Len(s) - p + 1 /\ Len(b) \in 1 .. Len(s) - p + 1
    BY <1>1, <1>4, <1>6 DEF Prefix
  <2>2. SubSeq(b, o + 1, Len(b)) = SubSeq(s, p + (o + 1) - 1, p + Len(b) - 1)
    BY <2>1, SubSeqOfSubSeq
  <2>3. p + (o + 1) - 1 = i /\ p + Len(b) - 1 = Len(s)
    BY <1>1, <1>4
  <2> QED
    BY <1>8, <2>2, <2>3
<1>10. rest \in Seq(Digits) /\ Len(rest) = Len(s) + 1 - i /\ i \in 1 .. Len(s)
  BY <1>4, <1>6, <1>8, Piece
<1>11. CASE Len(rest) >= Prefix + len
  <2>1. CutAt(b, o) = [found |-> TRUE, msg |-> SubSeq(rest, Prefix + 1, Prefix + len),
                       left |-> SubSeq(rest, Prefix + len + 1, Len(rest)), invalid |-> FALSE]
    BY <1>3, <1>9, <1>11 DEF CutAt
  <2>2. e <= Len(s) + 1
    BY <1>4, <1>6, <1>7, <1>10, <1>11 DEF Prefix
  <2>3. SubSeq(rest, Prefix + 1, Prefix + len) = SubSeq(s, i + Prefix, e - 1)
    <3>1. /\ Prefix + 1 \in 1 .. Len(s) - i + 1 /\ Prefix + len \in 1 .. Len(s) - i + 1
          /\ Len(s) \in 1 .. Len(s)
      BY <1>4, <1>6, <1>7, <1>10, <1>11 DEF Prefix
    <3>2. PICK a, c : a = Prefix + 1 /\ c = Prefix + len
      OBVIOUS
    <3>3. a \in 1 .. Len(s) - i + 1 /\ c \in 1 .. Len(s) - i + 1 /\ Len(s) \in 1 .. Len(s)
      BY <3>1, <3>2
    <3>4. SubSeq(SubSeq(s, i, Len(s)), a, c) = SubSeq(s, i + a - 1, i + c - 1)
      BY <1>10, <3>3, SubSeqOfSubSeq
    <3>5. i + a - 1 = i + Prefix /\ i + c - 1 = e - 1
      BY <1>6, <1>7, <3>2 DEF Prefix
    <3> QED
      BY <1>8, <3>2, <3>4, <3>5, Zenon
  <2>4. SubSeq(rest, Prefix + len + 1, Len(rest)) = SubSeq(s, e, Len(s))
    <3>1. CASE e = Len(s) + 1
      <4>1. /\ Len(rest) < Prefix + len + 1 /\ Len(s) < e /\ Prefix + len + 1 \in Int
            /\ Len(rest) \in Int /\ e \in Int /\ Len(s) \in Int
        BY <1>4, <1>6, <1>7, <1>10, <3>1 DEF Prefix
      <4>2. SubSeq(s, e, Len(s)) = <<>>
        BY <4>1, SubSeqEmpty
      <4>3. SubSeq(rest, Prefix + len + 1, Len(rest)) = <<>>
        BY <4>1, SubSeqEmpty
      <4> QED
        BY <4>2, <4>3
    <3>2. CASE e # Len(s) + 1
      <4>1. PICK a, c : a = Prefix + len + 1 /\ c = Len(rest)
        OBVIOUS
      <4>2. a = e - i + 1 /\ c = Len(s) + 1 - i
        BY <1>6, <1>7, <1>10, <4>1 DEF Prefix
      <4>3. a \in 1 .. Len(s) - i + 1 /\ c \in 1 .. Len(s) - i + 1 /\ Len(s) \in 1 .. Len(s)
        BY <1>4, <1>6, <1>10, <2>2, <3>2, <4>2
      <4>4. SubSeq(SubSeq(s, i, Len(s)), a, c) = SubSeq(s, i + a - 1, i + c - 1)
        BY <1>10, <4>3, SubSeqOfSubSeq
      <4>5. i + a - 1 = e /\ i + c - 1 = Len(s)
        BY <1>4, <1>6, <4>2
      <4> QED
        BY <1>8, <4>1, <4>4, <4>5, Zenon
    <3> QED
      BY <3>1, <3>2
  <2>5. PICK r : r = CutAt(b, o)
    OBVIOUS
  <2>6. r.found = TRUE /\ r.invalid = FALSE /\ r.msg = SubSeq(s, i + Prefix, e - 1)
        /\ r.left = SubSeq(s, e, Len(s))
    <3>1. PICK m, l : m = SubSeq(rest, Prefix + 1, Prefix + len)
                      /\ l = SubSeq(rest, Prefix + len + 1, Len(rest))
      OBVIOUS
    <3>2. r = [found |-> TRUE, msg |-> m, left |-> l, invalid |-> FALSE]
      BY <2>1, <2>5, <3>1, Zenon
    <3>3. r.found = TRUE /\ r.invalid = FALSE /\ r.msg = m /\ r.left = l
      BY <3>2
    <3> QED
      BY <2>3, <2>4, <3>1, <3>3, Zenon
  <2>7. Step(s, p, r.msg, e)
    BY <1>1, <1>2, <2>2, <2>6, Zenon DEF Step
  <2>8. e \in 1 .. Len(s) + 1
    BY <1>4, <1>6, <2>2
  <2> QED
    BY <2>5, <2>6, <2>7, <2>8, Zenon DEF Extracts
<1>12. CASE ~(Len(rest) >= Prefix + len)
  <2>1. CutAt(b, o) = Wait(rest)
    BY <1>3, <1>9, <1>12 DEF CutAt
  <2>2. e > Len(s) + 1
    BY <1>4, <1>6, <1>7, <1>10, <1>12 DEF Prefix
  <2> QED
    BY <1>1, <1>2, <1>8, <2>1, <2>2 DEF Wait, Stuck, Extracts
<1> QED
  BY <1>11, <1>12

\* extract_message finds the next message of the stream wherever it is called.
LEMMA ExtractThere ==
  ASSUME NEW s \in Seq(Digits), NEW p \in 1 .. Len(s) + 1, NEW b, b = SubSeq(s, p, Len(s))
  PROVE  Extracts(s, p, b, extract_message(b))
<1>1. Len(s) \in Nat /\ Len(b) \in Nat /\ Len(b) = Len(s) + 1 - p /\ p \in Nat \ {0}
  BY LenProperties, Piece
<1>2. \A i \in Starts(s, p) : i \in Nat /\ i - p \in Nat /\ i = (i - p) + p
  BY <1>1, StartsTypes
<1>3. CASE Len(b) < Prefix
  <2>1. extract_message(b) = Wait(b)
    BY <1>3, <1>1 DEF extract_message, Prefix
  <2>2. Starts(s, p) = {}
    BY <1>1, <1>3, StartsTypes DEF Prefix
  <2> QED
    BY <2>1, <2>2 DEF Wait, Stuck, Extracts
<1>4. CASE Len(b) >= Prefix /\ Valid(read_len_at(b, 0))
  <2>1. extract_message(b) = CutAt(b, 0)
    BY <1>4, <1>1 DEF extract_message, Prefix
  <2>2. p \in Starts(s, p)
    <3>1. PICK z \in Nat : z = 0
      OBVIOUS
    <3>2. z + p \in Starts(s, p)
      BY <1>4, <3>1, Scan
    <3> QED
      BY <1>1, <3>1, <3>2
  <2>3. Begin(s, p) = p
    BY <1>1, <2>2, StartsTypes, BeginIs
  <2>4. 0 + Prefix <= Len(b) /\ Begin(s, p) = 0 + p
    BY <1>1, <1>4, <2>3 DEF Prefix
  <2> QED
    BY <2>1, <2>2, <2>4, CutThere
<1>5. CASE Len(b) >= Prefix /\ ~Valid(read_len_at(b, 0)) /\ Candidates(b) # {}
  <2> DEFINE o == CHOOSE i \in Candidates(b) : \A j \in Candidates(b) : i <= j
  <2>1. extract_message(b) = CutAt(b, o)
    BY <1>5, <1>1 DEF extract_message, Prefix
  <2>2. Candidates(b) \in SUBSET Nat
    BY DEF Candidates
  <2>3. o \in Candidates(b) /\ \A j \in Candidates(b) : o <= j
    BY <2>2, <1>5, Smallest
  <2> HIDE DEF o
  <2>4. o \in Nat /\ o + Prefix <= Len(b)
    BY <2>3, <1>1, BufferAssumption DEF Candidates, Prefix
  <2>5. o + p \in Starts(s, p)
    BY <2>3, <2>4, Scan
  <2>6. ASSUME NEW i \in Starts(s, p) PROVE o + p <= i
    <3>1. PICK j \in Nat : i = j + p
      BY <1>2
    <3>2. j \in Candidates(b)
      BY <1>5, <3>1, Scan
    <3> QED
      BY <1>1, <2>3, <2>4, <3>1, <3>2
  <2>7. Begin(s, p) = o + p
    BY <1>1, <2>5, <2>6, BeginIs
  <2> QED
    BY <2>1, <2>4, <2>5, <2>7, CutThere
<1>6. CASE Len(b) >= Prefix /\ ~Valid(read_len_at(b, 0)) /\ Candidates(b) = {}
  <2>1. extract_message(b) = IF TooBig(b) THEN [Wait(<<>>) EXCEPT !.invalid = TRUE] ELSE Wait(b)
    BY <1>6, <1>1 DEF extract_message, Prefix
  <2>2. Starts(s, p) = {}
    <3> SUFFICES ASSUME NEW i \in Starts(s, p) PROVE FALSE
      OBVIOUS
    <3>1. PICK j \in Nat : i = j + p
      BY <1>2
    <3> QED
      BY <1>6, <3>1, Scan
  <2> QED
    BY <2>1, <2>2 DEF Wait, Stuck, Extracts
<1> QED
  BY <1>1, <1>3, <1>4, <1>5, <1>6 DEF Prefix

-----------------------------------------------------------------------------
(* The buffer is a piece of the stream.                                    *)

\* b is what is left of s behind the messages that end before position k, or,
\* after a resync, from the next start on.
Aligned(s, k, b) ==
  \E p \in 1 .. Len(s) + 1 :
    b = SubSeq(s, p, Len(s)) /\ (p = k \/ (Starts(s, k) # {} /\ p = Begin(s, k)))

LEMMA AlignedStart == Aligned(<<>>, 1, <<>>) /\ Stuck(<<>>, 1)
<1>1. Len(<<>>) = 0 /\ <<>> \in Seq(Digits)
  BY EmptySeq
<1>2. SubSeq(<<>>, 1, Len(<<>>)) = <<>>
  BY <1>1, SubSeqEmpty
<1>3. Starts(<<>>, 1) = {}
  BY <1>1, BufferAssumption DEF Starts
<1> QED
  BY <1>1, <1>2, <1>3 DEF Aligned, Stuck

\* A tail grows at its end.
LEMMA PieceLater ==
  ASSUME NEW s \in Seq(Digits), NEW t \in Seq(Digits), NEW p \in 1 .. Len(s) + 1
  PROVE  SubSeq(s, p, Len(s)) \o t = SubSeq(s \o t, p, Len(s \o t))
<1>1. PICK b, c : b = SubSeq(s, p, Len(s)) /\ c = SubSeq(s \o t, p, Len(s \o t))
  OBVIOUS
<1>2. /\ s \o t \in Seq(Digits) /\ Len(s \o t) = Len(s) + Len(t)
      /\ Len(s) \in Nat /\ Len(t) \in Nat
      /\ \A i \in 1 .. Len(s) + Len(t) :
           (s \o t)[i] = IF i <= Len(s) THEN s[i] ELSE t[i - Len(s)]
  BY ConcatProperties, LenProperties
<1>3. b \in Seq(Digits) /\ Len(b) = Len(s) + 1 - p /\ p \in Nat
      /\ \A i \in 1 .. Len(s) - p + 1 : b[i] = s[p + i - 1]
  <2>1. \A i \in p .. Len(s) : s[i] \in Digits
    BY <1>2, ElementOfSeq
  <2> QED
    BY <1>1, <1>2, <2>1, SubSeqProperties
<1>4. c \in Seq(Digits) /\ Len(c) = Len(s) + Len(t) + 1 - p
      /\ \A i \in 1 .. Len(s) + Len(t) - p + 1 : c[i] = (s \o t)[p + i - 1]
  <2>1. \A i \in p .. Len(s \o t) : (s \o t)[i] \in Digits
    BY <1>2, ElementOfSeq
  <2> QED
    BY <1>1, <1>2, <2>1, SubSeqProperties
<1>5. b \o t \in Seq(Digits) /\ Len(b \o t) = Len(b) + Len(t)
      /\ \A i \in 1 .. Len(b) + Len(t) : (b \o t)[i] = IF i <= Len(b) THEN b[i] ELSE t[i - Len(b)]
  BY <1>3, ConcatProperties
<1>6. ASSUME NEW i \in 1 .. Len(b) + Len(t) PROVE (b \o t)[i] = c[i]
  <2>1. p + i - 1 \in 1 .. Len(s) + Len(t) /\ i \in 1 .. Len(s) + Len(t) - p + 1
    BY <1>2, <1>3
  <2>2. c[i] = IF p + i - 1 <= Len(s) THEN s[p + i - 1] ELSE t[(p + i - 1) - Len(s)]
    BY <1>2, <1>4, <2>1
  <2>3. CASE i <= Len(b)
    <3>1. i \in 1 .. Len(s) - p + 1 /\ p + i - 1 <= Len(s)
      BY <1>2, <1>3, <2>3
    <3> QED
      BY <1>3, <1>5, <2>2, <2>3, <3>1
  <2>4. CASE ~(i <= Len(b))
    <3>1. ~(p + i - 1 <= Len(s)) /\ (p + i - 1) - Len(s) = i - Len(b)
      BY <1>2, <1>3, <2>4
    <3> QED
      BY <1>5, <2>2, <2>4, <3>1
  <2> QED
    BY <2>3, <2>4
<1>7. Len(b \o t) = Len(c)
  BY <1>2, <1>3, <1>4, <1>5
<1>8. b \o t = c
  BY <1>4, <1>5, <1>6, <1>7, SeqEqual
<1> QED
  BY <1>1, <1>8

LEMMA AlignedLater ==
  ASSUME NEW s \in Seq(Digits), NEW t \in Seq(Digits), NEW k \in Nat \ {0}, NEW b,
         Aligned(s, k, b)
  PROVE  Aligned(s \o t, k, b \o t)
<1>1. PICK p \in 1 .. Len(s) + 1 :
        b = SubSeq(s, p, Len(s)) /\ (p = k \/ (Starts(s, k) # {} /\ p = Begin(s, k)))
  BY DEF Aligned
<1>2. p \in 1 .. Len(s \o t) + 1
  BY Later, LenProperties
<1>3. p = k \/ (Starts(s \o t, k) # {} /\ p = Begin(s \o t, k))
  BY <1>1, BeginLater
<1>4. b \o t = SubSeq(s \o t, p, Len(s \o t))
  BY <1>1, PieceLater
<1> QED
  BY <1>2, <1>3, <1>4 DEF Aligned

\* A start is its own first start: dropping the noise before it changes nothing.
LEMMA BeginAgain ==
  ASSUME NEW s \in Seq(Digits), NEW k \in Nat \ {0}, Starts(s, k) # {}, NEW p, p = Begin(s, k)
  PROVE  p \in Nat \ {0} /\ p + 1 <= Len(s) /\ Starts(s, p) # {} /\ Begin(s, p) = p
<1>1. p \in Starts(s, k)
  BY BeginLeast
<1>2. p \in Nat \ {0} /\ p + 1 <= Len(s) /\ Valid(read_len_at(s, p - 1))
  BY <1>1, StartsTypes
<1>3. p \in Starts(s, p)
  BY <1>2, BufferAssumption DEF Starts
<1>4. \A j \in Starts(s, p) : p <= j
  BY <1>2, StartsTypes
<1> QED
  BY <1>2, <1>3, <1>4, BeginIs

\* extract_message, called on an aligned buffer: the next message and an aligned
\* rest, or no message is complete and what is kept is aligned.
LEMMA AlignedExtract ==
  ASSUME NEW s \in Seq(Digits), NEW k \in 1 .. Len(s) + 1, NEW b, Aligned(s, k, b),
         NEW r, r = extract_message(b)
  PROVE  /\ r.invalid \in BOOLEAN /\ r.found \in BOOLEAN
         /\ r.found => \E e \in 1 .. Len(s) + 1 : Step(s, k, r.msg, e) /\ Aligned(s, e, r.left)
         /\ ~r.found => Stuck(s, k)
         /\ ~r.found /\ ~r.invalid => Aligned(s, k, r.left)
<1>1. PICK p \in 1 .. Len(s) + 1 :
        b = SubSeq(s, p, Len(s)) /\ (p = k \/ (Starts(s, k) # {} /\ p = Begin(s, k)))
  BY DEF Aligned
<1>2. Extracts(s, p, b, r)
  BY <1>1, ExtractThere
<1>3. Len(s) \in Nat /\ k \in Nat \ {0}
  BY LenProperties
<1>4. \/ p = k
      \/ Starts(s, k) # {} /\ Starts(s, p) # {} /\ Begin(s, p) = p /\ Begin(s, k) = p
  BY <1>1, <1>3, BeginAgain
<1>5. /\ Starts(s, p) # {} <=> Starts(s, k) # {}
      /\ Starts(s, p) # {} => Begin(s, p) = Begin(s, k)
  BY <1>4
<1>6. \A m, e : Step(s, p, m, e) => Step(s, k, m, e)
  BY <1>5, Zenon DEF Step
<1>7. Stuck(s, p) => Stuck(s, k)
  BY <1>5, Zenon DEF Stuck
<1>8. r.invalid \in BOOLEAN /\ r.found \in BOOLEAN
  BY <1>2 DEF Extracts
<1>9. ASSUME r.found
      PROVE  \E e \in 1 .. Len(s) + 1 : Step(s, k, r.msg, e) /\ Aligned(s, e, r.left)
  <2>1. PICK e \in 1 .. Len(s) + 1 : Step(s, p, r.msg, e) /\ r.left = SubSeq(s, e, Len(s))
    BY <1>2, <1>9, Zenon DEF Extracts
  <2>2. Aligned(s, e, r.left)
    BY <2>1, Zenon DEF Aligned
  <2>3. Step(s, k, r.msg, e)
    BY <1>6, <2>1, Zenon
  <2> QED
    BY <2>2, <2>3, Zenon
<1>10. ASSUME ~r.found PROVE Stuck(s, k)
  BY <1>2, <1>7, <1>10, Zenon DEF Extracts
<1>11. ASSUME ~r.found, ~r.invalid PROVE Aligned(s, k, r.left)
  <2>1. CASE r.left = b
    BY <2>1
  <2>2. CASE Starts(s, p) # {} /\ r.left = SubSeq(s, Begin(s, p), Len(s))
    <3>1. Starts(s, k) # {} /\ r.left = SubSeq(s, Begin(s, k), Len(s))
      BY <1>5, <2>2, Zenon
    <3>2. PICK i : i = Begin(s, k)
      OBVIOUS
    <3>3. i \in Nat \ {0} /\ i + 1 <= Len(s)
      BY <1>3, <3>1, <3>2, BeginAgain
    <3>4. i \in 1 .. Len(s) + 1
      BY <1>3, <3>3
    <3> QED
      BY <3>1, <3>2, <3>4, Zenon DEF Aligned
  <2> QED
    BY <1>2, <1>11, <2>1, <2>2, Zenon DEF Extracts
<1> QED
  BY <1>8, <1>9, <1>10, <1>11, Zenon

-----------------------------------------------------------------------------
(* The messages of an open connection.                                     *)

\* What has arrived for this connection and is not in the buffer yet.
Ready == {r \in reads : r.conn = conn /\ r.status = "ready"}

\* Only an open connection waits for its client.
Live == \A r \in reads : r.status = "live" => r.conn = conn /\ ~closed

\* Of the part s of the stream that handlers have seen, the messages that end
\* before position k were dispatched and the buffer is the rest; between reads no
\* message is complete in it.
Seen(s, k) ==
  /\ Parsed(s, out, k)
  /\ \/ Ready = {} /\ stream = s
     \/ \E r \in Ready : stream = s \o r.chunk
  /\ ~dropped => Aligned(s, k, buffer)
  /\ strand[conn].at \in {"idle", "next"} => Stuck(s, k)

Parsing == ~closed /\ ~tampered => \E s \in Seq(Digits), k \in Nat : Seen(s, k)

\* The chunks and statuses of the reads after a cleanup().
LEMMA CleanupReads ==
  ASSUME NEW rs \in SUBSET Reads, cleanup(rs)
  PROVE  \A q \in reads' : \E r \in rs : q.conn = r.conn /\ q.status = r.status
<1>1. PICK f : /\ Carries(rs, Overwrite(rs, Zeros), f) /\ Overwrite(rs, Zeros) \in SUBSET Reads
               /\ \A r \in rs : f[r].status = r.status
  BY OverwriteCarries, ZerosText, Zenon
<1>2. reads' = Overwrite(rs, Zeros)
  BY DEF cleanup
<1> QED
  BY <1>1, <1>2, Zenon DEF Carries

\* close_session() leaves no read that waits.
LEMMA CloseReads ==
  ASSUME Typed, close_session
  PROVE  Live'
<1>1. reads \in SUBSET Reads
  BY DEF Typed, ReadsOK
<1>2. Aborted(reads) \in SUBSET Reads
  BY <1>1, AbortedCarries
<1>3. \A q \in Aborted(reads) : q.status # "live"
  <2>1. Aborted(reads) = {AbortedRead(r) : r \in reads}
    BY DEF Aborted, AbortedRead
  <2>2. \A r \in reads : AbortedRead(r).status # "live"
    BY <1>1 DEF AbortedRead, Reads
  <2> QED
    BY <2>1, <2>2
<1>4. \A q \in reads' : \E r \in Aborted(reads) : q.status = r.status
  BY <1>2, CleanupReads DEF close_session
<1> QED
  BY <1>3, <1>4 DEF Live

LEMMA LiveCleanup ==
  ASSUME Typed, Live, cleanup(reads), closed' = closed, conn' = conn
  PROVE  Live'
<1>1. \A q \in reads' : \E r \in reads : q.conn = r.conn /\ q.status = r.status
  BY CleanupReads DEF Typed, ReadsOK
<1> QED
  BY <1>1 DEF Live

\* At most one read is added, for the connection of the moment.
Adds == reads' = reads \/ reads' = reads \cup {Read(reads)}

LEMMA LiveAdds ==
  ASSUME Live, Adds, closed' = closed, conn' = conn
  PROVE  Live'
<1>1. Read(reads).status = "live" => Read(reads).conn = conn /\ ~closed
  BY DEF Read
<1>2. \A r \in reads' : r \in reads \/ r = Read(reads)
  BY DEF Adds
<1> QED
  BY <1>1, <1>2 DEF Live

LEMMA EnqueueAdds ==
  ASSUME NEW c \in Conns, NEW pc, Enqueue(c, pc)
  PROVE  Adds
BY Zenon DEF Enqueue, Adds

LEMMA LiveNext == IInv /\ Live /\ [Next]_vars => Live'
<1> SUFFICES ASSUME IInv, Live, [Next]_vars PROVE Live'
  OBVIOUS
<1>1. Typed
  BY DEF IInv
<1>2. CASE Close
  BY <1>1, <1>2, CloseReads DEF Close
<1>3. CASE TrailingCleanup
  BY <1>1, <1>3, LiveCleanup DEF TrailingCleanup
<1>4. CASE reset
  <2>1. cleanup(reads) /\ closed
    BY <1>4 DEF reset
  <2>2. \A q \in reads' : \E r \in reads : q.conn = r.conn /\ q.status = r.status
    BY <1>1, <2>1, CleanupReads DEF Typed, ReadsOK
  <2> QED
    BY <2>1, <2>2 DEF Live
<1>5. CASE AcquireCleanup
  BY <1>1, <1>5, LiveCleanup DEF AcquireCleanup
<1>6. CASE Start
  BY <1>6 DEF Start, Live
<1>7. CASE Complete
  <2>1. UNCHANGED <<closed, conn>>
    BY <1>7 DEF Complete
  <2>2. PICK r \in reads :
          \/ \E chunk \in Chunks :
               reads' = Overwrite(reads \ {r}, chunk)
                          \cup {[r EXCEPT !.status = "ready", !.chunk = chunk]}
          \/ reads' = (reads \ {r}) \cup {[r EXCEPT !.status = "failed"]}
    BY <1>7 DEF Complete
  <2>3. reads \in SUBSET Reads
    BY <1>1 DEF Typed, ReadsOK
  <2>4. ASSUME NEW chunk \in Chunks,
               reads' = Overwrite(reads \ {r}, chunk)
                          \cup {[r EXCEPT !.status = "ready", !.chunk = chunk]}
        PROVE  Live'
    <3>0. PICK others : others = reads \ {r}
      OBVIOUS
    <3>1. PICK f : /\ Carries(others, Overwrite(others, chunk), f)
                   /\ Overwrite(others, chunk) \in SUBSET Reads
                   /\ \A q \in others : f[q].status = q.status
      <4>1. others \in SUBSET Reads /\ chunk \in Texts
        BY <2>3, <3>0 DEF Texts
      <4> QED
        BY <4>1, OverwriteCarries
    <3>2. \A q \in Overwrite(reads \ {r}, chunk) :
            \E x \in reads : q.conn = x.conn /\ q.status = x.status
      <4>1. \A q \in Overwrite(others, chunk) :
              \E x \in others : q.conn = x.conn /\ q.status = x.status
        BY <3>1, Zenon DEF Carries
      <4> QED
        BY <3>0, <4>1
    <3>3. [r EXCEPT !.status = "ready", !.chunk = chunk].status = "ready"
      BY <2>3 DEF Reads
    <3>4. \A q \in reads' : q.status = "live" => q \in Overwrite(reads \ {r}, chunk)
      BY <2>4, <3>3
    <3> QED
      BY <2>1, <3>2, <3>4 DEF Live
  <2>5. CASE reads' = (reads \ {r}) \cup {[r EXCEPT !.status = "failed"]}
    <3>1. [r EXCEPT !.status = "failed"].status = "failed"
      BY <2>3 DEF Reads
    <3>2. \A q \in reads' : q.status = "live" => q \in reads
      BY <2>5, <3>1
    <3> QED
      BY <2>1, <3>2 DEF Live
  <2> QED
    BY <2>2, <2>4, <2>5
<1>8. CASE Handle
  <2>1. (\A q \in reads' : q \in reads) /\ UNCHANGED <<closed, conn>>
    BY <1>8 DEF Handle
  <2> QED
    BY <2>1 DEF Live
<1>9. ASSUME NEW c \in Conns, RunPosted(c) PROVE Live'
  BY <1>9, EnqueueAdds, LiveAdds DEF RunPosted
<1>10. ASSUME NEW c \in Conns, Dispatch(c) PROVE Live'
  BY <1>10 DEF Dispatch, Live
<1>11. ASSUME NEW c \in Conns, ReadOn(c) PROVE Live'
  <2>1. (reads' = reads \/ Enqueue(c, "next")) /\ UNCHANGED <<closed, conn>>
    BY <1>11, Zenon DEF ReadOn
  <2> QED
    BY <2>1, EnqueueAdds, LiveAdds DEF Adds
<1>12. ASSUME NEW c \in Conns, HandlerClose(c) PROVE Live'
  <2>1. close_session \/ UNCHANGED <<closed, conn, reads>>
    BY <1>12, Zenon DEF HandlerClose
  <2> QED
    BY <1>1, <2>1, CloseReads DEF Live
<1>13. ASSUME NEW c \in Conns, HandlerCleanup(c) PROVE Live'
  BY <1>1, <1>13, LiveCleanup DEF HandlerCleanup
<1>14. ASSUME NEW c \in Conns, RunNext(c) PROVE Live'
  <2>1. Adds /\ UNCHANGED <<closed, conn>>
    BY <1>14, Zenon DEF RunNext, run_next_task, Adds
  <2> QED
    BY <2>1, LiveAdds
<1>15. CASE on_nickname_registered \/ UNCHANGED vars
  BY <1>15 DEF on_nickname_registered, vars, Live
<1> QED
  BY <1>2, <1>3, <1>4, <1>5, <1>6, <1>7, <1>8, <1>9, <1>10, <1>11, <1>12, <1>13, <1>14, <1>15
     DEF Next, StrandStep

LEMMA OutType == Typed => out \in Seq(Seq(Digits))
<1> SUFFICES ASSUME Typed PROVE out \in Seq(Seq(Digits))
  OBVIOUS
<1>1. out \in Seq(Message) /\ Message \subseteq Seq(Digits)
  BY DEF Typed, Message
<1> QED
  BY <1>1, SeqMonotonic

\* What a step leaves alone keeps what was seen.
LEMMA SeenKept ==
  ASSUME Parsing, ~closed, ~tampered, Ready' = Ready, UNCHANGED <<conn, stream, out, buffer, dropped>>,
         strand'[conn].at \in {"idle", "next"} => strand[conn].at \in {"idle", "next"}
  PROVE  Parsing'
<1>1. PICK s \in Seq(Digits), k \in Nat : Seen(s, k)
  BY DEF Parsing
<1>2. Seen(s, k)'
  BY <1>1 DEF Seen
<1> QED
  BY <1>2 DEF Parsing

\* A new read has brought nothing.
LEMMA ReadyAdds ==
  ASSUME Adds, ~closed, conn' = conn
  PROVE  Ready' = Ready
<1>1. Read(reads).status = "live"
  BY DEF Read
<1>2. \A r \in reads' : r \in reads \/ r = Read(reads)
  BY DEF Adds
<1>3. \A r \in reads : r \in reads'
  BY DEF Adds
<1> QED
  BY <1>1, <1>2, <1>3 DEF Ready

LEMMA ReadyNone == NoRead => Ready = {}
BY DEF NoRead, Ready

LEMMA ParsingReset == ASSUME IInv, IInv', reset PROVE Parsing'
<1>1. /\ ~closed' /\ ~tampered' /\ accepting' = "cleanup" /\ buffer' = <<>> /\ stream' = <<>>
      /\ out' = <<>> /\ dropped' = FALSE
  BY DEF reset
<1>2. NoRead'
  BY <1>1 DEF IInv, Looping, Clean
<1>3. Ready' = {}
  BY <1>2 DEF NoRead, Ready
<1>4. Seen(<<>>, 1)'
  BY <1>1, <1>3, ParsedStart, AlignedStart DEF Seen
<1>5. <<>> \in Seq(Digits) /\ 1 \in Nat
  BY EmptySeq
<1> QED
  BY <1>4, <1>5 DEF Parsing

LEMMA ParsingAcquire == ASSUME IInv, IInv', Parsing, AcquireCleanup PROVE Parsing'
<1> SUFFICES ASSUME ~closed', ~tampered' PROVE Parsing'
  BY DEF Parsing
<1>1. UNCHANGED <<closed, conn, buffer, strand, stream, out, dropped, tampered>>
  BY DEF AcquireCleanup, histVars
<1>2. accepting = "cleanup" /\ accepting' = "start"
  BY DEF AcquireCleanup
<1>3. NoRead /\ NoRead'
  BY <1>1, <1>2 DEF IInv, Looping, Clean
<1>4. Ready = {} /\ Ready' = {}
  BY <1>3 DEF NoRead, Ready
<1> QED
  BY <1>1, <1>4, SeenKept

\* The client sends: a chunk is added to the stream and waits for its handler.
LEMMA ParsingComplete == ASSUME IInv, Parsing, Live, Complete PROVE Parsing'
<1> SUFFICES ASSUME ~closed', ~tampered' PROVE Parsing'
  BY DEF Parsing
<1>1. UNCHANGED <<closed, conn, accepting, buffer, strand, out, dropped, tampered>>
  BY DEF Complete
<1>2. PICK r \in reads :
        /\ r.status = "live"
        /\ \/ \E chunk \in Chunks :
                /\ stream' = IF tampered THEN <<>> ELSE stream \o chunk
                /\ reads' = Overwrite(reads \ {r}, chunk)
                              \cup {[r EXCEPT !.status = "ready", !.chunk = chunk]}
           \/ /\ reads' = (reads \ {r}) \cup {[r EXCEPT !.status = "failed"]}
              /\ UNCHANGED stream
  BY DEF Complete
<1>3. r \in Reads
  BY DEF IInv, Typed, ReadsOK
<1>4. r.conn = conn
  BY <1>2 DEF Live
<1>5. Waiting
  BY <1>1, <1>4 DEF IInv, Looping, Clean, Starting, Handling, Ending, NoRead
<1>6. \A q \in reads : q.conn = conn => q = r
  BY <1>4, <1>5 DEF Waiting
<1>7. Ready = {}
  BY <1>2, <1>6 DEF Ready
<1>8. PICK s \in Seq(Digits), k \in Nat : Seen(s, k)
  BY <1>1 DEF Parsing
<1>9. Parsed(s, out, k) /\ stream = s /\ (~dropped => Aligned(s, k, buffer))
      /\ (strand[conn].at \in {"idle", "next"} => Stuck(s, k))
  BY <1>7, <1>8 DEF Seen
<1>10. ASSUME NEW chunk \in Chunks, stream' = IF tampered THEN <<>> ELSE stream \o chunk,
              reads' = Overwrite(reads \ {r}, chunk)
                         \cup {[r EXCEPT !.status = "ready", !.chunk = chunk]}
       PROVE  Parsing'
  <2>1. PICK q : q = [r EXCEPT !.status = "ready", !.chunk = chunk]
    OBVIOUS
  <2>2. q.conn = conn /\ q.status = "ready" /\ q.chunk = chunk
    BY <1>3, <1>4, <2>1 DEF Reads
  <2>3. q \in Ready'
    BY <1>1, <1>10, <2>1, <2>2 DEF Ready
  <2>4. stream' = s \o q.chunk
    BY <1>1, <1>9, <1>10, <2>2
  <2>5. Seen(s, k)'
    BY <1>1, <1>9, <2>3, <2>4 DEF Seen
  <2> QED
    BY <2>5 DEF Parsing
<1>11. CASE reads' = (reads \ {r}) \cup {[r EXCEPT !.status = "failed"]} /\ UNCHANGED stream
  <2>1. [r EXCEPT !.status = "failed"].status = "failed"
    BY <1>3 DEF Reads
  <2>2. \A q \in reads' : q.status = "ready" => q \in reads
    BY <1>11, <2>1
  <2>3. Ready' = {}
    BY <1>1, <1>7, <2>2 DEF Ready
  <2> QED
    BY <1>1, <1>7, <1>11, <2>3, SeenKept
<1> QED
  BY <1>2, <1>10, <1>11

\* The handler appends the chunk.
LEMMA ParsingHandle == ASSUME IInv, Parsing, Handle PROVE Parsing'
<1> SUFFICES ASSUME ~closed', ~tampered' PROVE Parsing'
  BY DEF Parsing
<1>1. UNCHANGED <<closed, conn, stream, out, dropped>>
  BY DEF Handle, histVars
<1>2. PICK r \in reads :
        /\ r.status # "live" /\ strand[r.conn].at = "idle" /\ reads' = reads \ {r}
        /\ \/ /\ r.status = "ready" /\ buffer' = buffer \o r.chunk
              /\ strand' = [strand EXCEPT ![r.conn] = At("extract")]
           \/ r.status # "ready" /\ UNCHANGED buffer
        /\ tampered' = (tampered \/ (r.conn # conn /\ ~closed))
  BY DEF Handle
<1>3. ~closed /\ ~tampered /\ r.conn = conn
  BY <1>1, <1>2
<1>4. Typed /\ r \in Reads /\ conn \in Conns
  BY DEF IInv, Typed, ReadsOK
<1>5. Waiting
  BY <1>3 DEF IInv, Looping, Clean, Starting, Handling, Ending, NoRead
<1>6. \A q \in reads : q.conn = conn => q = r
  BY <1>3, <1>5 DEF Waiting
<1>7. Ready' = {}
  BY <1>1, <1>2, <1>6 DEF Ready
<1>8. PICK s \in Seq(Digits), k \in Nat : Seen(s, k)
  BY <1>3 DEF Parsing
<1>9. /\ Parsed(s, out, k) /\ Aligned(s, k, buffer) /\ Stuck(s, k)
      /\ \/ Ready = {} /\ stream = s
         \/ \E q \in Ready : stream = s \o q.chunk
  BY <1>2, <1>3, <1>8 DEF Seen, IInv, Dropping
<1>10. CASE r.status = "ready"
  <2>1. r \in Ready /\ \A q \in Ready : q = r
    BY <1>3, <1>6, <1>10 DEF Ready
  <2>2. stream = s \o r.chunk
    BY <1>9, <2>1
  <2>3. r.chunk \in Seq(Digits)
    BY <1>4, TextTypes DEF Reads
  <2>4. PICK t : t = s \o r.chunk
    OBVIOUS
  <2>5. Parsed(t, out, k) /\ t \in Seq(Digits)
    BY <1>4, <1>9, <2>3, <2>4, OutType, ParsedLater, Later
  <2>6. k \in Nat \ {0}
    <3>1. k \in 1 .. Len(s) + 1
      BY <1>4, <1>9, OutType, ParsedType
    <3> QED
      BY <3>1
  <2>7. Aligned(t, k, buffer')
    <3>1. PICK b, c : b = buffer /\ c = r.chunk
      OBVIOUS
    <3>2. Aligned(s \o c, k, b \o c)
      BY <1>9, <2>3, <2>6, <3>1, AlignedLater
    <3>3. buffer' = b \o c /\ t = s \o c
      BY <1>2, <1>10, <2>4, <3>1
    <3> QED
      BY <3>2, <3>3
  <2>8. strand'[conn].at = "extract"
    BY <1>2, <1>3, <1>4, <1>10, StrandTypes DEF Typed
  <2>9. Seen(t, k)'
    BY <1>1, <1>7, <2>2, <2>4, <2>5, <2>7, <2>8 DEF Seen
  <2> QED
    BY <2>5, <2>9 DEF Parsing
<1>11. CASE r.status # "ready"
  <2>1. Ready = {}
    BY <1>6, <1>11 DEF Ready
  <2> QED
    BY <1>1, <1>2, <1>3, <1>7, <1>11, <2>1, SeenKept
<1> QED
  BY <1>10, <1>11

\* The dispatcher gets the next message of the stream.
LEMMA ParsingDispatch ==
  ASSUME IInv, Parsing, NEW c \in Conns, Dispatch(c)
  PROVE  Parsing'
<1> SUFFICES ASSUME ~closed', ~tampered' PROVE Parsing'
  BY DEF Parsing
<1>1. PICK r, b : r = extract_message(buffer) /\ b = buffer
  OBVIOUS
<1>2. /\ strand[c].at = "extract" /\ r.found /\ buffer' = r.left
      /\ \E pc \in {At("extract"), Closing("extract"), Closing("idle")} :
           strand' = [strand EXCEPT ![c] = pc]
      /\ tampered' = (tampered \/ (c # conn /\ ~closed))
      /\ out' = IF closed \/ tampered' THEN <<>> ELSE Append(out, r.msg)
  BY <1>1 DEF Dispatch
<1>3. UNCHANGED <<closed, conn, reads, stream, dropped>>
  BY DEF Dispatch
<1>4. ~closed /\ ~tampered /\ c = conn /\ out' = Append(out, r.msg)
  BY <1>2, <1>3
<1>5. Typed /\ ~dropped
  BY <1>2, <1>4 DEF IInv, Dropping
<1>6. PICK s \in Seq(Digits), k \in Nat : Seen(s, k)
  BY <1>4 DEF Parsing
<1>7. /\ Parsed(s, out, k) /\ Aligned(s, k, b)
      /\ \/ Ready = {} /\ stream = s
         \/ \E q \in Ready : stream = s \o q.chunk
  BY <1>1, <1>5, <1>6 DEF Seen
<1>8. k \in 1 .. Len(s) + 1
  BY <1>5, <1>7, OutType, ParsedType
<1>9. PICK e \in 1 .. Len(s) + 1 : Step(s, k, r.msg, e) /\ Aligned(s, e, r.left)
  BY <1>1, <1>2, <1>7, <1>8, AlignedExtract
<1>10. Parsed(s, out', e)
  <2>1. PICK d, m : d = out /\ m = r.msg
    OBVIOUS
  <2>2. d \in Seq(Seq(Digits)) /\ Parsed(s, d, k) /\ Step(s, k, m, e)
    BY <1>5, <1>7, <1>9, <2>1, OutType
  <2>3. Parsed(s, Append(d, m), e)
    BY <2>2, ParsedNext
  <2> QED
    BY <1>4, <2>1, <2>3
<1>11. strand'[conn].at \in {"extract", "close"}
  BY <1>2, <1>4, <1>5, StrandTypes DEF Typed
<1>12. Ready' = Ready
  BY <1>3 DEF Ready
<1>13. Seen(s, e)'
  BY <1>2, <1>3, <1>7, <1>9, <1>10, <1>11, <1>12 DEF Seen
<1>14. e \in Nat
  BY <1>9, LenProperties
<1> QED
  BY <1>13, <1>14 DEF Parsing

\* The handler reads on when no message is complete.
LEMMA ParsingReadOn ==
  ASSUME IInv, Parsing, NEW c \in Conns, ReadOn(c)
  PROVE  Parsing'
<1> SUFFICES ASSUME ~closed', ~tampered' PROVE Parsing'
  BY DEF Parsing
<1>1. PICK r, b : r = extract_message(buffer) /\ b = buffer
  OBVIOUS
<1>2. /\ strand[c].at = "extract" /\ ~r.found /\ buffer' = r.left
      /\ dropped' = (dropped \/ r.invalid)
      /\ tampered' = (tampered \/ (c # conn /\ ~closed))
  BY <1>1 DEF ReadOn
<1>3. UNCHANGED <<closed, conn, stream, out>>
  BY DEF ReadOn
<1>4. ~closed /\ ~tampered /\ c = conn
  BY <1>2, <1>3
<1>5. Typed /\ ~dropped
  BY <1>2, <1>4 DEF IInv, Dropping
<1>6. PICK s \in Seq(Digits), k \in Nat : Seen(s, k)
  BY <1>4 DEF Parsing
<1>7. /\ Parsed(s, out, k) /\ Aligned(s, k, b)
      /\ \/ Ready = {} /\ stream = s
         \/ \E q \in Ready : stream = s \o q.chunk
  BY <1>1, <1>5, <1>6 DEF Seen
<1>8. k \in 1 .. Len(s) + 1
  BY <1>5, <1>7, OutType, ParsedType
<1>9. Stuck(s, k) /\ (~r.invalid => Aligned(s, k, r.left))
  BY <1>1, <1>2, <1>7, <1>8, AlignedExtract
<1>10. Ready' = Ready
  <2>1. reads' = reads \/ Enqueue(c, "next")
    BY Zenon DEF ReadOn
  <2> QED
    BY <1>3, <1>4, <2>1, EnqueueAdds, ReadyAdds DEF Adds
<1>11. ~dropped' => ~r.invalid
  BY <1>2
<1>12. Seen(s, k)'
  BY <1>2, <1>3, <1>7, <1>9, <1>10, <1>11 DEF Seen
<1> QED
  BY <1>12 DEF Parsing

LEMMA ParsingNext == IInv /\ Live /\ Parsing /\ [Next]_vars => Parsing'
<1> SUFFICES ASSUME IInv, Live, Parsing, [Next]_vars, ~closed', ~tampered' PROVE Parsing'
  BY DEF Parsing
<1>1. IInv' /\ Typed
  BY NextInv DEF IInv
<1>2. CASE Close
  BY <1>2 DEF Close, close_session
<1>3. CASE TrailingCleanup
  BY <1>3 DEF TrailingCleanup
<1>4. CASE reset
  BY <1>1, <1>4, ParsingReset
<1>5. CASE AcquireCleanup
  BY <1>1, <1>5, ParsingAcquire
<1>6. CASE Start
  <2>1. UNCHANGED <<closed, conn, buffer, reads, strand, stream, out, dropped, tampered>>
    BY <1>6 DEF Start, histVars
  <2>2. Ready' = Ready
    BY <2>1 DEF Ready
  <2> QED
    BY <2>1, <2>2, SeenKept
<1>7. CASE Complete
  BY <1>7, ParsingComplete
<1>8. CASE Handle
  BY <1>8, ParsingHandle
<1>9. ASSUME NEW c \in Conns, RunPosted(c) PROVE Parsing'
  <2>1. /\ strand[c].at = "idle" /\ Enqueue(c, "idle")
        /\ tampered' = (tampered \/ (c # conn /\ ~closed))
        /\ UNCHANGED <<closed, conn, buffer, stream, out, dropped>>
    BY <1>9 DEF RunPosted, histVars
  <2>2. ~closed /\ ~tampered /\ c = conn
    BY <2>1
  <2>3. Ready' = Ready
    BY <2>1, <2>2, EnqueueAdds, ReadyAdds
  <2> QED
    BY <2>1, <2>2, <2>3, SeenKept
<1>10. ASSUME NEW c \in Conns, Dispatch(c) PROVE Parsing'
  BY <1>10, ParsingDispatch
<1>11. ASSUME NEW c \in Conns, ReadOn(c) PROVE Parsing'
  BY <1>11, ParsingReadOn
<1>12. ASSUME NEW c \in Conns, HandlerClose(c) PROVE Parsing'
  <2>1. strand[c].at = "close" /\ UNCHANGED <<conn, accepting, buffer, dropped, tampered>>
    BY <1>12 DEF HandlerClose
  <2>2. /\ Refused /\ strand' = [strand EXCEPT ![c] = At(strand[c].then)]
        /\ UNCHANGED <<closed, reads, stream, out>>
    BY <1>12 DEF HandlerClose, close_session
  <2>3. accepting = "cleanup" /\ ~closed /\ ~tampered
    BY <2>1, <2>2 DEF Refused
  <2>4. c # conn
    BY <2>1, <2>3 DEF IInv, Looping, Clean
  <2>5. strand'[conn] = strand[conn]
    BY <1>1, <2>2, <2>4 DEF Typed
  <2>6. Ready' = Ready
    BY <2>1, <2>2 DEF Ready
  <2> QED
    BY <2>1, <2>2, <2>3, <2>5, <2>6, SeenKept
<1>13. ASSUME NEW c \in Conns, HandlerCleanup(c) PROVE Parsing'
  BY <1>13 DEF HandlerCleanup
<1>14. ASSUME NEW c \in Conns, RunNext(c) PROVE Parsing'
  <2>1. /\ strand[c].at = "next" /\ Adds
        /\ tampered' = (tampered \/ (c # conn /\ ~closed))
        /\ UNCHANGED <<closed, conn, buffer, stream, out, dropped>>
    BY <1>14, Zenon DEF RunNext, run_next_task, Adds, histVars
  <2>2. ~closed /\ ~tampered /\ c = conn
    BY <2>1
  <2>3. Ready' = Ready
    BY <2>1, <2>2, ReadyAdds
  <2> QED
    BY <2>1, <2>2, <2>3, SeenKept
<1>15. CASE on_nickname_registered \/ UNCHANGED vars
  <2>1. UNCHANGED <<closed, conn, buffer, reads, strand, stream, out, dropped, tampered>>
    BY <1>15 DEF on_nickname_registered, vars, histVars
  <2>2. Ready' = Ready
    BY <2>1 DEF Ready
  <2> QED
    BY <2>1, <2>2, SeenKept
<1> QED
  BY <1>2, <1>3, <1>4, <1>5, <1>6, <1>7, <1>8, <1>9, <1>10, <1>11, <1>12, <1>13, <1>14, <1>15
     DEF Next, StrandStep

\* How TCP cuts the stream into reads does not matter: what an open connection that
\* earlier ones left alone dispatches are the first messages of its stream, as
\* Messages reads them off the whole, and all of them once do_read's handler is
\* through with what has arrived, for any stream, any noise in it and any limits.
THEOREM ReadLoopChunks == Spec => []ChunkIndependent
<1>1. Init => Live /\ Parsing
  <2> SUFFICES ASSUME Init PROVE Live /\ Parsing
    OBVIOUS
  <2>1. Live /\ Ready = {}
    BY DEF Init, Live, Ready
  <2>2. Seen(<<>>, 1)
    BY <2>1, ParsedStart, AlignedStart DEF Init, Seen
  <2>3. <<>> \in Seq(Digits) /\ 1 \in Nat
    BY EmptySeq
  <2> QED
    BY <2>1, <2>2, <2>3 DEF Parsing
<1>2. IInv /\ Parsing => ChunkIndependent
  <2> SUFFICES ASSUME IInv, Parsing, ~closed, ~tampered
               PROVE  /\ Len(out) <= Len(Messages(stream))
                      /\ out = SubSeq(Messages(stream), 1, Len(out))
                      /\ strand[conn].at \in {"idle", "next"}
                           /\ (\A r \in Outstanding : r.status # "ready")
                           => out = Messages(stream)
    BY DEF ChunkIndependent
  <2>1. PICK s \in Seq(Digits), k \in Nat : Seen(s, k)
    BY DEF Parsing
  <2>2. Typed
    BY DEF IInv
  <2>3. Parsed(stream, out, k) /\ stream \in Seq(Digits)
    <3>1. CASE stream = s
      BY <2>1, <3>1 DEF Seen
    <3>2. CASE \E r \in Ready : stream = s \o r.chunk
      <4>1. PICK r \in Ready : stream = s \o r.chunk
        BY <3>2
      <4>2. r.chunk \in Seq(Digits)
        BY <2>2, TextTypes DEF Ready, Typed, ReadsOK, Reads
      <4>3. PICK c : c = r.chunk
        OBVIOUS
      <4>4. Parsed(s \o c, out, k)
        BY <2>1, <2>2, <4>2, <4>3, OutType, ParsedLater DEF Seen
      <4> QED
        BY <2>2, <4>1, <4>3, <4>4 DEF Typed
    <3> QED
      BY <2>1, <2>2, <3>1, <3>2 DEF Seen, Typed
  <2>4. /\ Len(out) <= Len(Messages(stream)) /\ out = SubSeq(Messages(stream), 1, Len(out))
        /\ Stuck(stream, k) => out = Messages(stream)
    BY <2>2, <2>3, OutType, ParsedFirst
  <2>5. ASSUME strand[conn].at \in {"idle", "next"}, \A r \in Outstanding : r.status # "ready"
        PROVE  Stuck(stream, k)
    <3>1. Ready = {}
      BY <2>5 DEF Ready, Outstanding
    <3> QED
      BY <2>1, <2>5, <3>1 DEF Seen
  <2> QED
    BY <2>4, <2>5
<1> QED
  BY <1>1, <1>2, LiveNext, ParsingNext, ReadLoopInductive, PTL DEF Spec
================================================================================
