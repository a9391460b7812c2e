----------------------------- MODULE MessageBuffer ------------------------------
(***************************************************************************)
(* MessageBufferManager: length-prefixed messages are cut out of a buffer  *)
(* that bytes are appended to; a prefix that makes no sense is skipped by  *)
(* scanning for the next one that does.  ReadLoop has the buffer and the   *)
(* handler that drives it.                                                 *)
(*                                                                         *)
(* A prefix has two digits to base Base here where it has four bytes in    *)
(* the code; MAX_PACKET_SIZE, kMaxResyncScan, ABSOLUTE_MAX_BUFFER and the  *)
(* size of a read are scaled down with it.                                 *)
(***************************************************************************)
EXTENDS Integers, Sequences

CONSTANTS
  Base,                 \* digits are 0 .. Base - 1
  MAX_PACKET_SIZE, kMaxResyncScan, ABSOLUTE_MAX_BUFFER,
  ReadSize              \* sizeof(data_)

ASSUME BufferAssumption ==
  /\ Base \in Nat \ {0} /\ MAX_PACKET_SIZE \in Nat /\ kMaxResyncScan \in Nat
  /\ ABSOLUTE_MAX_BUFFER \in Nat /\ ReadSize \in Nat \ {0}

Digits  == 0 .. Base - 1
Prefix  == 2                                   \* length of a prefix
Chunks  == UNION {[1 .. n -> Digits] : n \in 1 .. ReadSize}   \* what a read brings

-----------------------------------------------------------------------------
(* extract_message.                                                        *)

\* read_len_at: the prefix at an offset, most significant digit first.
read_len_at(b, offset) == b[offset + 1] * Base + b[offset + 2]

\* Mutant: a length of zero is taken for a message.
ValidOrZero(len) == len <= MAX_PACKET_SIZE

Valid(len) == len > 0 /\ len <= MAX_PACKET_SIZE

\* Mutant: the scan stops one short.
CandidatesShort(b) ==
  LET limit == IF Len(b) < kMaxResyncScan + Prefix THEN Len(b) ELSE kMaxResyncScan + Prefix
  IN {i \in 1 .. limit - Prefix - 1 : Valid(read_len_at(b, i))}

\* Offsets the resync scan accepts.
Candidates(b) ==
  LET limit == IF Len(b) < kMaxResyncScan + Prefix THEN Len(b) ELSE kMaxResyncScan + Prefix
  IN {i \in 1 .. limit - Prefix : Valid(read_len_at(b, i))}

\* Mutant: the limit on the buffer is not enforced.
NeverTooBig(b) == FALSE

TooBig(b) == Len(b) > ABSOLUTE_MAX_BUFFER

Wait(b) == [found |-> FALSE, msg |-> <<>>, left |-> b, invalid |-> FALSE]

\* A valid prefix at offset s: what is before it goes, and the message if it is
\* complete.
CutAt(b, s) ==
  LET len  == read_len_at(b, s)
      rest == SubSeq(b, s + 1, Len(b))
  IN IF Len(rest) >= Prefix + len
     THEN [found |-> TRUE, msg |-> SubSeq(rest, Prefix + 1, Prefix + len),
           left |-> SubSeq(rest, Prefix + len + 1, Len(rest)), invalid |-> FALSE]
     ELSE Wait(rest)

extract_message(b) ==
  CASE Len(b) < Prefix -> Wait(b)
    [] Len(b) >= Prefix /\ Valid(read_len_at(b, 0)) -> CutAt(b, 0)
    [] Len(b) >= Prefix /\ ~Valid(read_len_at(b, 0)) ->
         IF Candidates(b) # {}
         THEN CutAt(b, CHOOSE i \in Candidates(b) : \A j \in Candidates(b) : i <= j)
         ELSE IF TooBig(b) THEN [Wait(<<>>) EXCEPT !.invalid = TRUE] ELSE Wait(b)

-----------------------------------------------------------------------------
(* The reference: the messages of a stream s that arrives in one piece, as *)
(* a function of the position, without a buffer.                           *)

\* Positions from k on where a prefix may start, given what the scan reaches.
Starts(s, k) ==
  {i \in k .. k + kMaxResyncScan : i + 1 <= Len(s) /\ Valid(read_len_at(s, i - 1))}

Messages(s) ==
  LET from[k \in 1 .. Len(s) + 1] ==
        IF Starts(s, k) = {} THEN <<>>
        ELSE LET i == CHOOSE i \in Starts(s, k) : \A j \in Starts(s, k) : i <= j
                 e == i + Prefix + read_len_at(s, i - 1)
             IN IF e > Len(s) + 1 THEN <<>>
                ELSE <<SubSeq(s, i + Prefix, e - 1)>> \o from[e]
  IN from[1]
================================================================================
