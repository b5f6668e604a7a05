----------------------------- MODULE RingBuffer -----------------------------
(* whale/ring_buffer.c: the byte queue between a recording and a playing     *)
(* thread.  `in' and `out' are free-running unsigned counters of Modulus     *)
(* values (2^32 in the code); a byte's place in the buffer is its counter    *)
(* modulo Size, and `x & (size - 1)' is x % Size because Size is a power of  *)
(* two.  Every call runs under ring_buf->lock from beginning to end, so one  *)
(* call is one step.                                                         *)
EXTENDS Naturals, Sequences, SequencesExt

CONSTANTS Size,      \* ring_buf->size
          Modulus,   \* the number of values of a uint32_t
          Samples,   \* the data, abstracted
          Zero,      \* the byte memset fills the buffer with
          MaxXfer    \* bound: the longest transfer one call asks for

ASSUME SizeAssumption == Size \in Nat \ {0}
\* A power of two that fits in an unsigned divides their number.
ASSUME ModulusAssumption == /\ Modulus \in Nat
                            /\ Modulus > Size
                            /\ Modulus % Size = 0
ASSUME SampleAssumption == Zero \in Samples
ASSUME XferAssumption == MaxXfer \in Nat

VARIABLES buffer, in, out,
          given,     \* the caller's data, if the last call was a put
          got        \* what was copied to the caller, if it was a get

vars == <<buffer, in, out, given, got>>

Places == 0 .. Size - 1

\* Unsigned addition and subtraction of two counters.
Plus(a, b) == IF a + b < Modulus THEN a + b ELSE a + b - Modulus
Minus(a, b) == IF a >= b THEN a - b ELSE Modulus + a - b

Smallest(a, b) == IF a < b THEN a ELSE b

BufferLen == Minus(in, out)

TypeOK == /\ buffer \in [Places -> Samples]
          /\ in \in 0 .. Modulus - 1
          /\ out \in 0 .. Modulus - 1
          /\ given \in Seq(Samples) /\ got \in Seq(Samples)

\* The counters never move more than the buffer's size apart, also across
\* the wrap of the unsigned counters: ring_buffer_len is a fill level.
LenBounded == BufferLen <= Size

-----------------------------------------------------------------------------
(* ring_buffer_init: an empty buffer with a delay of zero_size zeros in it.  *)
Init == /\ \E zero_size \in Places : in = zero_size
        /\ out = 0
        /\ buffer = [p \in Places |-> Zero]
        /\ given = <<>> /\ got = <<>>

(* The first memcpy fills the places from in to the end of the buffer, the   *)
(* second the rest from its beginning.                                       *)
CopyIn(data, size) ==
  LET at == in % Size
      len == Smallest(size, Size - at)
  IN  [p \in Places |-> IF p >= at /\ p < at + len THEN data[p - at + 1]
                        ELSE IF p < size - len THEN data[len + p + 1]
                        ELSE buffer[p]]

\* A plausible slip of Put: the copy to the beginning of the buffer is left out.
Put_ForgetsSecondCopy(data) ==
  LET size == Smallest(Len(data), Size - BufferLen)
      len == Smallest(size, Size - (in % Size))
  IN  /\ buffer' = CopyIn(data, len)
      /\ in' = Plus(in, size)
      /\ given' = data /\ got' = <<>>
      /\ UNCHANGED out

Put(data) ==
  LET size == Smallest(Len(data), Size - BufferLen)
  IN  /\ buffer' = CopyIn(data, size)
      /\ in' = Plus(in, size)
      /\ given' = data /\ got' = <<>>
      /\ UNCHANGED out

CopyOut(size) ==
  LET at == out % Size
      len == Smallest(size, Size - at)
  IN  [i \in 1 .. size |-> IF i <= len THEN buffer[at + i - 1] ELSE buffer[i - len - 1]]

(* A get that empties the buffer sets both counters back to 0.               *)
Get(n) ==
  LET size == Smallest(n, BufferLen)
      next == Plus(out, size)
  IN  /\ given' = <<>> /\ got' = CopyOut(size)
      /\ IF in = next THEN in' = 0 /\ out' = 0 ELSE out' = next /\ UNCHANGED in
      /\ UNCHANGED buffer

Next == \/ \E data \in BoundedSeq(Samples, MaxXfer) : Put(data)
        \/ \E n \in 0 .. MaxXfer : Get(n)

Spec == Init /\ [][Next]_vars

-----------------------------------------------------------------------------
(* What lies between out and in, oldest first.                               *)
Content == [i \in 1 .. BufferLen |-> buffer[Plus(out, i - 1) % Size]]

Fifo == INSTANCE BoundedFifo WITH content <- Content

\* The ring buffer is a bounded queue: no sample between out and in is lost,
\* overwritten, repeated or reordered, at the end of the buffer and at the
\* wrap of the counters too.
IsFifo == Fifo!FifoSpec
=============================================================================
