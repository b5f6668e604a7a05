---------------------------- MODULE BoundedFifo ----------------------------
(* What the ring buffer promises its users: a queue of at most Size samples. *)
(* A writer's samples enter in order, as many as fit; a reader gets the      *)
(* oldest samples, as many as it asked for or as there are.                  *)
EXTENDS Naturals, Sequences, SequencesExt

CONSTANTS Size, Samples, MaxXfer

VARIABLES content,   \* the samples written and not yet read, oldest first
          given,     \* what the last call handed over, if it was a put
          got        \* what the last call returned, if it was a get

fifoVars == <<content, given, got>>

Smaller(a, b) == IF a < b THEN a ELSE b

\* The queue starts with a delay of fewer than Size equal samples.
FifoInit == /\ \E d \in 0 .. Size - 1, s \in Samples : content = [i \in 1 .. d |-> s]
            /\ given = <<>> /\ got = <<>>

FifoPut(data) == /\ content' = content \o SubSeq(data, 1, Smaller(Len(data), Size - Len(content)))
                 /\ given' = data /\ got' = <<>>

FifoGet(n) == LET k == Smaller(n, Len(content)) IN
              /\ got' = SubSeq(content, 1, k)
              /\ content' = SubSeq(content, k + 1, Len(content))
              /\ given' = <<>>

FifoNext == \/ \E data \in BoundedSeq(Samples, MaxXfer) : FifoPut(data)
            \/ \E n \in 0 .. MaxXfer : FifoGet(n)

FifoSpec == FifoInit /\ [][FifoNext]_fifoVars
=============================================================================
