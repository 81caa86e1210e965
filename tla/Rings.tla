------------------------------- MODULE Rings -------------------------------
(***************************************************************************)
(* The two rings for recent output: that of a persistent agent             *)
(* (internal/agent/ringbuffer.go) and the byte ring of internal/logcollect *)
(* (ringbuf.go), fed the same writes.  Bytes are numbered in the order in  *)
(* which they are written.                                                 *)
(***************************************************************************)
EXTENDS Naturals, Sequences

CONSTANTS
  Capacities,  \* sizes the rings are made with
  MaxBytes     \* bound on the bytes written

ASSUME RingsAssumption == Capacities \subseteq Nat \ {0} /\ MaxBytes \in Nat

VARIABLES
  size,      \* capacity, 0 before the rings are made
  aring,     \* agent ringBuffer: data, head, full
  lring,     \* logcollect RingBuffer: data, head, size
  written    \* history: the number of bytes written

ringVars == <<size, aring, lring, written>>

RingsInit ==
  /\ size = 0 /\ written = 0
  /\ aring = [data |-> <<>>, head |-> 0, full |-> FALSE]
  /\ lring = [data |-> <<>>, head |-> 0, size |-> 0]

\* The bytes of a buffer with nothing in it; positions count from 0.
Zeroed(n) == [i \in 0 .. n - 1 |-> 0]

NewRings(n) ==
  /\ size = 0
  /\ size' = n
  /\ aring' = [aring EXCEPT !.data = Zeroed(n)]
  /\ lring' = [lring EXCEPT !.data = Zeroed(n)]
  /\ UNCHANGED written

LastBytes(p) == [i \in 0 .. size - 1 |-> p[Len(p) - size + i + 1]]

\* Mutant: a write that ends at the end of the buffer does not fill it.
BugFullOnWrap(head, p) == head + Len(p) > size

\* The write reached the end of the buffer.
FillsUp(head, p) == head + Len(p) >= size /\ Len(p) > 0

\* ringBuffer.Write: copy up to the end, then the remainder at the start.
AgentRingWrite(r, p) ==
  IF Len(p) >= size THEN [data |-> LastBytes(p), head |-> 0, full |-> TRUE]
  ELSE LET first == IF size - r.head < Len(p) THEN size - r.head ELSE Len(p) IN
       [data |-> [i \in 0 .. size - 1 |->
                    IF i < Len(p) - first THEN p[first + i + 1]
                    ELSE IF i \in r.head .. r.head + first - 1 THEN p[i - r.head + 1]
                    ELSE r.data[i]],
        head |-> (r.head + Len(p)) % size,
        full |-> r.full \/ FillsUp(r.head, p)]

\* From position lo up to, not including, hi.
Slice(data, lo, hi) == [i \in 1 .. hi - lo |-> data[lo + i - 1]]

AgentRingSnapshot(r) ==
  IF ~r.full THEN Slice(r.data, 0, r.head)
  ELSE Slice(r.data, r.head, size) \o Slice(r.data, 0, r.head)

\* RingBuffer.Write: byte by byte, wrapping.
LogRingWrite(r, p) ==
  IF Len(p) = 0 THEN r
  ELSE IF Len(p) >= size THEN [data |-> LastBytes(p), head |-> 0, size |-> size]
  ELSE [data |-> [i \in 0 .. size - 1 |->
                    LET k == (i + size - r.head) % size
                    IN IF k < Len(p) THEN p[k + 1] ELSE r.data[i]],
        head |-> (r.head + Len(p)) % size,
        size |-> IF r.size + Len(p) > size THEN size ELSE r.size + Len(p)]

LogRingSnapshot(r) ==
  IF r.size < size THEN Slice(r.data, 0, r.size)
  ELSE Slice(r.data, r.head, size) \o Slice(r.data, 0, r.head)

\* The next n bytes.
NextBytes(n) == [i \in 1 .. n |-> written + i]

WriteRings(n) ==
  /\ size > 0 /\ written + n <= MaxBytes
  /\ aring' = AgentRingWrite(aring, NextBytes(n))
  /\ lring' = LogRingWrite(lring, NextBytes(n))
  /\ written' = written + n
  /\ UNCHANGED size

RingsNext == (\E n \in Capacities : NewRings(n)) \/ (\E n \in 0 .. MaxBytes : WriteRings(n))

RingsSpec == RingsInit /\ [][RingsNext]_ringVars

-----------------------------------------------------------------------------
\* The last n bytes that were written, or all of them.
Latest(n) == LET m == IF written < n THEN written ELSE n IN [i \in 1 .. m |-> written - m + i]

\* Both rings give back the latest bytes, as many as they hold, in the order
\* in which they were written, wherever the writes wrapped.
RingsKeepLatest ==
  size > 0 =>
    /\ AgentRingSnapshot(aring) = Latest(size)
    /\ LogRingSnapshot(lring) = Latest(size)
=============================================================================
