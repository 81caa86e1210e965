------------------------------ MODULE Buffers ------------------------------
(***************************************************************************)
(* The bounded buffers for output: the two rings, and beside them the      *)
(* chunk buffer behind the log commands (internal/logcollect/sink.go, with *)
(* --since and --lines), fed the same writes.  Some bytes are newlines.    *)
(***************************************************************************)
EXTENDS Rings, FiniteSets, SequencesExt

CONSTANT MaxWrites  \* bound on the writes

ASSUME BuffersAssumption == MaxWrites \in Nat

VARIABLES
  newlines,  \* the bytes that are newlines
  chunks,    \* chunkBuffer.chunks: bytes and time
  appended   \* history: every chunk appended, in order

bufVars == <<ringVars, newlines, chunks, appended>>

BuffersInit == RingsInit /\ newlines = {} /\ chunks = <<>> /\ appended = <<>>

Bytes(cs) == FlattenSeq([i \in DOMAIN cs |-> cs[i].bytes])

NewBuffers(n, nl) ==
  /\ NewRings(n)
  /\ newlines' = nl
  /\ UNCHANGED <<chunks, appended>>

OverBudget(cs) == Len(Bytes(cs)) > size /\ Len(cs) > 1

\* chunkBuffer.append: the eviction stops at the first chunk from which the
\* rest is within budget.
Evict(cs) ==
  LET from == CHOOSE i \in DOMAIN cs :
                /\ ~OverBudget(SubSeq(cs, i, Len(cs)))
                /\ \A j \in 1 .. i - 1 : OverBudget(SubSeq(cs, j, Len(cs)))
  IN SubSeq(cs, from, Len(cs))

\* A write of n bytes that arrives at the time of the last one or after it.
WriteBytes(n, later) ==
  LET at == IF appended = <<>> THEN 1 ELSE appended[Len(appended)].at + later
      c == [bytes |-> NextBytes(n), at |-> at]
  IN
  /\ Len(appended) < MaxWrites
  /\ WriteRings(n)
  /\ chunks' = Evict(Append(chunks, c))
  /\ appended' = Append(appended, c)
  /\ UNCHANGED newlines

BuffersNext ==
  \/ \E n \in Capacities, nl \in SUBSET (1 .. MaxBytes) : NewBuffers(n, nl)
  \/ \E n \in 0 .. MaxBytes, later \in {0, 1} : WriteBytes(n, later)

-----------------------------------------------------------------------------
\* The read side of the chunk buffer.

lineCount(buf) ==
  Cardinality({i \in DOMAIN buf : buf[i] \in newlines})
    + IF buf[Len(buf)] \in newlines THEN 0 ELSE 1

lastNLines(buf, n) ==
  IF n = 0 \/ buf = <<>> \/ n >= lineCount(buf) THEN buf
  ELSE LET nl == {i \in DOMAIN buf : buf[i] \in newlines}
           cut == CHOOSE i \in nl : Cardinality({j \in nl : j <= i}) = lineCount(buf) - n
       IN SubSeq(buf, cut + 1, Len(buf))

\* since = 0 is the zero time: no filter.
snapshotFiltered(since, lines) ==
  LET old == {i \in DOMAIN chunks : since > 0 /\ \A j \in 1 .. i : chunks[j].at < since}
  IN lastNLines(Bytes(SubSeq(chunks, Cardinality(old) + 1, Len(chunks))), lines)

-----------------------------------------------------------------------------
\* The chunk buffer holds the most recent chunks, as many as its budget
\* allows: one chunk more would be too much, and the last one is always there.
ChunksKeepLatest ==
  LET n == Len(appended) - Len(chunks) IN
  appended # <<>> =>
    /\ Bytes(appended) = Latest(written)
    /\ chunks # <<>> /\ chunks = SubSeq(appended, n + 1, Len(appended))
    /\ Len(chunks) = 1 \/ Len(Bytes(chunks)) <= size
    /\ n > 0 => \E i \in n + 1 .. Len(appended) : Len(Bytes(SubSeq(appended, n, i))) > size

\* --since and --lines pick the bytes that arrived no earlier and belong to
\* the last lines, where an unfinished line counts as one.
FilterIsExact ==
  chunks # <<>> => \A since \in 0 .. MaxWrites + 1, lines \in 0 .. 2 :
    LET recent == SelectSeq(chunks, LAMBDA c : c.at >= since)
        all == Bytes(recent)
        after(b) == Cardinality({i \in DOMAIN all : all[i] >= b /\ i < Len(all) /\ all[i] \in newlines})
    IN snapshotFiltered(since, lines) = SelectSeq(all, LAMBDA b : lines = 0 \/ after(b) < lines)

\* The three buffers agree with a plain sequence of the bytes written, cut off
\* at their capacity and filtered.
BuffersKeepLatest == RingsKeepLatest /\ ChunksKeepLatest /\ FilterIsExact
=============================================================================
