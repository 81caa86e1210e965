--------------------------- MODULE ReattachOutput ---------------------------
(***************************************************************************)
(* What a reattached host sees of the child's output: the ring dump of the *)
(* handshake and the chunks that follow it live.                           *)
(***************************************************************************)
EXTENDS Reattach

\* The chunks of a dump, of the ring or of what was received, and those the
\* frames of a queue carry.
Chunks(s) == {s[i] : i \in DOMAIN s}

Carried(q) == UNION {Chunks(q[i].body) : i \in DOMAIN q}

Rising(s) == \A i, j \in DOMAIN s : i < j => s[i] < s[j]

Before(A, B) == \A a \in A, b \in B : a < b

\* The frames of q carry rising chunks, each frame newer ones than the last.
Successive(q) ==
  \A j \in DOMAIN q :
    /\ Rising(q[j].body)
    /\ \A i \in DOMAIN q : i < j => Before(Chunks(q[i].body), Chunks(q[j].body))

\* What h has received of the live output and what waits for it.
Live(h) == Chunks(recv[h]) \cup Carried(wire[h]) \cup Carried(queued[h])

\* Dump, received output, socket and outbox of h make one rising sequence.
OneSequence(h) ==
  /\ Rising(dump[h]) /\ Rising(recv[h]) /\ Successive(wire[h]) /\ Successive(queued[h])
  /\ Before(Chunks(dump[h]), Live(h))
  /\ Before(Chunks(recv[h]), Carried(wire[h]) \cup Carried(queued[h]))
  /\ Before(Carried(wire[h]), Carried(queued[h]))

\* The screen a host redraws from the dump and what follows live make one
\* sequence: chunks in order, none twice, live ones newer than the dump,
\* though the pump runs on during the handshake.  The pump queues a chunk
\* before it writes it to the ring, so that no chunk of a snapshot can still
\* be sent to the Conn adopted after it.
NoDuplicateOutput == \A h \in Hosts : host[h] \in {"start", "done"} => OneSequence(h)

\* Chunk n is older than everything the full ring of snapshot d holds.
Expired(d, n) == Len(d) = RingCap /\ n < Head(d)

\* Nothing else is lost: while a host is attached, every chunk the pump is
\* done with is older than the dump, in it, on its way or received, except
\* those that were picked for the previous Conn and came to the ring after
\* the snapshot, and those the outbox had no room for while the host was slow.
OnlyWindowIsLost ==
  \A h \in Hosts :
    (loop.pc = "wait" /\ loop.host = h /\ Attached(h)) =>
      \A n \in 1 .. out :
        \/ n \in Chunks(dump[h]) \cup Live(h) \cup between[h] \cup spilled[h] \cup {pump.n}
        \/ Expired(dump[h], n)

\* Reattaching is seamless: dump and live output fit together, without a
\* repetition, and without a loss but for the window of the handshake and an
\* outbox that is full.
OutputIsSeamless == NoDuplicateOutput /\ OnlyWindowIsLost
=============================================================================
