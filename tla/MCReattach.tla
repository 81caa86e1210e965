------------------------------ MODULE MCReattach ------------------------------
(* The host that spawned the agent and two that reattach, one after the      *)
(* other or at once, while the child writes more than the ring holds.        *)
EXTENDS ReattachOutput

CONSTANTS h1, h2, b

\* The hosts are interchangeable: h1 is the one that dials first and, as the
\* backlog of the listener is a queue, the one that is accepted first.  h2
\* begins when h1 has dialled, having read the meta.json of this agent; an
\* attempt that ends before the dial is not followed further, as nothing but
\* its result differs from a run without it.  The child's first chunk has been read
\* when h1 dials, and nobody looks at whether b has left.
InTurn ==
  /\ host[h2] # "idle" => agentEnd[h1] # "none" /\ ~stale[h1]
  /\ agentEnd[h2] \in {"open", "closed"} => agentEnd[h1] # "backlog"
  /\ \A h \in Hosts : host[h] \in {"idle", "pid", "dial"} \/ hostEnd[h] # "none"
  /\ agentEnd[h1] # "none" => out > 0
  /\ hostEnd[b] = "open"
=============================================================================
