------------------------------ MODULE MCSession ------------------------------
(* Instances of Session for TLC. *)
EXTENDS Session

CONSTANTS s1, s2

\* Bound on the second of two interchangeable goroutines that call Stop: it
\* comes second, and only to a PTY session that is not persistent, while both
\* processes live, no outbox was full and no PTY request was made.  (The death
\* of the host ends every Stop, also one that never began.)
SecondStop ==
  \A s \in Stoppers \ {s1} :
    spc[s] # "idle" /\ hpc # "dead" =>
      /\ spc[s1] # "idle" /\ PTYMode /\ ~Persistent
      /\ amain # "killed" /\ ~logged /\ requests = 0

\* Sets of process specs.
AllSpecs == [pty : BOOLEAN, persistent : BOOLEAN]
Piped == [pty : {FALSE}, persistent : BOOLEAN]
PipeOnly == [pty : {FALSE}, persistent : {FALSE}]
=============================================================================
