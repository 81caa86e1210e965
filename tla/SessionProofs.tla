---------------------------- MODULE SessionProofs ----------------------------
(***************************************************************************)
(* What Session promises, for every set of goroutines that call Stop,      *)
(* every set of specs, any bound on PTY requests, with or without deaths   *)
(* of host and agent and full outboxes.  The argument follows the two      *)
(* streams of frames: START_CHILD goes out once, ahead of every STOP_CHILD *)
(* and is the only frame numbered 1; the agent says that the child started *)
(* before it says how it ended, and that before it acks a STOP_CHILD.      *)
(***************************************************************************)
EXTENDS Session, TLAPS

HostFrames ==
  [type : {"query", "stop", "pty"}, id : Nat] \cup [type : {"start"}, id : {1}]

AgentFrames ==
  [type : {"caps", "started", "exitZero", "exitOther", "fatal", "transient", "ack"}, id : Nat]

\* The types of what the proof counts with and of the queues.
TypeInv ==
  /\ nextId \in Nat /\ acked \subseteq Nat /\ acur \in Nat
  /\ spc \in [Stoppers -> {"idle", "mark", "send", "await", "poll", "already", "acked",
                           "sent", "err"}]
  /\ stopId \in [Stoppers -> Nat]
  /\ hout \in Seq(HostFrames) /\ hwire \in Seq(HostFrames)
  /\ aout \in Seq(AgentFrames) /\ awire \in Seq(AgentFrames)
  /\ logged \in BOOLEAN

-----------------------------------------------------------------------------
(* Streams of frames *)

\* A frame of T is in the queue s.
Has(s, T) == \E i \in DOMAIN s : s[i] \in T

\* In the queue s no frame of U comes after one of T.
Ends(s, T, U) == \A i, j \in DOMAIN s : i < j /\ s[i] \in T => s[j] \notin U

\* In the queue s every frame of U comes after one of T.
Leads(s, T, U) == \A j \in DOMAIN s : s[j] \in U => \E i \in DOMAIN s : i < j /\ s[i] \in T

Starts == {f \in HostFrames : f.type = "start"}
Orders == {f \in HostFrames : f.type \in {"start", "stop"}}
Startups == {f \in AgentFrames : f.type = "started"}
Finals == {f \in AgentFrames : f.type \in {"exitZero", "exitOther", "fatal"}}
StopAcks == {f \in AgentFrames : f.type = "ack" /\ f.id >= 2}

-----------------------------------------------------------------------------
(* The inductive invariant *)

\* Start has not sent START_CHILD.
Unsent == hpc \in {"idle", "spawn", "negotiate", "sendStart", "abort"}

\* The runner has said its last word.
Final == rn \in {"reported", "done"}

\* Where the goroutines are, relative to each other and to the child.
ControlInv ==
  /\ hpc \in {"idle", "spawn"} =>
       hstate \in {"Pending", "Starting"} /\ hconn = "none" /\ amain = "none"
  /\ Unsent => nextId = 1 /\ rn = "none"
  /\ hpc \in {"refuse", "reap", "started"} => nextId >= 2
  /\ cancelFn <=> rn \notin {"none", "done"}
  /\ rn \in {"none", "launch"} => child = "none"
  /\ rn \in {"started", "register", "wait"} => child \in {"running", "dead"}
  /\ rn = "reaped" => child = "dead"
  /\ Final => child # "running"
  /\ shutdownReq => rn = "done"
  /\ amain \in {"drain", "close", "join", "returned"} => sigterm \/ shutdownReq

\* START_CHILD is sent at most once and ahead of every STOP_CHILD.
OrderInv ==
  /\ Unsent => ~Has(hout, Orders) /\ ~Has(hwire, Orders)
  /\ rn # "none" => ~Has(hout, Starts) /\ ~Has(hwire, Starts)
  /\ Ends(hout, Orders, Starts) /\ Ends(hwire, Orders, Starts)
  /\ Has(hwire, Orders) => ~Has(hout, Starts)

\* The child is over and no other will follow.
Quiet ==
  /\ child # "running" /\ rn \in {"none", "done"} /\ ~Unsent
  /\ ~Has(hout, Starts) /\ ~Has(hwire, Starts)

\* A STOP_CHILD is acked when it is over, and Stop goes by its own ack.
QuietInv ==
  /\ arpc = "ack" /\ acur >= 2 => Quiet
  /\ Has(aout, StopAcks) \/ Has(awire, StopAcks) => Quiet
  /\ \A n \in acked : n >= 2 => Quiet

StopInv ==
  \A s \in Stoppers :
    /\ spc[s] \in {"mark", "send", "await", "poll"} => hpc = "started"
    /\ spc[s] = "await" => stopId[s] >= 2
    /\ spc[s] = "acked" \/ (spc[s] = "poll" /\ caps) => stopId[s] >= 2 /\ stopId[s] \in acked

\* The agent's word that the child started comes before the one that it ended.
NewsInv ==
  /\ rn \in {"none", "launch", "started"} => ~Has(aout, Startups) /\ ~Has(awire, Startups)
  /\ Has(aout, Finals) \/ Has(awire, Finals) => Final
  /\ Ends(aout, Finals, Startups) /\ Ends(awire, Finals, Startups)
  /\ Has(awire, Finals) => ~Has(aout, Startups)

\* No word that the child started is still to come.
NoStartup == Final /\ ~Has(aout, Startups) /\ ~Has(awire, Startups)

\* What the host believes.
BeliefInv ==
  /\ verdict # "none" => verdict # "Running" /\ hconn = "open" /\ NoStartup
  /\ ended => hstate # "Running" /\ hpc \notin {"idle", "spawn"} /\ (hconn = "open" => NoStartup)
  /\ hstate = "Stopped" \/ (hstate = "Crashed" /\ ~lost) =>
       child # "running" /\ hpc \notin {"idle", "spawn"} /\ (Up => Final)

\* The host knows of the child's end, or will not be told in order.
Told == ended \/ logged \/ verdict # "none" \/ hconn # "open"

\* The word that the child ended comes before the ack of a STOP_CHILD.
ReportInv ==
  child = "dead" =>
    /\ Final => Told \/ Has(awire, Finals) \/ Has(aout, Finals) \/ aconn # "open"
    /\ Told \/ Leads(awire, Finals, StopAcks)
    /\ Told \/ Has(awire, Finals) \/ Leads(aout, Finals, StopAcks)
    /\ \A n \in acked : n >= 2 => ended \/ logged

Inv ==
  /\ ControlInv /\ OrderInv /\ QuietInv /\ StopInv /\ NewsInv /\ BeliefInv /\ ReportInv

-----------------------------------------------------------------------------
(* What adding to and taking from a queue does to Has, Ends and Leads      *)

\* An empty queue has, ends and leads nothing.
LEMMA EmptyQueue ==
  ASSUME NEW T, NEW U
  PROVE  ~Has(<<>>, T) /\ Ends(<<>>, T, U) /\ Leads(<<>>, T, U)
  BY DEF Has, Ends, Leads

\* A queue without a frame of U has none to be led.
LEMMA NothingToLead ==
  ASSUME NEW s, NEW T, NEW U, ~Has(s, U)
  PROVE  Leads(s, T, U)
  BY Zenon DEF Has, Leads

\* Where the frames of Append(s, x) are.
LEMMA AppendAt ==
  ASSUME NEW S, NEW s \in Seq(S), NEW x \in S
  PROVE  /\ Append(s, x) \in Seq(S) /\ DOMAIN s \subseteq DOMAIN Append(s, x)
         /\ \A i \in DOMAIN s : Append(s, x)[i] = s[i] /\ i < Len(s) + 1
         /\ Len(s) + 1 \in DOMAIN Append(s, x) /\ Append(s, x)[Len(s) + 1] = x
         /\ \A i \in DOMAIN Append(s, x) : i \in DOMAIN s \/ i = Len(s) + 1
         /\ \A i \in DOMAIN s : ~(Len(s) + 1 < i)
         /\ ~(Len(s) + 1 < Len(s) + 1)
  OBVIOUS

\* Where the frames of a queue are once its first one is taken.
LEMMA TailAt ==
  ASSUME NEW S, NEW s \in Seq(S), s # <<>>
  PROVE  /\ Head(s) \in S /\ Tail(s) \in Seq(S)
         /\ 1 \in DOMAIN s /\ s[1] = Head(s) /\ \A i \in DOMAIN s : ~(i < 1)
         /\ \A i \in DOMAIN Tail(s) : i + 1 \in DOMAIN s /\ Tail(s)[i] = s[i + 1] /\ 1 < i + 1
         /\ \A i, j \in DOMAIN Tail(s) : i < j <=> i + 1 < j + 1
         /\ \A i \in DOMAIN s :
              i = 1 \/ (i - 1 \in DOMAIN Tail(s) /\ Tail(s)[i - 1] = s[i] /\ (i - 1) + 1 = i)
  OBVIOUS

\* A queue to which a frame is added has that frame too.
LEMMA AppendHas ==
  ASSUME NEW S, NEW s \in Seq(S), NEW x \in S, NEW T
  PROVE  Has(Append(s, x), T) <=> Has(s, T) \/ x \in T
  BY AppendAt DEF Has

\* Order in a queue to the end of which a frame is added.
LEMMA AppendQueue ==
  ASSUME NEW S, NEW s \in Seq(S), NEW x \in S, NEW T, NEW U
  PROVE  /\ Ends(s, T, U) /\ (x \in U => ~Has(s, T)) => Ends(Append(s, x), T, U)
         /\ Leads(s, T, U) /\ (x \in U => Has(s, T)) => Leads(Append(s, x), T, U)
  <1> USE AppendAt
  <1>1. ASSUME Ends(s, T, U), x \in U => ~Has(s, T) PROVE Ends(Append(s, x), T, U)
    BY <1>1 DEF Has, Ends
  <1>2. ASSUME Leads(s, T, U), x \in U => Has(s, T) PROVE Leads(Append(s, x), T, U)
    BY <1>2 DEF Has, Leads
  <1> QED
    BY Zenon, <1>1, <1>2

\* The first frame of a queue is taken.
LEMMA TailQueue ==
  ASSUME NEW S, NEW s \in Seq(S), s # <<>>, NEW T, NEW U
  PROVE  /\ Has(s, T) <=> Has(Tail(s), T) \/ Head(s) \in T
         /\ Ends(s, T, U) => Ends(Tail(s), T, U) /\ (Head(s) \in T => ~Has(Tail(s), U))
         /\ Leads(s, T, U) => Head(s) \notin U /\ (Head(s) \in T \/ Leads(Tail(s), T, U))
  <1>0. /\ 1 \in DOMAIN s /\ s[1] = Head(s)
        /\ \A i \in DOMAIN Tail(s) : i + 1 \in DOMAIN s /\ Tail(s)[i] = s[i + 1]
        /\ \A i \in DOMAIN s : i = 1 \/ (i - 1 \in DOMAIN Tail(s) /\ Tail(s)[i - 1] = s[i])
    BY Zenon, TailAt
  <1>1. Has(s, T) <=> Has(Tail(s), T) \/ Head(s) \in T
    <2>1. ASSUME Has(s, T) PROVE Has(Tail(s), T) \/ Head(s) \in T
      <3>1. PICK i \in DOMAIN s : s[i] \in T
        BY Zenon, <2>1 DEF Has
      <3> QED
        BY Zenon, <1>0, <3>1 DEF Has
    <2>2. ASSUME Has(Tail(s), T) \/ Head(s) \in T PROVE Has(s, T)
      BY Zenon, <1>0, <2>2 DEF Has
    <2> QED
      BY Zenon, <2>1, <2>2
  <1>2. ASSUME Ends(s, T, U) PROVE Ends(Tail(s), T, U) /\ (Head(s) \in T => ~Has(Tail(s), U))
    BY <1>2, TailAt DEF Has, Ends
  <1>3. ASSUME Leads(s, T, U)
        PROVE  Head(s) \notin U /\ (Head(s) \in T \/ Leads(Tail(s), T, U))
    <2>1. Head(s) \notin U
      BY Zenon, <1>3, TailAt DEF Leads
    <2>2. ASSUME Head(s) \notin T, NEW j \in DOMAIN Tail(s), Tail(s)[j] \in U
          PROVE  \E i \in DOMAIN Tail(s) : i < j /\ Tail(s)[i] \in T
      <3>1. j + 1 \in DOMAIN s /\ s[j + 1] \in U
        BY Zenon, <1>0, <2>2
      <3>2. PICK i \in DOMAIN s : i < j + 1 /\ s[i] \in T
        BY Zenon, <1>3, <3>1 DEF Leads
      <3>3. i - 1 \in DOMAIN Tail(s) /\ Tail(s)[i - 1] \in T
        BY Zenon, <1>0, <2>2, <3>2
      <3>4. i - 1 < j
        BY <3>2, TailAt
      <3> QED
        BY Zenon, <3>3, <3>4
    <2> QED
      BY Zenon, <2>1, <2>2 DEF Leads
  <1> QED
    BY Zenon, <1>1, <1>2, <1>3

-----------------------------------------------------------------------------
(* Sending *)

\* Which frames the two sides send, and what each kind counts as.
LEMMA Kinds ==
  /\ \A n \in Nat, t \in {"query", "stop", "pty"} :
       Frame(t, n) \in HostFrames /\ Frame(t, n) \notin Starts
  /\ \A n \in Nat, t \in {"query", "pty"} : Frame(t, n) \notin Orders
  /\ Frame("start", 1) \in HostFrames
  /\ \A n \in Nat, t \in {"caps", "started", "exitZero", "exitOther", "fatal", "transient", "ack"} :
       /\ Frame(t, n) \in AgentFrames
       /\ Frame(t, n) \in Startups <=> t = "started"
       /\ Frame(t, n) \in Finals <=> t \in {"exitZero", "exitOther", "fatal"}
       /\ Frame(t, n) \in StopAcks <=> t = "ack" /\ n >= 2
  BY DEF Frame, HostFrames, AgentFrames, Starts, Orders, Startups, Finals, StopAcks

\* SendWithNewSeq leaves the host's outbox as it was or with the frame at its end.
LEMMA HostSends ==
  ASSUME TypeInv, NEW f \in HostFrames, HostSend(f)
  PROVE  /\ hout' \in Seq(HostFrames) /\ logged' \in BOOLEAN /\ (logged => logged')
         /\ Has(hout', Orders) => Has(hout, Orders) \/ f \in Orders
         /\ Has(hout', Starts) => Has(hout, Starts) \/ f \in Starts
         /\ Ends(hout, Orders, Starts) /\ (f \in Starts => ~Has(hout, Orders))
              => Ends(hout', Orders, Starts)
  <1>1. hout \in Seq(HostFrames) /\ logged \in BOOLEAN
    BY Zenon DEF TypeInv
  <1>2. /\ hout' = hout \/ hout' = Append(hout, f)
        /\ logged' = logged \/ logged' = TRUE
    BY Zenon DEF HostSend
  <1>3. logged' \in BOOLEAN /\ (logged => logged')
    <2>1. CASE logged' = logged
      BY Zenon, <1>1, <2>1
    <2>2. CASE logged' = TRUE
      BY Zenon, <2>2
    <2> QED
      BY Zenon, <1>2, <2>1, <2>2
  <1>4. CASE hout' = Append(hout, f)
    <2>1. hout' \in Seq(HostFrames)
      BY Zenon, <1>1, <1>4, AppendAt
    <2>2. /\ Has(hout', Orders) <=> Has(hout, Orders) \/ f \in Orders
          /\ Has(hout', Starts) <=> Has(hout, Starts) \/ f \in Starts
      BY Zenon, <1>1, <1>4, AppendHas
    <2>3. Ends(hout, Orders, Starts) /\ (f \in Starts => ~Has(hout, Orders))
            => Ends(hout', Orders, Starts)
      BY Zenon, <1>1, <1>4, AppendQueue
    <2> QED
      BY Zenon, <1>3, <2>1, <2>2, <2>3
  <1>5. CASE hout' = hout
    BY Zenon, <1>1, <1>3, <1>5
  <1> QED
    BY Zenon, <1>2, <1>4, <1>5

\* SendControl leaves the agent's outbox as it was or with the frame at its end;
\* it leaves the frame out only when it is logged or nobody listens.
LEMMA AgentSends ==
  ASSUME TypeInv, NEW f \in AgentFrames, SendControl(f)
  PROVE  /\ aout' \in Seq(AgentFrames) /\ logged' \in BOOLEAN /\ (logged => logged')
         /\ Has(aout', Startups) => Has(aout, Startups) \/ f \in Startups
         /\ Has(aout', Finals) => Has(aout, Finals) \/ f \in Finals
         /\ Has(aout', StopAcks) => Has(aout, StopAcks) \/ f \in StopAcks
         /\ Has(aout, Finals) => Has(aout', Finals)
         /\ f \in Finals => logged' \/ aconn # "open" \/ Has(aout', Finals)
         /\ Ends(aout, Finals, Startups) /\ (f \in Startups => ~Has(aout, Finals))
              => Ends(aout', Finals, Startups)
         /\ Leads(aout, Finals, StopAcks) /\ (f \in StopAcks => aconn # "open" \/ Has(aout, Finals))
              => Leads(aout', Finals, StopAcks)
  <1>1. aout \in Seq(AgentFrames) /\ logged \in BOOLEAN
    BY Zenon DEF TypeInv
  <1>2. \/ aconn = "open" /\ aout' = Append(aout, f) /\ logged' = logged
        \/ aout' = aout /\ (logged' = TRUE \/ (aconn # "open" /\ logged' = logged))
    BY Zenon DEF SendControl
  <1>3. CASE aconn = "open" /\ aout' = Append(aout, f) /\ logged' = logged
    <2>1. aout' \in Seq(AgentFrames)
      BY Zenon, <1>1, <1>3, AppendAt
    <2>2. /\ Has(aout', Startups) <=> Has(aout, Startups) \/ f \in Startups
          /\ Has(aout', Finals) <=> Has(aout, Finals) \/ f \in Finals
          /\ Has(aout', StopAcks) <=> Has(aout, StopAcks) \/ f \in StopAcks
      BY Zenon, <1>1, <1>3, AppendHas
    <2>3. Ends(aout, Finals, Startups) /\ (f \in Startups => ~Has(aout, Finals))
            => Ends(aout', Finals, Startups)
      BY Zenon, <1>1, <1>3, AppendQueue
    <2>4. Leads(aout, Finals, StopAcks) /\ (f \in StopAcks => Has(aout, Finals))
            => Leads(aout', Finals, StopAcks)
      BY Zenon, <1>1, <1>3, AppendQueue
    <2> QED
      BY Zenon, <1>1, <1>3, <2>1, <2>2, <2>3, <2>4
  <1>4. CASE aout' = aout /\ (logged' = TRUE \/ (aconn # "open" /\ logged' = logged))
    BY Zenon, <1>1, <1>4
  <1> QED
    BY Zenon, <1>2, <1>3, <1>4

-----------------------------------------------------------------------------
(* One step *)

\* The types hold after a step that sends nothing, stores no ack and leaves Stop alone.
LEMMA TypeKept ==
  ASSUME TypeInv, UNCHANGED <<stopVars, wireVars, acur>>
  PROVE  TypeInv'
  BY Zenon DEF TypeInv, stopVars, wireVars

\* Which parts of the state each part of the invariant is about.
LEMMA Undisturbed ==
  /\ /\ ControlInv
     /\ UNCHANGED <<hpc, hstate, hconn, amain, nextId, rn, cancelFn, child, shutdownReq, sigterm>>
     => ControlInv'
  /\ OrderInv /\ UNCHANGED <<hpc, rn, hout, hwire>> => OrderInv'
  /\ /\ QuietInv
     /\ UNCHANGED <<hpc, rn, child, arpc, acur, hout, hwire, aout, awire, acked>>
     => QuietInv'
  /\ StopInv /\ UNCHANGED <<hpc, spc, stopId, caps, acked>> => StopInv'
  /\ NewsInv /\ UNCHANGED <<rn, aout, awire>> => NewsInv'
  /\ /\ BeliefInv
     /\ UNCHANGED <<hpc, hstate, lost, hconn, verdict, amain, rn, child, aout, awire, ended>>
     => BeliefInv'
  /\ /\ ReportInv
     /\ UNCHANGED <<rn, child, verdict, hconn, aconn, aout, awire, acked, ended, logged>>
     => ReportInv'
  BY DEF ControlInv, OrderInv, QuietInv, StopInv, NewsInv, BeliefInv, ReportInv,
         Unsent, Final, Quiet, NoStartup, Told, Up, Gone

\* Start keeps the invariant; the START_CHILD it sends is numbered 1 and the first order.
LEMMA StartInv ==
  ASSUME TypeInv, Inv, StartStep
  PROVE  TypeInv' /\ Inv'
  <1> USE DEF Inv, hostVars, stopVars, wireVars, mainVars, handVars, runVars, childVars, histVars
  <1>1. CASE StartBegin
    BY Zenon, <1>1, TypeKept, Undisturbed
       DEF StartBegin, ControlInv, OrderInv, QuietInv, StopInv, BeliefInv, Unsent, Final,
           Quiet, NoStartup, Up, Gone
  <1>2. CASE Spawn
    <2>1. Frame("query", 0) \in HostFrames /\ Frame("query", 0) \notin Orders
      BY Zenon, Kinds
    <2>2. Frame("query", 0) \notin Starts
      BY Zenon, Kinds
    <2>3. HostSend(Frame("query", 0))
      BY Zenon, <1>2 DEF Spawn
    <2>4. /\ hout' \in Seq(HostFrames) /\ logged' \in BOOLEAN /\ (logged => logged')
          /\ Has(hout', Orders) => Has(hout, Orders)
          /\ Has(hout', Starts) => Has(hout, Starts)
          /\ Ends(hout, Orders, Starts) => Ends(hout', Orders, Starts)
      BY Zenon, <2>1, <2>2, <2>3, HostSends
    <2>5. TypeInv'
      BY Zenon, <1>2, <2>4 DEF Spawn, AgentBoots, TypeInv
    <2>6. NewsInv'
      BY Zenon, <1>2, <2>4, Undisturbed DEF Spawn, AgentBoots
    <2>7. ControlInv' /\ OrderInv'
      BY Zenon, <1>2, <2>4 DEF Spawn, AgentBoots, ControlInv, OrderInv, Unsent, Final
    <2>8. QuietInv' /\ StopInv'
      BY Zenon, <1>2, <2>4 DEF Spawn, AgentBoots, QuietInv, StopInv, Unsent, Quiet
    <2>9. BeliefInv'
      BY Zenon, <1>2, <2>4 DEF Spawn, AgentBoots, BeliefInv, Final, NoStartup, Up, Gone
    <2>10. ReportInv'
      BY Zenon, <1>2, <2>4 DEF Spawn, AgentBoots, ControlInv, ReportInv, Unsent, Final, Told
    <2> QED
      BY Zenon, <2>5, <2>6, <2>7, <2>8, <2>9, <2>10
  <1>3. CASE SpawnFails
    BY Zenon, <1>3, TypeKept, Undisturbed
       DEF SpawnFails, ControlInv, OrderInv, QuietInv, StopInv, BeliefInv, Unsent, Final,
           Quiet, NoStartup, Up, Gone
  <1>4. CASE ConnFails
    BY Zenon, <1>4, TypeKept, Undisturbed
       DEF ConnFails, TerminateAgent, AgentBoots, ControlInv, OrderInv, QuietInv, StopInv,
           BeliefInv, Unsent, Final, Quiet, NoStartup, Up, Gone
  <1>5. CASE NegotiateReply
    BY Zenon, <1>5, TypeKept, Undisturbed
       DEF NegotiateReply, ControlInv, OrderInv, QuietInv, StopInv, BeliefInv, Unsent, Final,
           Quiet, NoStartup, Up, Gone
  <1>6. CASE NegotiateTimeout
    BY Zenon, <1>6, TypeKept, Undisturbed
       DEF NegotiateTimeout, TerminateAgent, ControlInv, OrderInv, QuietInv, StopInv,
           BeliefInv, Unsent, Final, Quiet, NoStartup, Up, Gone
  <1>7. CASE NegotiateCtxDone
    BY Zenon, <1>7, TypeKept, Undisturbed
       DEF NegotiateCtxDone, TerminateAgent, ControlInv, OrderInv, QuietInv, StopInv,
           BeliefInv, Unsent, Final, Quiet, NoStartup, Up, Gone
  <1>8. CASE SendStartChild
    <2>1. nextId = 1 /\ ~Has(hout, Orders)
      BY Zenon, <1>8 DEF SendStartChild, ControlInv, OrderInv, Unsent
    <2>2. Frame("start", 1) \in HostFrames /\ HostSend(Frame("start", 1))
      BY Zenon, <1>8, <2>1, Kinds DEF SendStartChild
    <2>3. /\ hout' \in Seq(HostFrames) /\ logged' \in BOOLEAN /\ (logged => logged')
          /\ Ends(hout', Orders, Starts)
      BY Zenon, <2>1, <2>2, HostSends DEF OrderInv
    <2>4. TypeInv'
      BY <1>8, <2>1, <2>3 DEF SendStartChild, TypeInv
    <2>5. NewsInv'
      BY Zenon, <1>8, <2>1, <2>3, Undisturbed DEF SendStartChild
    <2>6. ControlInv' /\ OrderInv'
      BY <1>8, <2>1, <2>3 DEF SendStartChild, ControlInv, OrderInv, Unsent, Final
    <2>7. QuietInv' /\ StopInv'
      BY Zenon, <1>8, <2>1, <2>3 DEF SendStartChild, QuietInv, StopInv, Unsent, Quiet
    <2>8. BeliefInv'
      BY Zenon, <1>8, <2>1, <2>3 DEF SendStartChild, BeliefInv, Final, NoStartup, Up, Gone
    <2>9. ReportInv'
      BY Zenon, <1>8, <2>1, <2>3 DEF SendStartChild, ReportInv, Final, Told
    <2> QED
      BY Zenon, <2>4, <2>5, <2>6, <2>7, <2>8, <2>9
  <1>9. CASE RefusePersistent
    <2>1. ~Has(<<>>, Orders) /\ ~Has(<<>>, Starts) /\ Ends(<<>>, Orders, Starts)
      BY Zenon, EmptyQueue
    <2>2. TypeInv'
      BY <1>9, <2>1 DEF RefusePersistent, TerminateAgent, TypeInv
    <2>3. NewsInv'
      BY Zenon, <1>9, <2>1, Undisturbed DEF RefusePersistent, TerminateAgent
    <2>4. ControlInv' /\ OrderInv'
      BY Zenon, <1>9, <2>1
         DEF RefusePersistent, TerminateAgent, ControlInv, OrderInv, Unsent, Final
    <2>5. QuietInv' /\ StopInv'
      BY Zenon, <1>9, <2>1 DEF RefusePersistent, TerminateAgent, QuietInv, StopInv, Unsent, Quiet
    <2>6. BeliefInv'
      BY Zenon, <1>9, <2>1
         DEF RefusePersistent, TerminateAgent, BeliefInv, Final, NoStartup, Up, Gone
    <2>7. ReportInv'
      BY Zenon, <1>9, <2>1 DEF RefusePersistent, TerminateAgent, ReportInv, Final, Told
    <2> QED
      BY Zenon, <2>2, <2>3, <2>4, <2>5, <2>6, <2>7
  <1>10. CASE StartFails
    <2>1. TypeInv' /\ NewsInv' /\ ReportInv'
      BY Zenon, <1>10, TypeKept, Undisturbed DEF StartFails
    <2>2. ControlInv' /\ OrderInv' /\ QuietInv' /\ StopInv'
      BY Zenon, <1>10
         DEF StartFails, ControlInv, OrderInv, QuietInv, StopInv, Unsent, Final, Quiet
    <2>3. BeliefInv'
      BY Zenon, <1>10 DEF StartFails, ControlInv, BeliefInv, Unsent, Final, NoStartup, Up, Gone
    <2> QED
      BY Zenon, <2>1, <2>2, <2>3
  <1> QED
    BY Zenon, <1>1, <1>2, <1>3, <1>4, <1>5, <1>6, <1>7, <1>8, <1>9, <1>10 DEF StartStep

\* Stop keeps it: only an ack of the call's own STOP_CHILD makes it return nil.
LEMMA StopKeeps ==
  ASSUME TypeInv, Inv, NEW s \in Stoppers, StopStep(s)
  PROVE  TypeInv' /\ Inv'
  <1> USE DEF Inv, hostVars, stopVars, wireVars, mainVars, handVars, runVars, childVars, histVars
  <1>1. CASE StopEnter(s)
    <2>1. TypeInv'
      BY Zenon, <1>1 DEF StopEnter, TypeInv
    <2>2. ControlInv' /\ OrderInv' /\ QuietInv' /\ NewsInv' /\ BeliefInv' /\ ReportInv'
      BY Zenon, <1>1, Undisturbed DEF StopEnter
    <2>3. StopInv'
      BY <1>1 DEF StopEnter, StopInv
    <2> QED
      BY Zenon, <2>1, <2>2, <2>3
  <1>2. CASE StopMark(s)
    <2>1. TypeInv'
      BY Zenon, <1>2 DEF StopMark, TypeInv
    <2>2. OrderInv' /\ QuietInv' /\ NewsInv' /\ ReportInv'
      BY Zenon, <1>2, Undisturbed DEF StopMark
    <2>3. ControlInv'
      BY <1>2
         DEF StopMark, ControlInv, OrderInv, QuietInv, StopInv, NewsInv, BeliefInv, Unsent,
             Final, Quiet, NoStartup, Up, Gone
    <2>4. StopInv'
      BY <1>2 DEF StopMark, StopInv
    <2>5. BeliefInv'
      BY Zenon, <1>2 DEF StopMark, BeliefInv, Final, NoStartup, Up, Gone
    <2> QED
      BY Zenon, <2>1, <2>2, <2>3, <2>4, <2>5
  <1>3. CASE StopSend(s)
    <2>1. CASE AgentSupports /\ hconn = "closed"
      <3>1. spc' = [spc EXCEPT ![s] = "err"] /\ UNCHANGED <<hout, logged, nextId, stopId>>
        BY Zenon, <1>3, <2>1 DEF StopSend
      <3>2. UNCHANGED <<hostVars, acked, hwire, aout, awire, mainVars, handVars, runVars, childVars,
                        histVars>>
        BY Zenon, <1>3 DEF StopSend
      <3>3. TypeInv'
        BY Zenon, <3>1, <3>2 DEF TypeInv
      <3>4. ControlInv' /\ OrderInv' /\ QuietInv' /\ NewsInv' /\ BeliefInv' /\ ReportInv'
        BY Zenon, <3>1, <3>2, Undisturbed
      <3>5. StopInv'
        BY <3>1, <3>2 DEF StopInv
      <3> QED
        BY Zenon, <3>3, <3>4, <3>5
    <2>2. CASE ~(AgentSupports /\ hconn = "closed")
      <3>1. nextId \in Nat /\ nextId >= 2
        BY Zenon, <1>3 DEF StopSend, TypeInv, ControlInv, StopInv
      <3>2. Frame("stop", nextId) \in HostFrames /\ Frame("stop", nextId) \notin Starts
        BY Zenon, <3>1, Kinds
      <3>3. HostSend(Frame("stop", nextId))
        BY Zenon, <1>3, <2>2 DEF StopSend
      <3>4. /\ hout' \in Seq(HostFrames) /\ logged' \in BOOLEAN /\ (logged => logged')
            /\ Has(hout', Starts) => Has(hout, Starts)
            /\ Ends(hout, Orders, Starts) => Ends(hout', Orders, Starts)
        BY Zenon, <3>2, <3>3, HostSends
      <3>5. \E next \in {"await", "err", "sent", "poll"} :
              spc' = [spc EXCEPT ![s] = next] /\ (next = "poll" => ~caps)
        BY Zenon, <1>3, <2>2 DEF StopSend, AfterSend, AgentSupports
      <3>6. TypeInv'
        BY <1>3, <2>2, <3>1, <3>4, <3>5 DEF StopSend, TypeInv
      <3>7. NewsInv' /\ BeliefInv'
        BY Zenon, <1>3, <2>2, <3>1, <3>4, <3>5, Undisturbed DEF StopSend
      <3>8. ControlInv' /\ OrderInv'
        BY <1>3, <2>2, <3>1, <3>4, <3>5 DEF StopSend, ControlInv, OrderInv, Unsent, Final
      <3>9. QuietInv'
        BY Zenon, <1>3, <2>2, <3>1, <3>4, <3>5 DEF StopSend, QuietInv, Unsent, Quiet
      <3>10. StopInv'
        BY <1>3, <2>2, <3>1, <3>5 DEF StopSend, TypeInv, StopInv
      <3>11. ReportInv'
        BY Zenon, <1>3, <2>2, <3>1, <3>4, <3>5 DEF StopSend, ReportInv, Final, Told
      <3> QED
        BY Zenon, <3>6, <3>7, <3>8, <3>9, <3>10, <3>11
    <2> QED
      BY Zenon, <2>1, <2>2
  <1>4. CASE StopAcked(s)
    <2>1. TypeInv'
      BY Zenon, <1>4 DEF StopAcked, AfterSend, TypeInv
    <2>2. ControlInv' /\ OrderInv' /\ QuietInv' /\ NewsInv' /\ BeliefInv' /\ ReportInv'
      BY Zenon, <1>4, Undisturbed DEF StopAcked, AfterSend
    <2>3. StopInv'
      BY <1>4 DEF StopAcked, AfterSend, StopInv
    <2> QED
      BY Zenon, <2>1, <2>2, <2>3
  <1>5. CASE StopConnDone(s)
    <2>1. TypeInv'
      BY Zenon, <1>5 DEF StopConnDone, TypeInv
    <2>2. ControlInv' /\ OrderInv' /\ QuietInv' /\ NewsInv' /\ BeliefInv' /\ ReportInv'
      BY Zenon, <1>5, Undisturbed DEF StopConnDone
    <2>3. StopInv'
      BY <1>5 DEF StopConnDone, StopInv
    <2> QED
      BY Zenon, <2>1, <2>2, <2>3
  <1>6. CASE StopGivesUp(s)
    <2>1. TypeInv'
      BY Zenon, <1>6 DEF StopGivesUp, TypeInv
    <2>2. ControlInv' /\ OrderInv' /\ QuietInv' /\ NewsInv' /\ BeliefInv' /\ ReportInv'
      BY Zenon, <1>6, Undisturbed DEF StopGivesUp
    <2>3. StopInv'
      BY <1>6 DEF StopGivesUp, StopInv
    <2> QED
      BY Zenon, <2>1, <2>2, <2>3
  <1>7. CASE StopPolled(s)
    <2>1. TypeInv'
      BY Zenon, <1>7 DEF StopPolled, AgentSupports, TypeInv
    <2>2. ControlInv' /\ OrderInv' /\ QuietInv' /\ NewsInv' /\ BeliefInv' /\ ReportInv'
      BY Zenon, <1>7, Undisturbed DEF StopPolled, AgentSupports
    <2>3. StopInv'
      BY <1>7 DEF StopPolled, AgentSupports, StopInv
    <2> QED
      BY Zenon, <2>1, <2>2, <2>3
  <1> QED
    BY Zenon, <1>1, <1>2, <1>3, <1>4, <1>5, <1>6, <1>7 DEF StopStep

\* Writing to the socket and losing it keep it: the streams stay in order.
LEMMA ConnInv ==
  ASSUME TypeInv, Inv, ConnStep
  PROVE  TypeInv' /\ Inv'
  <1> USE DEF Inv, hostVars, stopVars, wireVars, mainVars, handVars, runVars, childVars, histVars
  <1>1. CASE HostWrite
    <2> DEFINE f == Head(hout)
    <2>1. /\ hout # <<>> /\ hwire' = Append(hwire, f) /\ hout' = Tail(hout)
          /\ hout \in Seq(HostFrames) /\ hwire \in Seq(HostFrames)
      BY Zenon, <1>1 DEF TypeInv, HostWrite
    <2>2. f \in HostFrames /\ hout' \in Seq(HostFrames)
      BY Zenon, <2>1, TailAt
    <2>3. hwire' \in Seq(HostFrames)
      BY Zenon, <2>1, <2>2, AppendAt
    <2>4. f \in Starts => f \in Orders
      BY Zenon DEF Starts, Orders
    <2>5. /\ Has(hout, Orders) <=> Has(hout', Orders) \/ f \in Orders
          /\ Has(hout, Starts) <=> Has(hout', Starts) \/ f \in Starts
          /\ Ends(hout, Orders, Starts) =>
               Ends(hout', Orders, Starts) /\ (f \in Orders => ~Has(hout', Starts))
      BY Zenon, <2>1, TailQueue
    <2>6. /\ Has(hwire', Orders) <=> Has(hwire, Orders) \/ f \in Orders
          /\ Has(hwire', Starts) <=> Has(hwire, Starts) \/ f \in Starts
      BY Zenon, <2>1, <2>2, AppendHas
    <2>7. Ends(hwire, Orders, Starts) /\ (f \in Starts => ~Has(hwire, Orders))
               => Ends(hwire', Orders, Starts)
      BY Zenon, <2>1, <2>2, AppendQueue
    <2> HIDE DEF f
    <2>8. TypeInv'
      BY Zenon, <1>1, <2>2, <2>3, <2>4, <2>5, <2>6, <2>7 DEF HostWrite, TypeInv
    <2>9. ControlInv' /\ StopInv' /\ NewsInv' /\ BeliefInv' /\ ReportInv'
      BY Zenon, <1>1, <2>2, <2>3, <2>4, <2>5, <2>6, <2>7, Undisturbed DEF HostWrite
    <2>10. OrderInv'
      BY Zenon, <1>1, <2>2, <2>3, <2>4, <2>5, <2>6, <2>7 DEF HostWrite, OrderInv, Unsent
    <2>11. QuietInv'
      BY Zenon, <1>1, <2>2, <2>3, <2>4, <2>5, <2>6, <2>7 DEF HostWrite, QuietInv, Unsent, Quiet
    <2> QED
      BY Zenon, <2>8, <2>9, <2>10, <2>11
  <1>2. CASE AgentWrite
    <2> DEFINE f == Head(aout)
    <2>1. /\ aout # <<>> /\ awire' = Append(awire, f) /\ aout' = Tail(aout)
          /\ aout \in Seq(AgentFrames) /\ awire \in Seq(AgentFrames)
      BY Zenon, <1>2 DEF TypeInv, AgentWrite
    <2>2. f \in AgentFrames /\ aout' \in Seq(AgentFrames)
      BY Zenon, <2>1, TailAt
    <2>3. awire' \in Seq(AgentFrames)
      BY Zenon, <2>1, <2>2, AppendAt
    <2>4. /\ Has(aout, Finals) <=> Has(aout', Finals) \/ f \in Finals
          /\ Has(aout, Startups) <=> Has(aout', Startups) \/ f \in Startups
          /\ Has(aout, StopAcks) <=> Has(aout', StopAcks) \/ f \in StopAcks
      BY Zenon, <2>1, TailQueue
    <2>5. /\ Ends(aout, Finals, Startups) =>
               Ends(aout', Finals, Startups) /\ (f \in Finals => ~Has(aout', Startups))
          /\ Leads(aout, Finals, StopAcks) =>
               f \notin StopAcks /\ (f \in Finals \/ Leads(aout', Finals, StopAcks))
      BY Zenon, <2>1, TailQueue
    <2>6. /\ Has(awire', Finals) <=> Has(awire, Finals) \/ f \in Finals
          /\ Has(awire', Startups) <=> Has(awire, Startups) \/ f \in Startups
      BY Zenon, <2>1, <2>2, AppendHas
    <2>7. Has(awire', StopAcks) <=> Has(awire, StopAcks) \/ f \in StopAcks
      BY Zenon, <2>1, <2>2, AppendHas
    <2>8. /\ Ends(awire, Finals, Startups) /\ (f \in Startups => ~Has(awire, Finals))
               => Ends(awire', Finals, Startups)
          /\ Leads(awire, Finals, StopAcks) /\ (f \in StopAcks => Has(awire, Finals))
               => Leads(awire', Finals, StopAcks)
      BY Zenon, <2>1, <2>2, AppendQueue
    <2> HIDE DEF f
    <2>9. TypeInv'
      BY Zenon, <1>2, <2>2, <2>3, <2>4, <2>5, <2>6, <2>7, <2>8 DEF AgentWrite, TypeInv
    <2>10. ControlInv' /\ OrderInv' /\ StopInv'
      BY Zenon, <1>2, <2>2, <2>3, <2>4, <2>5, <2>6, <2>7, <2>8, Undisturbed DEF AgentWrite
    <2>11. QuietInv'
      BY Zenon, <1>2, <2>2, <2>3, <2>4, <2>5, <2>6, <2>7, <2>8
         DEF AgentWrite, QuietInv, Unsent, Quiet
    <2>12. NewsInv' /\ BeliefInv'
      BY Zenon, <1>2, <2>2, <2>3, <2>4, <2>5, <2>6, <2>7, <2>8
         DEF AgentWrite, NewsInv, BeliefInv, Final, NoStartup, Up, Gone
    <2>13. ReportInv'
      BY Zenon, <1>2, <2>2, <2>3, <2>4, <2>5, <2>6, <2>7, <2>8
         DEF AgentWrite, ReportInv, Final, Told
    <2> QED
      BY Zenon, <2>9, <2>10, <2>11, <2>12, <2>13
  <1>3. CASE AgentDisconnect
    BY Zenon, <1>3, TypeKept, Undisturbed
       DEF AgentDisconnect, ReportInv, Final, Told
  <1>4. CASE HostDisconnect
    BY Zenon, <1>4, TypeKept, Undisturbed
       DEF HostDisconnect, AgentSock, ControlInv, BeliefInv, ReportInv, Unsent, Final,
           NoStartup, Told, Up, Gone
  <1> QED
    BY Zenon, <1>1, <1>2, <1>3, <1>4 DEF ConnStep

\* handleMessage keeps it: it reads the agent's word on the child in the order it was given.
LEMMA ReadInv ==
  ASSUME TypeInv, Inv, HostReadStep
  PROVE  TypeInv' /\ Inv'
  <1> USE DEF Inv, hostVars, stopVars, wireVars, mainVars, handVars, runVars, childVars, histVars
  <1>1. CASE HandleMessage
    <2> DEFINE m == Head(awire)
    <2>1. awire # <<>> /\ awire' = Tail(awire) /\ awire \in Seq(AgentFrames)
      BY Zenon, <1>1 DEF TypeInv, HandleMessage
    <2>2. m \in AgentFrames /\ awire' \in Seq(AgentFrames)
      BY Zenon, <2>1, TailAt
    <2>3. /\ m.id \in Nat
          /\ m \in Startups <=> m.type = "started"
          /\ m \in Finals <=> m.type \in {"exitZero", "exitOther", "fatal"}
          /\ m \in StopAcks <=> m.type = "ack" /\ m.id >= 2
      BY Zenon, <2>2 DEF AgentFrames, Startups, Finals, StopAcks
    <2>4. /\ Has(awire, Finals) <=> Has(awire', Finals) \/ m \in Finals
          /\ Has(awire, Startups) <=> Has(awire', Startups) \/ m \in Startups
          /\ Has(awire, StopAcks) <=> Has(awire', StopAcks) \/ m \in StopAcks
      BY Zenon, <2>1, TailQueue
    <2>5. /\ Ends(awire, Finals, Startups) =>
               Ends(awire', Finals, Startups) /\ (m \in Finals => ~Has(awire', Startups))
          /\ Leads(awire, Finals, StopAcks) =>
               m \notin StopAcks /\ (m \in Finals \/ Leads(awire', Finals, StopAcks))
      BY Zenon, <2>1, TailQueue
    <2>6. /\ hconn = "open" /\ verdict = "none"
          /\ UNCHANGED <<lost, hpc, caps, hconn, hsock, cpc, nextId, spc, stopId, hout, hwire, aout,
                         logged, mainVars, handVars, runVars, childVars, requests>>
      BY Zenon, <1>1 DEF HandleMessage
    <2>7. \/ /\ m.type \in {"caps", "transient"}
             /\ UNCHANGED <<hstate, verdict, acked, ended>>
          \/ m.type = "started" /\ hstate' = "Running" /\ UNCHANGED <<verdict, acked, ended>>
          \/ /\ m.type \in {"exitZero", "exitOther"} /\ verdict' \in {"Stopped", "Crashed"}
             /\ UNCHANGED <<hstate, acked, ended>>
          \/ /\ m.type = "fatal" /\ hstate' = "Crashed" /\ ended' = TRUE
             /\ UNCHANGED <<verdict, acked>>
          \/ /\ m.type = "ack" /\ acked' = acked \cup {m.id}
             /\ UNCHANGED <<hstate, verdict, ended>>
      BY Zenon, <1>1 DEF HandleMessage, HandleTransient, HandleFatal
    <2> HIDE DEF m
    <2>8. CASE m.type \in {"caps", "transient"} /\ UNCHANGED <<hstate, verdict, acked, ended>>
      <3>1. TypeInv'
        BY Zenon, <2>2, <2>3, <2>4, <2>5, <2>6, <2>8 DEF TypeInv
      <3>2. ControlInv' /\ OrderInv' /\ StopInv'
        BY Zenon, <2>2, <2>3, <2>4, <2>5, <2>6, <2>8, Undisturbed
      <3>3. QuietInv'
        BY Zenon, <2>2, <2>3, <2>4, <2>5, <2>6, <2>8 DEF QuietInv, Unsent, Quiet
      <3>4. NewsInv' /\ BeliefInv'
        BY Zenon, <2>2, <2>3, <2>4, <2>5, <2>6, <2>8
           DEF NewsInv, BeliefInv, Final, NoStartup, Up, Gone
      <3>5. ReportInv'
        BY Zenon, <2>2, <2>3, <2>4, <2>5, <2>6, <2>8 DEF ReportInv, Final, Told
      <3> QED
        BY Zenon, <3>1, <3>2, <3>3, <3>4, <3>5
    <2>9. CASE m.type = "started" /\ hstate' = "Running" /\ UNCHANGED <<verdict, acked, ended>>
      <3>1. TypeInv'
        BY Zenon, <2>2, <2>3, <2>4, <2>5, <2>6, <2>9 DEF TypeInv
      <3>2. OrderInv' /\ StopInv'
        BY Zenon, <2>2, <2>3, <2>4, <2>5, <2>6, <2>9, Undisturbed
      <3>3. ControlInv'
        BY Zenon, <2>2, <2>3, <2>4, <2>5, <2>6, <2>9 DEF ControlInv, Unsent, Final
      <3>4. QuietInv'
        BY Zenon, <2>2, <2>3, <2>4, <2>5, <2>6, <2>9 DEF QuietInv, Unsent, Quiet
      <3>5. NewsInv' /\ BeliefInv'
        BY Zenon, <2>2, <2>3, <2>4, <2>5, <2>6, <2>9
           DEF NewsInv, BeliefInv, Final, NoStartup, Up, Gone
      <3>6. ReportInv'
        BY Zenon, <2>2, <2>3, <2>4, <2>5, <2>6, <2>9 DEF ReportInv, Final, Told
      <3> QED
        BY Zenon, <3>1, <3>2, <3>3, <3>4, <3>5, <3>6
    <2>10. CASE /\ m.type \in {"exitZero", "exitOther"} /\ verdict' \in {"Stopped", "Crashed"}
                /\ UNCHANGED <<hstate, acked, ended>>
      <3>1. TypeInv'
        BY Zenon, <2>2, <2>3, <2>4, <2>5, <2>6, <2>10 DEF TypeInv
      <3>2. ControlInv' /\ OrderInv' /\ StopInv'
        BY Zenon, <2>2, <2>3, <2>4, <2>5, <2>6, <2>10, Undisturbed
      <3>3. QuietInv'
        BY Zenon, <2>2, <2>3, <2>4, <2>5, <2>6, <2>10 DEF QuietInv, Unsent, Quiet
      <3>4. NewsInv' /\ BeliefInv'
        BY Zenon, <2>2, <2>3, <2>4, <2>5, <2>6, <2>10
           DEF NewsInv, BeliefInv, Final, NoStartup, Up, Gone
      <3>5. ReportInv'
        BY Zenon, <2>2, <2>3, <2>4, <2>5, <2>6, <2>10 DEF ReportInv, Final, Told
      <3> QED
        BY Zenon, <3>1, <3>2, <3>3, <3>4, <3>5
    <2>11. CASE /\ m.type = "fatal" /\ hstate' = "Crashed" /\ ended' = TRUE
                /\ UNCHANGED <<verdict, acked>>
      <3>1. TypeInv'
        BY Zenon, <2>2, <2>3, <2>4, <2>5, <2>6, <2>11 DEF TypeInv
      <3>2. OrderInv' /\ StopInv'
        BY Zenon, <2>2, <2>3, <2>4, <2>5, <2>6, <2>11, Undisturbed
      <3>3. ControlInv'
        BY Zenon, <2>2, <2>3, <2>4, <2>5, <2>6, <2>11 DEF ControlInv, Unsent, Final
      <3>4. QuietInv'
        BY Zenon, <2>2, <2>3, <2>4, <2>5, <2>6, <2>11 DEF QuietInv, Unsent, Quiet
      <3>5. NewsInv' /\ BeliefInv'
        BY Zenon, <2>2, <2>3, <2>4, <2>5, <2>6, <2>11
           DEF ControlInv, NewsInv, BeliefInv, Unsent, Final, NoStartup, Up, Gone
      <3>6. ReportInv'
        BY Zenon, <2>2, <2>3, <2>4, <2>5, <2>6, <2>11 DEF ReportInv, Final, Told
      <3> QED
        BY Zenon, <3>1, <3>2, <3>3, <3>4, <3>5, <3>6
    <2>12. CASE /\ m.type = "ack" /\ acked' = acked \cup {m.id}
                /\ UNCHANGED <<hstate, verdict, ended>>
      <3>1. m.id >= 2 => Quiet /\ (child = "dead" => ended \/ logged)
        BY Zenon, <2>3, <2>4, <2>5, <2>6, <2>12
           DEF ControlInv, QuietInv, ReportInv, Quiet, Final, Told
      <3>2. /\ acked \subseteq acked' /\ acked' \subseteq Nat
            /\ \A n \in acked' : n \in acked \/ n = m.id
        BY Zenon, <2>3, <2>12 DEF TypeInv
      <3>3. UNCHANGED <<hstate, verdict, ended>>
        BY Zenon, <2>12
      <3>4. TypeInv'
        BY Zenon, <2>2, <2>6, <3>2 DEF TypeInv
      <3>5. ControlInv' /\ OrderInv' /\ NewsInv' /\ BeliefInv'
        BY Zenon, <2>4, <2>5, <2>6, <3>3, Undisturbed
           DEF NewsInv, BeliefInv, Final, NoStartup, Up, Gone
      <3>6. QuietInv'
        BY Zenon, <2>4, <2>6, <3>1, <3>2 DEF QuietInv, Quiet, Unsent
      <3>7. StopInv'
        BY Zenon, <2>6, <3>2 DEF StopInv
      <3>8. m \notin Finals
        BY Zenon, <2>3, <2>12
      <3>9. ReportInv'
        BY <2>4, <2>5, <2>6, <3>1, <3>2, <3>3, <3>8 DEF ReportInv, Final, Told
      <3> QED
        BY Zenon, <3>4, <3>5, <3>6, <3>7, <3>9
    <2> QED
      BY Zenon, <2>7, <2>8, <2>9, <2>10, <2>11, <2>12
  <1>2. CASE StoreVerdict
    BY Zenon, <1>2, TypeKept, Undisturbed
       DEF StoreVerdict, ControlInv, BeliefInv, ReportInv, Unsent, Final, NoStartup, Told,
           Up, Gone
  <1> QED
    BY Zenon, <1>1, <1>2 DEF HostReadStep

\* So does Close, whose SIGTERM alone lets the agent leave a running child.
LEMMA CloseInv ==
  ASSUME TypeInv, Inv, CloseStep
  PROVE  TypeInv' /\ Inv'
  <1> USE DEF Inv, hostVars, stopVars, wireVars, mainVars, handVars, runVars, childVars, histVars
  <1>1. CASE CloseConn
    <2>1. ~Has(<<>>, Orders) /\ ~Has(<<>>, Starts) /\ Ends(<<>>, Orders, Starts)
      BY Zenon, EmptyQueue
    <2>2. TypeInv'
      BY <1>1, <2>1 DEF CloseConn, TypeInv
    <2>3. StopInv' /\ NewsInv'
      BY Zenon, <1>1, <2>1, Undisturbed DEF CloseConn
    <2>4. ControlInv' /\ OrderInv'
      BY Zenon, <1>1, <2>1 DEF CloseConn, ControlInv, OrderInv, Unsent, Final
    <2>5. QuietInv'
      BY Zenon, <1>1, <2>1 DEF CloseConn, QuietInv, Unsent, Quiet
    <2>6. BeliefInv'
      BY Zenon, <1>1, <2>1 DEF CloseConn, BeliefInv, Final, NoStartup, Up, Gone
    <2>7. ReportInv'
      BY Zenon, <1>1, <2>1 DEF CloseConn, ReportInv, Final, Told
    <2> QED
      BY Zenon, <2>2, <2>3, <2>4, <2>5, <2>6, <2>7
  <1>2. CASE CloseHandle
    BY Zenon, <1>2, TypeKept, Undisturbed
       DEF CloseHandle, TerminateAgent, ControlInv, Unsent, Final
  <1>3. CASE CloseReaped
    BY Zenon, <1>3, TypeKept, Undisturbed
       DEF CloseReaped
  <1>4. CASE KillAgent
    BY Zenon, <1>4, TypeKept, Undisturbed
       DEF KillAgent, ControlInv, BeliefInv, Unsent, Final, NoStartup, Up, Gone
  <1> QED
    BY Zenon, <1>1, <1>2, <1>3, <1>4 DEF CloseStep

\* Dispatcher.Handle keeps it: a STOP_CHILD is acked when the runner is done.
LEMMA HandleInv ==
  ASSUME TypeInv, Inv, HandleStep
  PROVE  TypeInv' /\ Inv'
  <1> USE DEF Inv, hostVars, stopVars, wireVars, mainVars, handVars, runVars, childVars, histVars
  <1>1. CASE Handle
    <2> DEFINE m == Head(hwire)
    <2>1. hwire # <<>> /\ hwire' = Tail(hwire) /\ hwire \in Seq(HostFrames)
      BY Zenon, <1>1 DEF TypeInv, Handle
    <2>2. m \in HostFrames /\ hwire' \in Seq(HostFrames)
      BY Zenon, <2>1, TailAt
    <2>3. /\ m.id \in Nat /\ (m.type = "start" => m.id = 1)
          /\ m \in Starts <=> m.type = "start"
          /\ m \in Orders <=> m.type \in {"start", "stop"}
      BY <2>2 DEF HostFrames, Starts, Orders
    <2>4. /\ Has(hwire, Orders) <=> Has(hwire', Orders) \/ m \in Orders
          /\ Has(hwire, Starts) <=> Has(hwire', Starts) \/ m \in Starts
          /\ Ends(hwire, Orders, Starts) =>
               Ends(hwire', Orders, Starts) /\ (m \in Orders => ~Has(hwire', Starts))
      BY Zenon, <2>1, TailQueue
    <2>5. /\ Up /\ arpc = "idle"
          /\ UNCHANGED <<hostVars, stopVars, hout, awire, mainVars, termed, ptyOn, childVars, histVars>>
      BY Zenon, <1>1 DEF Handle
    <2>6. m.type = "start" => ~cancelFn
      BY Zenon, <2>3, <2>4 DEF ControlInv, OrderInv
    <2>7. \/ /\ m.type \in {"query", "pty"}
             /\ \/ UNCHANGED <<aout, logged>>
                \/ \E t \in {"caps", "transient"} : SendControl(Frame(t, 0))
             /\ UNCHANGED <<arpc, acur, rn, cancelFn, cancelled>>
          \/ /\ m.type = "start" /\ arpc' = "ack" /\ acur' = m.id
             /\ rn' = "launch" /\ cancelFn' = TRUE /\ UNCHANGED <<aout, logged>>
          \/ /\ m.type = "stop" /\ acur' = m.id /\ UNCHANGED <<aout, logged, rn, cancelFn>>
             /\ \/ ~cancelFn /\ arpc' = "ack"
                \/ arpc' = "stopWait"
      BY Zenon, <1>1, <2>6 DEF Handle
    <2> HIDE DEF m
    <2>8. ASSUME UNCHANGED <<aout, logged>> \/ \E t \in {"caps", "transient"} : SendControl(Frame(t, 0))
          PROVE  /\ aout' \in Seq(AgentFrames) /\ logged' \in BOOLEAN /\ (logged => logged')
                 /\ Has(aout', Startups) => Has(aout, Startups)
                 /\ Has(aout', Finals) => Has(aout, Finals)
                 /\ Has(aout', StopAcks) => Has(aout, StopAcks)
                 /\ Has(aout, Finals) => Has(aout', Finals)
                 /\ Ends(aout, Finals, Startups) => Ends(aout', Finals, Startups)
                 /\ Leads(aout, Finals, StopAcks) => Leads(aout', Finals, StopAcks)
      <3>1. CASE UNCHANGED <<aout, logged>>
        BY Zenon, <3>1 DEF TypeInv
      <3>2. CASE \E t \in {"caps", "transient"} : SendControl(Frame(t, 0))
        <4>1. PICK t \in {"caps", "transient"} : SendControl(Frame(t, 0))
          BY Zenon, <3>2
        <4>2. /\ Frame(t, 0) \in AgentFrames /\ Frame(t, 0) \notin Startups
              /\ Frame(t, 0) \notin Finals /\ Frame(t, 0) \notin StopAcks
          BY Zenon, Kinds
        <4> QED
          BY Zenon, <4>1, <4>2, AgentSends
      <3> QED
        BY Zenon, <2>8, <3>1, <3>2
    <2>9. CASE /\ m.type \in {"query", "pty"}
               /\ \/ UNCHANGED <<aout, logged>>
                  \/ \E t \in {"caps", "transient"} : SendControl(Frame(t, 0))
               /\ UNCHANGED <<arpc, acur, rn, cancelFn, cancelled>>
      <3>1. TypeInv'
        BY Zenon, <2>2, <2>3, <2>4, <2>5, <2>8, <2>9 DEF TypeInv
      <3>2. ControlInv' /\ StopInv'
        BY Zenon, <2>2, <2>3, <2>4, <2>5, <2>8, <2>9, Undisturbed
      <3>3. OrderInv'
        BY Zenon, <2>2, <2>3, <2>4, <2>5, <2>8, <2>9 DEF OrderInv, Unsent
      <3>4. QuietInv'
        BY Zenon, <2>2, <2>3, <2>4, <2>5, <2>8, <2>9 DEF QuietInv, Unsent, Quiet
      <3>5. NewsInv' /\ BeliefInv'
        BY Zenon, <2>2, <2>3, <2>4, <2>5, <2>8, <2>9
           DEF NewsInv, BeliefInv, Final, NoStartup, Up, Gone
      <3>6. ReportInv'
        BY Zenon, <2>2, <2>3, <2>4, <2>5, <2>8, <2>9 DEF ReportInv, Final, Told
      <3> QED
        BY Zenon, <3>1, <3>2, <3>3, <3>4, <3>5, <3>6
    <2>10. CASE /\ m.type = "start" /\ arpc' = "ack" /\ acur' = m.id
                /\ rn' = "launch" /\ cancelFn' = TRUE /\ UNCHANGED <<aout, logged>>
      <3>1. TypeInv'
        BY Zenon, <2>2, <2>3, <2>4, <2>5, <2>10 DEF TypeInv
      <3>2. StopInv'
        BY Zenon, <2>2, <2>3, <2>4, <2>5, <2>10, Undisturbed
      <3>3. ControlInv' /\ OrderInv'
        BY Zenon, <2>2, <2>3, <2>4, <2>5, <2>10 DEF ControlInv, OrderInv, Unsent, Final
      <3>4. QuietInv'
        BY <2>2, <2>3, <2>4, <2>5, <2>10 DEF QuietInv, Unsent, Quiet
      <3>5. NewsInv' /\ BeliefInv'
        BY Zenon, <2>2, <2>3, <2>4, <2>5, <2>10
           DEF ControlInv, OrderInv, NewsInv, BeliefInv, Unsent, Final, NoStartup, Up, Gone
      <3>6. ReportInv'
        BY Zenon, <2>2, <2>3, <2>4, <2>5, <2>10 DEF ReportInv, Final, Told
      <3> QED
        BY Zenon, <3>1, <3>2, <3>3, <3>4, <3>5, <3>6
    <2>11. CASE /\ m.type = "stop" /\ acur' = m.id /\ UNCHANGED <<aout, logged, rn, cancelFn>>
                /\ \/ ~cancelFn /\ arpc' = "ack"
                   \/ arpc' = "stopWait"
      <3>1. TypeInv'
        BY Zenon, <2>2, <2>3, <2>4, <2>5, <2>11 DEF TypeInv
      <3>2. ControlInv' /\ StopInv' /\ NewsInv' /\ BeliefInv' /\ ReportInv'
        BY Zenon, <2>2, <2>3, <2>4, <2>5, <2>11, Undisturbed
      <3>3. OrderInv'
        BY Zenon, <2>2, <2>3, <2>4, <2>5, <2>11 DEF OrderInv, Unsent
      <3>4. QuietInv'
        BY Zenon, <2>2, <2>3, <2>4, <2>5, <2>11
           DEF ControlInv, OrderInv, QuietInv, Unsent, Final, Quiet
      <3> QED
        BY Zenon, <3>1, <3>2, <3>3, <3>4
    <2> QED
      BY Zenon, <2>7, <2>9, <2>10, <2>11
  <1>2. CASE StopWaited
    BY Zenon, <1>2, TypeKept, Undisturbed
       DEF StopWaited, ControlInv, OrderInv, QuietInv, Unsent, Final, Quiet
  <1>3. CASE HandleAck
    <2> DEFINE f == Frame("ack", acur)
    <2>1. f \in AgentFrames /\ SendControl(f)
      BY Zenon, <1>3, Kinds DEF TypeInv, HandleAck
    <2>2. /\ f \notin Startups /\ f \notin Finals
          /\ f \in StopAcks => acur >= 2
      BY Zenon, Kinds DEF TypeInv
    <2> HIDE DEF f
    <2>3. /\ aout' \in Seq(AgentFrames) /\ logged' \in BOOLEAN /\ (logged => logged')
          /\ Has(aout', Startups) => Has(aout, Startups)
          /\ Has(aout', Finals) => Has(aout, Finals)
          /\ Has(aout', StopAcks) => Has(aout, StopAcks) \/ acur >= 2
          /\ Has(aout, Finals) => Has(aout', Finals)
          /\ Ends(aout, Finals, Startups) => Ends(aout', Finals, Startups)
          /\ Leads(aout, Finals, StopAcks) /\ (acur >= 2 => aconn # "open" \/ Has(aout, Finals))
               => Leads(aout', Finals, StopAcks)
      BY Zenon, <2>1, <2>2, AgentSends
    <2>4. TypeInv'
      BY Zenon, <1>3, <2>3 DEF HandleAck, TypeInv
    <2>5. ControlInv' /\ OrderInv' /\ StopInv'
      BY Zenon, <1>3, <2>3, Undisturbed DEF HandleAck
    <2>6. QuietInv'
      BY Zenon, <1>3, <2>3 DEF HandleAck, QuietInv, Unsent, Quiet
    <2>7. NewsInv' /\ BeliefInv'
      BY Zenon, <1>3, <2>3 DEF HandleAck, NewsInv, BeliefInv, Final, NoStartup, Up, Gone
    <2>8. ReportInv'
      BY Zenon, <1>3, <2>3
         DEF HandleAck, ControlInv, OrderInv, QuietInv, NewsInv, ReportInv, Unsent, Final, Quiet,
             Told
    <2> QED
      BY Zenon, <2>4, <2>5, <2>6, <2>7, <2>8
  <1> QED
    BY Zenon, <1>1, <1>2, <1>3 DEF HandleStep

\* The runner keeps it: it says that the child started, then that it ended.
LEMMA RunnerInv ==
  ASSUME TypeInv, Inv, RunnerStep
  PROVE  TypeInv' /\ Inv'
  <1> USE DEF Inv, hostVars, stopVars, wireVars, mainVars, handVars, runVars, childVars, histVars
  <1>1. CASE RunnerExec
    BY Zenon, <1>1, TypeKept, Undisturbed
       DEF RunnerExec, ControlInv, OrderInv, QuietInv, NewsInv, BeliefInv, ReportInv, Unsent,
           Final, Quiet, NoStartup, Told, Up, Gone
  <1>2. CASE RunnerExecFails
    <2> DEFINE f == Frame("fatal", 0)
    <2>1. f \in AgentFrames /\ f \notin Startups /\ f \notin StopAcks
      BY Zenon, Kinds
    <2>2. SendControl(f)
      BY Zenon, <1>2 DEF RunnerExecFails
    <2> HIDE DEF f
    <2>3. /\ aout' \in Seq(AgentFrames) /\ logged' \in BOOLEAN /\ (logged => logged')
          /\ Has(aout', Startups) => Has(aout, Startups)
          /\ Has(aout', StopAcks) => Has(aout, StopAcks)
          /\ Leads(aout, Finals, StopAcks) => Leads(aout', Finals, StopAcks)
          /\ Ends(aout, Finals, Startups) => Ends(aout', Finals, Startups)
      BY Zenon, <2>1, <2>2, AgentSends
    <2>4. TypeInv'
      BY Zenon, <1>2, <2>3 DEF RunnerExecFails, TypeInv
    <2>5. StopInv'
      BY Zenon, <1>2, <2>3, Undisturbed DEF RunnerExecFails
    <2>6. ControlInv' /\ OrderInv'
      BY Zenon, <1>2, <2>3 DEF RunnerExecFails, ControlInv, OrderInv, Unsent, Final
    <2>7. QuietInv'
      BY Zenon, <1>2, <2>3 DEF RunnerExecFails, QuietInv, Unsent, Quiet
    <2>8. NewsInv' /\ BeliefInv'
      BY Zenon, <1>2, <2>3 DEF RunnerExecFails, NewsInv, BeliefInv, Final, NoStartup, Up, Gone
    <2>9. ReportInv'
      BY Zenon, <1>2, <2>3 DEF RunnerExecFails, ControlInv, ReportInv, Unsent, Final, Told
    <2> QED
      BY Zenon, <2>4, <2>5, <2>6, <2>7, <2>8, <2>9
  <1>3. CASE OnStarted
    <2> DEFINE f == Frame("started", 0)
    <2>1. f \in AgentFrames /\ f \notin Finals /\ f \notin StopAcks
      BY Zenon, Kinds
    <2>2. SendControl(f)
      BY Zenon, <1>3 DEF OnStarted
    <2> HIDE DEF f
    <2>3. /\ aout' \in Seq(AgentFrames) /\ logged' \in BOOLEAN /\ (logged => logged')
          /\ Has(aout, Finals) => Has(aout', Finals)
          /\ Has(aout', Finals) => Has(aout, Finals)
          /\ Has(aout', StopAcks) => Has(aout, StopAcks)
          /\ Leads(aout, Finals, StopAcks) => Leads(aout', Finals, StopAcks)
          /\ Ends(aout, Finals, Startups) /\ ~Has(aout, Finals) => Ends(aout', Finals, Startups)
      BY Zenon, <2>1, <2>2, AgentSends
    <2>4. TypeInv'
      BY Zenon, <1>3, <2>3 DEF OnStarted, TypeInv
    <2>5. StopInv'
      BY Zenon, <1>3, <2>3, Undisturbed DEF OnStarted
    <2>6. ControlInv' /\ OrderInv'
      BY Zenon, <1>3, <2>3 DEF OnStarted, ControlInv, OrderInv, Unsent, Final
    <2>7. QuietInv'
      BY Zenon, <1>3, <2>3 DEF OnStarted, QuietInv, Unsent, Quiet
    <2>8. NewsInv' /\ BeliefInv'
      BY Zenon, <1>3, <2>3 DEF OnStarted, NewsInv, BeliefInv, Final, NoStartup, Up, Gone
    <2>9. ReportInv'
      BY Zenon, <1>3, <2>3 DEF OnStarted, ReportInv, Final, Told
    <2> QED
      BY Zenon, <2>4, <2>5, <2>6, <2>7, <2>8, <2>9
  <1>4. CASE RegisterPTY
    <2>1. TypeInv' /\ StopInv'
      BY Zenon, <1>4, TypeKept, Undisturbed DEF RegisterPTY
    <2>2. ControlInv' /\ OrderInv' /\ QuietInv'
      BY Zenon, <1>4 DEF RegisterPTY, ControlInv, OrderInv, QuietInv, Unsent, Final, Quiet
    <2>3. NewsInv' /\ BeliefInv' /\ ReportInv'
      BY Zenon, <1>4
         DEF RegisterPTY, NewsInv, BeliefInv, ReportInv, Final, NoStartup, Told, Up, Gone
    <2> QED
      BY Zenon, <2>1, <2>2, <2>3
  <1>5. CASE RunnerReaps
    BY Zenon, <1>5, TypeKept, Undisturbed
       DEF RunnerReaps, ControlInv, OrderInv, QuietInv, NewsInv, BeliefInv, ReportInv,
           Unsent, Final, Quiet, NoStartup, Told, Up, Gone
  <1>6. CASE RunnerReports
    <2>1. PICK f \in AgentFrames : SendControl(f) /\ f \in Finals /\ f \notin Startups /\ f \notin StopAcks
      BY Zenon, Kinds, <1>6 DEF RunnerReports
    <2>2. /\ aout' \in Seq(AgentFrames) /\ logged' \in BOOLEAN /\ (logged => logged')
          /\ logged' \/ aconn # "open" \/ Has(aout', Finals)
          /\ Has(aout', Startups) => Has(aout, Startups)
          /\ Has(aout', StopAcks) => Has(aout, StopAcks)
          /\ Leads(aout, Finals, StopAcks) => Leads(aout', Finals, StopAcks)
          /\ Ends(aout, Finals, Startups) => Ends(aout', Finals, Startups)
      BY Zenon, <2>1, AgentSends
    <2>3. TypeInv'
      BY Zenon, <1>6, <2>2 DEF RunnerReports, TypeInv
    <2>4. StopInv'
      BY Zenon, <1>6, <2>2, Undisturbed DEF RunnerReports
    <2>5. ControlInv' /\ OrderInv'
      BY Zenon, <1>6, <2>2 DEF RunnerReports, ControlInv, OrderInv, Unsent, Final
    <2>6. QuietInv'
      BY Zenon, <1>6, <2>2 DEF RunnerReports, QuietInv, Unsent, Quiet
    <2>7. NewsInv' /\ BeliefInv'
      BY Zenon, <1>6, <2>2 DEF RunnerReports, NewsInv, BeliefInv, Final, NoStartup, Up, Gone
    <2>8. ReportInv'
      BY Zenon, <1>6, <2>2 DEF RunnerReports, ReportInv, Final, Told
    <2> QED
      BY Zenon, <2>3, <2>4, <2>5, <2>6, <2>7, <2>8
  <1>7. CASE RunnerDone
    <2>1. TypeInv' /\ StopInv'
      BY Zenon, <1>7, TypeKept, Undisturbed DEF RunnerDone
    <2>2. ControlInv'
      BY Zenon, <1>7 DEF RunnerDone, RequestPersistentShutdown, ControlInv, Unsent, Final
    <2>3. OrderInv' /\ QuietInv'
      BY Zenon, <1>7 DEF RunnerDone, ControlInv, OrderInv, QuietInv, Unsent, Final, Quiet
    <2>4. NewsInv' /\ BeliefInv' /\ ReportInv'
      BY Zenon, <1>7 DEF RunnerDone, NewsInv, BeliefInv, ReportInv, Final, NoStartup, Told, Up, Gone
    <2> QED
      BY Zenon, <2>1, <2>2, <2>3, <2>4
  <1> QED
    BY Zenon, <1>1, <1>2, <1>3, <1>4, <1>5, <1>6, <1>7 DEF RunnerStep

\* The end of the child keeps it: no STOP_CHILD was acked while it ran.
LEMMA ChildInv ==
  ASSUME TypeInv, Inv, RunnerTerm \/ RunnerKill \/ ChildExits
  PROVE  TypeInv' /\ Inv'
  <1> USE DEF Inv, hostVars, stopVars, wireVars, mainVars, handVars, runVars, childVars, histVars
  <1>1. CASE RunnerTerm
    BY Zenon, <1>1, TypeKept, Undisturbed
       DEF RunnerTerm
  <1>2. CASE RunnerKill
    <2>1. ~Has(awire, StopAcks) /\ ~Has(aout, StopAcks)
      BY Zenon, <1>2 DEF RunnerKill, QuietInv, Quiet
    <2>2. Leads(awire, Finals, StopAcks) /\ Leads(aout, Finals, StopAcks)
      BY Zenon, <2>1, NothingToLead
    <2> QED
      BY Zenon, <1>2, <2>2, TypeKept, Undisturbed
         DEF RunnerKill, ControlInv, QuietInv, BeliefInv, ReportInv, Unsent, Final, Quiet,
             NoStartup, Told, Up, Gone
  <1>3. CASE ChildExits
    <2>1. ~Has(awire, StopAcks) /\ ~Has(aout, StopAcks)
      BY Zenon, <1>3 DEF ChildExits, QuietInv, Quiet
    <2>2. Leads(awire, Finals, StopAcks) /\ Leads(aout, Finals, StopAcks)
      BY Zenon, <2>1, NothingToLead
    <2> QED
      BY Zenon, <1>3, <2>2, TypeKept, Undisturbed
         DEF ChildExits, ControlInv, QuietInv, BeliefInv, ReportInv, Unsent, Final, Quiet,
             NoStartup, Told, Up, Gone
  <1> QED
    BY Zenon, <1>1, <1>2, <1>3

\* So do agent.Run and the death of the agent.
LEMMA MainInv ==
  ASSUME TypeInv, Inv, MainStep \/ AgentDies
  PROVE  TypeInv' /\ Inv'
  <1> USE DEF Inv, hostVars, stopVars, wireVars, mainVars, handVars, runVars, childVars, histVars
  <1>1. CASE AgentWakes
    BY Zenon, <1>1, TypeKept, Undisturbed
       DEF AgentWakes, ControlInv, BeliefInv, Unsent, Final, NoStartup, Up, Gone
  <1>2. CASE DrainReturns
    BY Zenon, <1>2, TypeKept, Undisturbed
       DEF DrainReturns, ControlInv, BeliefInv, Unsent, Final, NoStartup, Up, Gone
  <1>3. CASE AgentConnClose
    <2>1. /\ ~Has(<<>>, Startups) /\ ~Has(<<>>, Finals) /\ ~Has(<<>>, StopAcks)
          /\ Ends(<<>>, Finals, Startups) /\ Leads(<<>>, Finals, StopAcks)
      BY Zenon, EmptyQueue
    <2>2. TypeInv'
      BY <1>3, <2>1 DEF AgentConnClose, TypeInv
    <2>3. OrderInv' /\ StopInv'
      BY Zenon, <1>3, <2>1, Undisturbed DEF AgentConnClose
    <2>4. ControlInv'
      BY Zenon, <1>3, <2>1 DEF AgentConnClose, ControlInv, Unsent, Final
    <2>5. QuietInv'
      BY Zenon, <1>3, <2>1 DEF AgentConnClose, QuietInv, Unsent, Quiet
    <2>6. NewsInv' /\ BeliefInv'
      BY Zenon, <1>3, <2>1 DEF AgentConnClose, NewsInv, BeliefInv, Final, NoStartup, Up, Gone
    <2>7. ReportInv'
      BY Zenon, <1>3, <2>1 DEF AgentConnClose, ReportInv, Final, Told
    <2> QED
      BY Zenon, <2>2, <2>3, <2>4, <2>5, <2>6, <2>7
  <1>4. CASE AgentExits
    BY Zenon, <1>4, TypeKept, Undisturbed
       DEF AgentExits, ControlInv, BeliefInv, Unsent, Final, NoStartup, Up, Gone
  <1>5. CASE AgentDies
    BY Zenon, <1>5, TypeKept, Undisturbed
       DEF AgentDies, ControlInv, BeliefInv, Unsent, Final, NoStartup, Up, Gone
  <1> QED
    BY Zenon, <1>1, <1>2, <1>3, <1>4, <1>5 DEF MainStep

\* A PTY request, the death of the host and a stuttering step keep it.
LEMMA OtherInv ==
  ASSUME TypeInv, Inv, PTYRequest \/ HostDies \/ UNCHANGED vars
  PROVE  TypeInv' /\ Inv'
  <1> USE DEF Inv, hostVars, stopVars, wireVars, mainVars, handVars, runVars, childVars, histVars
  <1>1. CASE PTYRequest
    <2> DEFINE f == Frame("pty", 0)
    <2>1. f \in HostFrames /\ f \notin Starts
      BY Zenon, Kinds
    <2>2. HostSend(f)
      BY Zenon, <1>1 DEF PTYRequest
    <2> HIDE DEF f
    <2>3. /\ hout' \in Seq(HostFrames) /\ logged' \in BOOLEAN /\ (logged => logged')
          /\ Has(hout', Starts) => Has(hout, Starts)
          /\ Ends(hout, Orders, Starts) => Ends(hout', Orders, Starts)
      BY Zenon, <2>1, <2>2, HostSends
    <2>4. ControlInv' /\ StopInv' /\ NewsInv' /\ BeliefInv'
      BY Zenon, <1>1, Undisturbed DEF PTYRequest
    <2>5. TypeInv'
      BY Zenon, <1>1, <2>3 DEF PTYRequest, TypeInv
    <2>6. OrderInv' /\ QuietInv'
      BY Zenon, <1>1, <2>3 DEF PTYRequest, OrderInv, QuietInv, Unsent, Quiet
    <2>7. ReportInv'
      BY Zenon, <1>1, <2>3 DEF PTYRequest, ReportInv, Final, Told
    <2> QED
      BY Zenon, <2>4, <2>5, <2>6, <2>7
  <1>2. CASE HostDies
    <2>1. ~Has(<<>>, Orders) /\ ~Has(<<>>, Starts) /\ Ends(<<>>, Orders, Starts)
      BY Zenon, EmptyQueue
    <2>2. NewsInv'
      BY Zenon, <1>2, Undisturbed DEF HostDies
    <2>3. TypeInv' /\ StopInv'
      BY <1>2 DEF HostDies, TypeInv, StopInv
    <2>4. ControlInv' /\ OrderInv' /\ QuietInv'
      BY Zenon, <1>2, <2>1
         DEF HostDies, ControlInv, OrderInv, QuietInv, Unsent, Final, Quiet
    <2>5. BeliefInv' /\ ReportInv'
      BY Zenon, <1>2 DEF HostDies, BeliefInv, ReportInv, Final, NoStartup, Told, Up, Gone
    <2> QED
      BY Zenon, <2>2, <2>3, <2>4, <2>5
  <1>3. CASE UNCHANGED vars
    BY Zenon, <1>3, TypeKept, Undisturbed DEF vars
  <1> QED
    BY Zenon, <1>1, <1>2, <1>3

-----------------------------------------------------------------------------
(* The theorems *)

\* The program starts in the invariant.
LEMMA InitInv == Init => TypeInv /\ Inv
  <1>1. ASSUME Init PROVE TypeInv
    <2>1. nextId \in Nat /\ acked \subseteq Nat /\ acur \in Nat /\ stopId \in [Stoppers -> Nat]
      BY Zenon, <1>1 DEF Init
    <2>2. /\ hout \in Seq(HostFrames) /\ hwire \in Seq(HostFrames)
          /\ aout \in Seq(AgentFrames) /\ awire \in Seq(AgentFrames)
      BY <1>1 DEF Init
    <2>3. spc \in [Stoppers -> {"idle", "mark", "send", "await", "poll", "already", "acked",
                                "sent", "err"}]
      BY Zenon, <1>1 DEF Init
    <2>4. logged \in BOOLEAN
      BY Zenon, <1>1 DEF Init
    <2> QED
      BY Zenon, <2>1, <2>2, <2>3, <2>4 DEF TypeInv
  <1>2. ASSUME Init PROVE Inv
    BY Zenon, <1>2, EmptyQueue
       DEF Init, Inv, ControlInv, OrderInv, QuietInv, StopInv, NewsInv, BeliefInv, ReportInv,
           Unsent, Final, Quiet, NoStartup, Told
  <1> QED
    BY Zenon, <1>1, <1>2

\* Every step of the program keeps it.
LEMMA StepInv == TypeInv /\ Inv /\ [Next]_vars => TypeInv' /\ Inv'
  BY Zenon, StartInv, StopKeeps, ConnInv, ReadInv, CloseInv, HandleInv, RunnerInv, ChildInv,
     MainInv,
     OtherInv DEF Next

\* What Session promises follows from the invariant.
LEMMA InvPromises ==
  ASSUME TypeInv, Inv
  PROVE  StopAckedMeansOver /\ TerminalMeansDead /\ NoResurrection /\ PersistentOutlives
  <1> USE DEF Inv, ControlInv, QuietInv, StopInv, BeliefInv, ReportInv, Quiet, Final
  <1>1. StopAckedMeansOver
    BY Zenon DEF StopAckedMeansOver, StopAckedMeansDead, StopAckedMeansReported
  <1>2. TerminalMeansDead
    BY Zenon DEF TerminalMeansDead
  <1>3. NoResurrection
    BY Zenon DEF NoResurrection
  <1>4. PersistentOutlives
    BY Zenon DEF PersistentOutlives
  <1> QED
    BY Zenon, <1>1, <1>2, <1>3, <1>4

\* The invariant holds in every run of the program.
THEOREM SessionInvariant == Spec => [](TypeInv /\ Inv)
  BY InitInv, StepInv, PTL DEF Spec

\* A nil from Stop that rests on the agent's ack means that the child is dead,
\* the runner done and the exit recorded, unless a full outbox left a frame in
\* the log (Controller.Stop).
THEOREM StopMeansOver == Spec => []StopAckedMeansOver
  BY SessionInvariant, InvPromises, PTL

\* Stopped, and Crashed without a lost connection, are never reported of a
\* running child (Controller.handleMessage).
THEOREM TerminalIsTrue == Spec => []TerminalMeansDead
  BY SessionInvariant, InvPromises, PTL

\* Once the host has learnt of the end nothing makes the state Running again.
THEOREM NoSawtooth == Spec => []NoResurrection
  BY SessionInvariant, InvPromises, PTL

\* A persistent agent that nobody sent SIGTERM outlives its child (agent.Run).
THEOREM PersistentStays == Spec => []PersistentOutlives
  BY SessionInvariant, InvPromises, PTL
=============================================================================
