------------------------ MODULE KernelRequestProofs -------------------------
(***************************************************************************)
(* The requests of the programs to the SSI, and what follows for a system  *)
(* in which no dead thread is ever served, for every value of the          *)
(* constants; at last, that its kernel implements the mailboxes of module  *)
(* Mailbox.  (TrapsProofs goes on with the handlers of the traps.)         *)
(***************************************************************************)
EXTENDS KernelSoundProofs

(***************************************************************************)
(* Two kinds of system serve no dead thread: those whose programs ask for  *)
(* nothing that terminates, whatever is preempted, and those without       *)
(* preemption whose programs ask for no I/O.  In all others a thread may   *)
(* die between its request and the service of it: another thread of its    *)
(* process terminates the process after the first system call of the stub, *)
(* or while the terminal works.                                            *)
(***************************************************************************)
Orderly ==
  \/ Requests \cap Terminators = {}
  \/ ~Preemptive /\ "DO_IO" \notin Requests

-----------------------------------------------------------------------------
(* The inductive invariant.  A request is at one place, or was lost when no *)
(* descriptor was free for it: in the queue of the SSI, in service, with    *)
(* the terminal, or its answer is in the queue of its sender.               *)

\* the messages of a queue that come from x, ...
From(s, x) == {i \in DOMAIN s : s[i].m_sender = x}
\* ... when there is one, and it says v
One(s, x, v) == \E i \in DOMAIN s : From(s, x) = {i} /\ s[i].m_value = v

Places == {"none", "queued", "served", "soft", "answered"}

At(t, place) ==
  /\ IF place = "queued" THEN One(t_msgq[SSI], t, asked[t]) ELSE From(t_msgq[SSI], t) = {}
  /\ IF place = "served" THEN InService(t) /\ request = asked[t] ELSE ~InService(t)
  /\ IF place = "soft" THEN soft_blocked_thread = t /\ asked[t].tag = "DO_IO"
                       ELSE soft_blocked_thread # t
  /\ IF place = "answered" THEN One(t_msgq[t], SSI, [reply |-> asked[t].tag])
                           ELSE From(t_msgq[t], SSI) = {}
  /\ place # "none" => asked[t] # NULL

Tracked(t) == \E place \in Places : At(t, place)

\* a thread inside a stub is alive and waits for the SSI only; if nothing can
\* preempt it, it waits already when another thread runs
Waits(t) ==
  asked[t] # NULL =>
    /\ Live(t)
    /\ t_status[t] = T_STATUS_W4MSG => t_wait4sender[t] = SSI
    /\ ~Preemptive => OnCpu(t) \/ t_status[t] = T_STATUS_W4MSG

\* a termination goes on in the name of a thread that has no other request,
\* and frees live threads whose requests are gone
Terminates ==
  ssi_pc = "terminate" =>
    /\ ~(Requests \cap Terminators = {})
    /\ From(t_msgq[SSI], applicant) = {}
    /\ victim # NULL => Live(victim) /\ From(t_msgq[SSI], victim) = {}

ReqInv == ~stale /\ (\A t \in Tcb : Tracked(t) /\ Waits(t)) /\ Terminates

-----------------------------------------------------------------------------
(* What the operations on the queues do to the messages of one sender.      *)

\* a message at the end of a queue
LEMMA AppendFrom ==
  ASSUME NEW s \in Seq(Message), NEW m \in Message
  PROVE  /\ Append(s, m) \in Seq(Message)
         /\ From(s, m.m_sender) = {} => One(Append(s, m), m.m_sender, m.m_value)
         /\ \A x : x # m.m_sender =>
              /\ From(s, x) = {} => From(Append(s, m), x) = {}
              /\ \A v : One(s, x, v) => One(Append(s, m), x, v)
<1> DEFINE a == Append(s, m)
           n == Len(s) + 1
<1>1. /\ a \in Seq(Message) /\ DOMAIN a = 1..n /\ n \in Nat \ {0} /\ DOMAIN s = 1..(n - 1)
      /\ a[n] = m /\ \A i \in 1..(n - 1) : a[i] = s[i]
  BY AppendProperties
<1> HIDE DEF a, n
<1>2. \A x : x # m.m_sender => From(a, x) = From(s, x)
  BY <1>1 DEF From
<1>3. From(s, m.m_sender) = {} => From(a, m.m_sender) = {n} /\ n \in DOMAIN a
  <2>1. ASSUME \A i \in 1..(n - 1) : s[i].m_sender # m.m_sender, NEW i \in 1..n
        PROVE  a[i].m_sender = m.m_sender <=> i = n
    BY <1>1, <2>1
  <2>2. n \in 1..n
    BY <1>1
  <2> QED BY <1>1, <2>1, <2>2 DEF From
<1>4. \A x : From(s, x) \subseteq DOMAIN s
  BY DEF From
<1>5. ASSUME NEW x, NEW v, x # m.m_sender, One(s, x, v) PROVE One(a, x, v)
  BY <1>1, <1>2, <1>5 DEF One
<1> QED BY <1>1, <1>2, <1>3, <1>5 DEF a, One

\* a message taken out of a queue
LEMMA RemoveFrom ==
  ASSUME NEW s \in Seq(Message), NEW i \in DOMAIN s
  PROVE  LET r == RemoveAt(s, i)
         IN  /\ \A x : From(s, x) = {} => From(r, x) = {}
             /\ \A x, v : x # s[i].m_sender /\ One(s, x, v) => One(r, x, v)
             /\ \A v : One(s, s[i].m_sender, v) => From(r, s[i].m_sender) = {}
<1> DEFINE r == RemoveAt(s, i)
<1>1. PICK n \in Nat : n = Len(s)
  OBVIOUS
<1>2. /\ i \in 1..n /\ DOMAIN s = 1..n
      /\ DOMAIN r = 1..(n - 1)
      /\ \A j \in 1..(n - 1) : r[j] = IF j < i THEN s[j] ELSE s[j + 1]
  BY <1>1, RemoveAtElements
<1> HIDE DEF r
<1>3. ASSUME NEW x, From(s, x) = {} PROVE From(r, x) = {}
  <2>1. \A j \in 1..n : s[j].m_sender # x
    BY <1>2, <1>3 DEF From
  <2>2. \A j \in 1..(n - 1) : r[j].m_sender # x
    BY <1>1, <1>2, <2>1
  <2> QED BY <1>2, <2>2 DEF From
<1>4. ASSUME NEW x, NEW v, x # s[i].m_sender, One(s, x, v) PROVE One(r, x, v)
  <2>1. PICK k \in DOMAIN s : From(s, x) = {k} /\ s[k].m_value = v
    BY <1>4 DEF One
  <2>2. k # i /\ s[k].m_sender = x /\ \A j \in DOMAIN s : s[j].m_sender = x => j = k
    BY <1>4, <2>1 DEF From
  <2>3. PICK h \in 1..(n - 1) : h = IF k < i THEN k ELSE k - 1
    BY <1>2, <2>2
  <2>4. r[h] = s[k]
    BY <1>2, <2>2, <2>3
  <2>5. \A j \in 1..(n - 1) : r[j].m_sender = x => j = h
    BY <1>2, <2>2, <2>3
  <2>6. From(r, x) = {h}
    BY <1>2, <2>2, <2>4, <2>5 DEF From
  <2> QED BY <1>2, <2>1, <2>4, <2>6 DEF One
<1>5. ASSUME NEW v, One(s, s[i].m_sender, v) PROVE From(r, s[i].m_sender) = {}
  <2>1. \A j \in DOMAIN s : s[j].m_sender = s[i].m_sender => j = i
    BY <1>2, <1>5 DEF One, From
  <2>2. \A j \in 1..(n - 1) : r[j].m_sender # s[i].m_sender
    BY <1>2, <2>1
  <2> QED BY <1>2, <2>2 DEF From
<1> QED BY <1>3, <1>4, <1>5 DEF r

\* the messages of x in the queue of u stay
Kept(u, x) ==
  /\ From(t_msgq[u], x) = {} => From(t_msgq'[u], x) = {}
  /\ \A v : One(t_msgq[u], x, v) => One(t_msgq'[u], x, v)

\* send adds nothing, or one message of its sender
LEMMA SendFrom ==
  ASSUME MsgTypes, NEW dest \in Thread, NEW sender \in Thread, NEW value \in Payload,
         send(dest, sender, value)
  PROVE  /\ \A u \in Thread : \A x :
              (u # dest \/ x # sender \/ Expects(dest, sender)) => Kept(u, x)
         /\ From(t_msgq[dest], sender) = {} =>
              \/ From(t_msgq'[dest], sender) = {}
              \/ One(t_msgq'[dest], sender, value)
<1>1. CASE UNCHANGED t_msgq
  BY <1>1 DEF Kept
<1>2. CASE ~Expects(dest, sender) /\ msgq_add(sender, dest, value)
  <2> DEFINE m == [m_sender |-> sender, m_value |-> value]
  <2>1. m \in Message /\ m.m_sender = sender /\ m.m_value = value
    BY DEF Message
  <2>2. t_msgq' = [t_msgq EXCEPT ![dest] = Append(@, m)]
    BY <1>2 DEF msgq_add
  <2> HIDE DEF m
  <2>3. /\ t_msgq[dest] \in Seq(Message) /\ t_msgq'[dest] = Append(t_msgq[dest], m)
        /\ \A u \in Thread : u # dest => t_msgq'[u] = t_msgq[u]
    BY <2>2 DEF MsgTypes
  <2>4. \A x : x # sender => Kept(dest, x)
    BY <2>1, <2>3, AppendFrom DEF Kept
  <2>5. From(t_msgq[dest], sender) = {} => One(t_msgq'[dest], sender, value)
    BY <2>1, <2>3, AppendFrom
  <2>6. \A u \in Thread : \A x : u # dest => Kept(u, x)
    BY <2>3 DEF Kept
  <2> QED BY <1>2, <2>4, <2>5, <2>6
<1> QED BY <1>1, <1>2 DEF send, msgvars

\* recv takes one message, or none
LEMMA TakeFrom ==
  ASSUME MsgTypes, NEW t \in Thread, NEW i \in DOMAIN t_msgq[t], msg_free(t, i)
  PROVE  /\ \A u \in Thread : \A x : u # t \/ x # t_msgq[t][i].m_sender => Kept(u, x)
         /\ \A v : One(t_msgq[t], t_msgq[t][i].m_sender, v)
                   => From(t_msgq'[t], t_msgq[t][i].m_sender) = {}
<1>1. /\ t_msgq[t] \in Seq(Message) /\ t_msgq'[t] = RemoveAt(t_msgq[t], i)
      /\ \A u \in Thread : u # t => t_msgq'[u] = t_msgq[u]
  BY DEF MsgTypes, msg_free
<1>2. \A x : x # t_msgq[t][i].m_sender => Kept(t, x)
  BY <1>1, RemoveFrom DEF Kept
<1>3. \A u \in Thread : \A x : u # t => Kept(u, x)
  BY <1>1 DEF Kept
<1>4. \A v : One(t_msgq[t], t_msgq[t][i].m_sender, v)
             => From(t_msgq'[t], t_msgq[t][i].m_sender) = {}
  BY <1>1, RemoveFrom
<1> QED BY <1>2, <1>3, <1>4

-----------------------------------------------------------------------------
(* Where a request is, when a step does not concern it.                      *)

\* a trace of a request tells where it is
LEMMA PlaceFacts ==
  ASSUME NEW t \in Tcb, Tracked(t)
  PROVE  /\ From(t_msgq[SSI], t) # {} => At(t, "queued")
         /\ InService(t) => At(t, "served")
         /\ soft_blocked_thread = t => At(t, "soft")
         /\ From(t_msgq[t], SSI) # {} => At(t, "answered")
         /\ asked[t] = NULL => At(t, "none")
  BY DEF Tracked, Places, At

\* ... and there is a request
LEMMA HereOrNowhere ==
  ASSUME NEW t \in Tcb, NEW place \in Places, At(t, place), place # "none"
  PROVE  asked[t] # NULL
  BY DEF At

\* a request stays where it is
LEMMA StillAt ==
  ASSUME NEW t \in Tcb, Tracked(t), Kept(SSI, t), Kept(t, SSI), asked'[t] = asked[t],
         InService(t)' <=> InService(t), InService(t) => request' = request,
         soft_blocked_thread' = t <=> soft_blocked_thread = t
  PROVE  Tracked(t)'
<1>1. PICK place \in Places : At(t, place)
  BY DEF Tracked
<1>2. At(t, place)'
  BY <1>1 DEF At, Kept, Places
<1> QED BY <1>2 DEF Tracked

\* a step that touches no queue and no request
LEMMA QuietPlaces ==
  ASSUME NEW t \in Tcb, Tracked(t), UNCHANGED <<t_msgq, asked, soft_blocked_thread>>,
         \/ UNCHANGED ssivars
         \/ ssi_pc = "serve" /\ ssi_pc' = "reply" /\ UNCHANGED ssi_msg
         \/ ssi_pc = "terminate" /\ ssi_pc' = "recv"
  PROVE  Tracked(t)'
<1>1. Kept(SSI, t) /\ Kept(t, SSI)
  BY DEF Kept
<1>2. /\ InService(t)' <=> InService(t)
      /\ InService(t) => request' = request
  BY DEF InService, request, ssivars
<1> QED BY <1>1, <1>2, StillAt

\* a thread goes on waiting, or running
LEMMA StillWaits ==
  ASSUME NEW t \in Tcb, Waits(t), asked'[t] \in {NULL, asked[t]},
         asked'[t] # NULL => UNCHANGED <<t_status[t], t_wait4sender[t]>>,
         Preemptive \/ ~OnCpu(t) \/ OnCpu(t)'
  PROVE  Waits(t)'
  BY DEF Waits, Live

\* send wakes no thread that waits for the SSI, unless the SSI sends
LEMMA SendWaits ==
  ASSUME TInv, NEW dest \in Thread, NEW sender \in Thread, NEW value,
         send(dest, sender, value), NEW t \in Tcb, Waits(t),
         IF sender = SSI /\ t = dest /\ Expects(dest, SSI) THEN asked'[t] = NULL
                                                   ELSE asked'[t] = asked[t],
         Preemptive \/ ~OnCpu(t) \/ OnCpu(t)'
  PROVE  Waits(t)'
<1> USE TypeOKParts, TcbFacts DEF TInv
<1>1. CASE t = dest /\ Expects(dest, sender)
  <2>1. sender # SSI => asked[t] = NULL
    BY <1>1 DEF Expects, Waits
  <2>2. asked'[t] = NULL
    BY <1>1, <2>1
  <2> QED BY <2>2 DEF Waits
<1>2. CASE ~(t = dest /\ Expects(dest, sender))
  <2>1. UNCHANGED <<t_status[t], t_wait4sender[t]>>
    BY <1>2 DEF send, resume_thread, threadvars, ThreadTypes
  <2> QED BY <1>2, <2>1, StillWaits
<1> QED BY <1>1, <1>2

-----------------------------------------------------------------------------
(* The programs.                                                             *)

\* the thread on the processor goes on, in its program or in a handler
RunsOn == kpc' # "scheduler" /\ UNCHANGED current_thread

\* msgsend to another program
LEMMA SendTracked ==
  ASSUME TInv, ReqInv, NEW s \in Tcb, NEW dest \in Tcb, NEW value \in Payload,
         RunsOn, send(dest, s, value), UNCHANGED <<asked, soft_blocked_thread, ssivars>>,
         NEW t \in Tcb
  PROVE  Tracked(t)' /\ Waits(t)'
<1> USE TypeOKParts, TcbFacts DEF TInv
<1>1. s # SSI /\ dest # SSI
  OBVIOUS
<1>2. Tracked(t) /\ Waits(t)
  BY DEF ReqInv
<1>3. Kept(SSI, t) /\ Kept(t, SSI)
  BY <1>1, SendFrom
<1>4. Tracked(t)'
  BY <1>1, <1>2, <1>3, StillAt DEF InService, request, ssivars
<1>5. Waits(t)'
  BY <1>1, <1>2, SendWaits DEF OnCpu, RunsOn
<1> QED BY <1>4, <1>5

\* msgrecv from another program, or from anybody
LEMMA RecvTracked ==
  ASSUME TInv, ReqInv, NEW s \in Tcb, NEW sender \in Tcb \cup {NULL},
         Recv(s, sender), NEW t \in Tcb
  PROVE  Tracked(t)' /\ Waits(t)'
<1> USE TypeOKParts, TcbFacts DEF TInv
<1>1. /\ s # SSI /\ Running(s) /\ asked[s] = NULL
      /\ UNCHANGED <<asked, soft_blocked_thread, ssivars>>
  BY DEF Recv, iovars
<1>2. Tracked(t) /\ Waits(t) /\ Tracked(s)
  BY DEF ReqInv
<1>3. CASE recv_blocks(s, sender)
  <2>1. /\ UNCHANGED t_msgq
        /\ t # s => UNCHANGED <<t_status[t], t_wait4sender[t]>>
    BY <1>3 DEF recv_blocks, msgvars, ThreadTypes
  <2>2. Tracked(t)'
    BY <1>1, <1>2, <2>1, QuietPlaces
  <2>3. t = s \/ ~OnCpu(t)
    BY <1>1 DEF Running, OnCpu
  <2>4. Waits(t)'
    <3>1. CASE t = s
      BY <1>1, <3>1 DEF Waits
    <3>2. CASE t # s
      BY <1>1, <1>2, <2>1, <2>3, <3>2, StillWaits
    <3> QED BY <3>1, <3>2
  <2> QED BY <2>2, <2>4
<1>4. ASSUME NEW i \in DOMAIN t_msgq[s], recv_takes(s, sender, i)
      PROVE  Tracked(t)' /\ Waits(t)'
  <2>1. From(t_msgq[s], SSI) = {}
    BY <1>1, <1>2, PlaceFacts, HereOrNowhere DEF Places
  <2>2. t_msgq[s][i].m_sender # SSI
    BY <2>1 DEF From
  <2>3. Kept(SSI, t) /\ Kept(t, SSI)
    BY <1>1, <1>4, <2>2, TakeFrom DEF recv_takes
  <2>4. Tracked(t)'
    BY <1>1, <1>2, <2>3, StillAt DEF InService, request, ssivars
  <2>5. Waits(t)'
    BY <1>1, <1>2, <1>4, StillWaits DEF recv_takes, threadvars, runvars, OnCpu
  <2> QED BY <2>4, <2>5
<1> QED BY <1>3, <1>4 DEF Recv

\* the first half of a stub: the request reaches the SSI, its queue or nobody
LEMMA AskTracked ==
  ASSUME TInv, ReqInv, NEW s \in Tcb, NEW req \in Request, asked[s] = NULL,
         OnCpu(s), t_status[s] = T_STATUS_READY, RunsOn, send(SSI, s, req),
         SsiReturns(s, req), asked' = [asked EXCEPT ![s] = req],
         UNCHANGED soft_blocked_thread, NEW t \in Tcb
  PROVE  Tracked(t)' /\ Waits(t)'
<1> USE TypeOKParts, TcbFacts DEF TInv
<1>1. s # SSI /\ req \in Payload /\ req # NULL
  BY RequestFacts, RequestAssumption
<1>2. Tracked(t) /\ Waits(t) /\ At(s, "none")
  BY <1>1, PlaceFacts DEF ReqInv
<1>3. /\ asked'[s] = req
      /\ t # s => asked'[t] = asked[t]
  BY DEF RunTypes
<1>4. OnCpu(s)' /\ (t # s => ~OnCpu(t))
  BY DEF OnCpu, RunsOn
<1>5. CASE t # s
  <2>1. Kept(SSI, t) /\ Kept(t, SSI)
    BY <1>1, <1>5, SendFrom
  <2>2. Waits(t)'
    BY <1>1, <1>2, <1>3, <1>4, <1>5, SendWaits
  <2>3. CASE UNCHANGED ssivars
    BY <1>1, <1>2, <1>3, <1>5, <2>1, <2>2, <2>3, StillAt DEF InService, request, ssivars
  <2>4. CASE ssi_msg' = [m_sender |-> s, m_value |-> req]
    <3>1. ~InService(t)'
      BY <1>5, <2>4 DEF InService
    <3>2. CASE InService(t)
      <4>1. At(t, "served")
        BY <1>2, <3>2, PlaceFacts
      <4>2. At(t, "none")'
        BY <1>1, <2>1, <3>1, <4>1 DEF At, Kept
      <4> QED BY <2>2, <4>2 DEF Tracked, Places
    <3>3. CASE ~InService(t)
      BY <1>1, <1>2, <1>3, <1>5, <2>1, <2>2, <3>1, <3>3, StillAt
    <3> QED BY <3>2, <3>3
  <2> QED BY <1>1, <2>2, <2>3, <2>4 DEF SsiReturns
<1>6. CASE t = s
  <2>1. t_status'[s] = T_STATUS_READY
    BY <1>1 DEF send, resume_thread, threadvars, ThreadTypes
  <2>2. Waits(t)'
    BY <1>1, <1>4, <1>6, <2>1
       DEF Waits, Live, T_STATUS_NONE, T_STATUS_READY, T_STATUS_W4MSG
  <2>3. Kept(s, SSI)
    BY <1>1, SendFrom
  <2>4. From(t_msgq'[s], SSI) = {} /\ soft_blocked_thread' # s /\ ~InService(s)
        /\ From(t_msgq[SSI], s) = {}
    BY <1>1, <1>2, <2>3 DEF At, Kept
  <2>5. CASE Expects(SSI, s)
    <3>1. Kept(SSI, s)
      BY <1>1, <2>5, SendFrom
    <3>2. ssi_pc' = "serve" /\ ssi_msg' = [m_sender |-> s, m_value |-> req]
      BY <1>1, <2>5 DEF SsiReturns
    <3>3. InService(s)' /\ request' = req
      BY <3>2 DEF InService, request
    <3>4. At(s, "served")'
      BY <1>1, <1>3, <2>4, <3>1, <3>3 DEF At, Kept
    <3> QED BY <1>6, <2>2, <3>4 DEF Tracked, Places
  <2>6. CASE ~Expects(SSI, s)
    <3>1. ~InService(s)'
      BY <1>1, <2>4, <2>6 DEF SsiReturns, InService, ssivars
    <3>2. From(t_msgq'[SSI], s) = {} \/ One(t_msgq'[SSI], s, req)
      BY <1>1, <2>4, SendFrom
    <3>3. At(s, "none")' \/ At(s, "queued")'
      BY <1>1, <1>3, <2>4, <3>1, <3>2 DEF At
    <3> QED BY <1>6, <2>2, <3>3 DEF Tracked, Places
  <2> QED BY <2>5, <2>6
<1> QED BY <1>5, <1>6

\* the second half of a stub: it waits for the answer, ...
LEMMA BlockTracked ==
  ASSUME TInv, ReqInv, NEW s \in Tcb, OnCpu(s), recv_blocks(s, SSI),
         UNCHANGED <<asked, soft_blocked_thread, ssivars>>, NEW t \in Tcb
  PROVE  Tracked(t)' /\ Waits(t)'
<1> USE TypeOKParts, TcbFacts DEF TInv
<1>1. Tracked(t) /\ Waits(t)
  BY DEF ReqInv
<1>2. /\ UNCHANGED t_msgq
      /\ t # s => UNCHANGED <<t_status[t], t_wait4sender[t]>> /\ ~OnCpu(t)
      /\ t_status'[s] = T_STATUS_W4MSG /\ t_wait4sender'[s] = SSI
  BY DEF recv_blocks, msgvars, ThreadTypes, OnCpu
<1>3. Tracked(t)'
  BY <1>1, <1>2, QuietPlaces
<1>4. t = s => Waits(t)'
  BY <1>2 DEF Waits, Live, T_STATUS_NONE, T_STATUS_W4MSG
<1>5. t # s => Waits(t)'
  BY <1>1, <1>2, StillWaits
<1> QED BY <1>3, <1>4, <1>5

\* ... or takes it
LEMMA AwaitTracked ==
  ASSUME TInv, ReqInv, NEW s \in Tcb, AwaitReply(s), NEW t \in Tcb
  PROVE  Tracked(t)' /\ Waits(t)'
<1> USE TypeOKParts, TcbFacts DEF TInv
<1>1. /\ s # SSI /\ OnCpu(s) /\ UNCHANGED <<soft_blocked_thread, ssivars>>
  BY DEF AwaitReply, iovars, Running, OnCpu
<1>2. Tracked(t) /\ Waits(t) /\ Waits(s) /\ Tracked(s)
  BY DEF ReqInv
<1>3. CASE recv_blocks(s, SSI) /\ UNCHANGED asked
  BY <1>1, <1>3, BlockTracked
<1>4. ASSUME NEW i \in DOMAIN t_msgq[s], recv_takes(s, SSI, i),
             asked' = [asked EXCEPT ![s] = NULL]
      PROVE  Tracked(t)' /\ Waits(t)'
  <2>1. t_msgq[s][i].m_sender = SSI
    BY <1>4 DEF recv_takes, IsFirstMatch, Matching
  <2>2. asked'[s] = NULL /\ (t # s => asked'[t] = asked[t])
    BY <1>4 DEF RunTypes
  <2>3. Waits(t)'
    BY <1>1, <1>2, <1>4, <2>2, StillWaits DEF recv_takes, threadvars, runvars, OnCpu
  <2>4. Kept(SSI, t) /\ (t # s => Kept(t, SSI))
    BY <1>1, <1>4, TakeFrom DEF recv_takes
  <2>5. CASE t # s
    BY <1>1, <1>2, <2>2, <2>3, <2>4, <2>5, StillAt DEF InService, request, ssivars
  <2>6. CASE t = s
    <3>1. From(t_msgq[s], SSI) # {}
      BY <2>1 DEF From
    <3>2. At(s, "answered")
      BY <1>2, <3>1, PlaceFacts
    <3>3. From(t_msgq'[s], SSI) = {}
      BY <1>4, <2>1, <3>2, TakeFrom DEF At, recv_takes
    <3>4. ~InService(s)'
      BY <1>1, <3>2 DEF At, InService, ssivars
    <3>5. At(s, "none")'
      BY <1>1, <2>4, <2>6, <3>2, <3>3, <3>4 DEF At, Kept
    <3> QED BY <2>3, <2>6, <3>5 DEF Tracked, Places
  <2> QED BY <2>5, <2>6
<1> QED BY <1>3, <1>4 DEF AwaitReply

-----------------------------------------------------------------------------
(* The kernel.                                                               *)

\* nobody is inside a stub in a free descriptor
LEMMA NewAsksNothing ==
  ASSUME TInv, NEW P, LinkedWith(P), ReqInv, NEW process, ~thread_alloc_fails(process)
  PROVE  /\ Head(thread_h) \in Tcb /\ asked[Head(thread_h)] = NULL
<1>1. Head(thread_h) \in Tcb /\ 1 \in DOMAIN thread_h /\ Head(thread_h) = thread_h[1]
  BY TypeOKParts DEF TInv, thread_alloc_fails, ListTypes
<1>2. ~Live(Head(thread_h))
  BY <1>1 DEF LinkedWith, FreeListOK
<1> QED BY <1>1, <1>2 DEF ReqInv, Waits

\* boot, the scheduler and the timer
LEMMA KernelTracked ==
  ASSUME TInv, NEW P, LinkedWith(P), ReqInv, NEW t \in Tcb,
         Boot \/ Scheduler \/ interval_timer_h \/ TerminalDone \/ UNCHANGED vars
  PROVE  Tracked(t)' /\ Waits(t)'
<1> USE TypeOKParts, TcbFacts DEF TInv
<1>1. UNCHANGED <<t_msgq, asked, soft_blocked_thread, ssivars>>
  BY DEF Boot, LoadSSI, LoadThread, Scheduler, Dispatch, empty_readyq_h,
     interval_timer_h, TerminalDone, vars, nucleusvars, mikabooqvars, msgvars, iovars
<1>2. Tracked(t) /\ Waits(t)
  BY DEF ReqInv
<1>3. Tracked(t)'
  BY <1>1, <1>2, QuietPlaces
<1>4. Preemptive \/ ~OnCpu(t) \/ OnCpu(t)'
  BY DEF Boot, LoadSSI, LoadThread, Scheduler, Dispatch, empty_readyq_h,
     interval_timer_h, InterruptsEnabled, TerminalDone, vars, nucleusvars, runvars,
     Running, OnCpu, ControlOK
<1>5. asked[t] # NULL => UNCHANGED <<t_status[t], t_wait4sender[t]>>
  <2>1. CASE LoadThread
    BY <2>1, NewAsksNothing DEF LoadThread, thread_alloc, ThreadTypes
  <2>2. CASE LoadSSI
    BY <2>2 DEF LoadSSI, ThreadTypes
  <2>3. CASE Scheduler \/ interval_timer_h \/ TerminalDone \/ UNCHANGED vars
    BY <2>3 DEF Scheduler, Dispatch, empty_readyq_h, interval_timer_h, TerminalDone,
       vars, nucleusvars, mikabooqvars, threadvars
  <2> QED BY <2>1, <2>2, <2>3 DEF Boot
<1>6. Waits(t)'
  BY <1>1, <1>2, <1>4, <1>5, StillWaits
<1> QED BY <1>3, <1>6

\* an answer in the name of the SSI, to a thread that has a request of that
\* tag and of which there is no other trace
LEMMA AnswerTracked ==
  ASSUME TInv, NEW x \in Tcb, NEW tag \in Requests,
         send(x, SSI, [reply |-> tag]), StubReturns(x),
         From(t_msgq[SSI], x) = {}, From(t_msgq[x], SSI) = {},
         asked[x] # NULL, asked[x].tag = tag,
         ~InService(x)', soft_blocked_thread' # x
  PROVE  Tracked(x)'
<1> USE TypeOKParts, TcbFacts DEF TInv
<1>1. [reply |-> tag] \in Payload /\ x # SSI
  BY DEF Payload, Reply
<1>2. Kept(SSI, x)
  BY <1>1, SendFrom
<1>3. CASE Expects(x, SSI)
  <2>1. Kept(x, SSI)
    BY <1>1, <1>3, SendFrom
  <2>2. At(x, "none")'
    BY <1>2, <2>1 DEF At, Kept
  <2> QED BY <2>2 DEF Tracked, Places
<1>4. CASE ~Expects(x, SSI)
  <2>1. asked' = asked
    BY <1>4 DEF StubReturns
  <2>2. From(t_msgq'[x], SSI) = {} \/ One(t_msgq'[x], SSI, [reply |-> tag])
    BY <1>1, SendFrom
  <2>3. At(x, "none")' \/ At(x, "answered")'
    BY <1>2, <2>1, <2>2 DEF At, Kept
  <2> QED BY <2>3 DEF Tracked, Places
<1> QED BY <1>3, <1>4

\* the same answer, for the other threads
LEMMA OthersNotAnswered ==
  ASSUME TInv, NEW x \in Tcb, NEW tag \in Requests,
         send(x, SSI, [reply |-> tag]), StubReturns(x), NEW t \in Tcb, t # x
  PROVE  Kept(SSI, t) /\ Kept(t, SSI) /\ asked'[t] = asked[t]
<1> USE TypeOKParts, TcbFacts DEF TInv
<1>1. [reply |-> tag] \in Payload /\ x # SSI
  BY DEF Payload, Reply
<1>2. Kept(SSI, t) /\ Kept(t, SSI)
  BY <1>1, SendFrom
<1> QED BY <1>2 DEF StubReturns, RunTypes

\* the terminal answers, or the kernel panics
LEMMA AcknowledgeTracked ==
  ASSUME TInv, ReqInv, acknowledge, NEW t \in Tcb
  PROVE  Tracked(t)' /\ Waits(t)'
<1> USE TypeOKParts, TcbFacts DEF TInv
<1>1. PICK x \in Tcb : x = soft_blocked_thread
  BY DEF acknowledge, ControlOK, IOTypes
<1>2. Tracked(t) /\ Waits(t) /\ Tracked(x) /\ Waits(x)
  BY DEF ReqInv
<1>3. send(x, SSI, [reply |-> "DO_IO"]) /\ UNCHANGED ssivars
  BY <1>1 DEF acknowledge
<1>4. At(x, "soft")
  BY <1>1, <1>2, PlaceFacts
<1>5. /\ asked[x] # NULL /\ asked[x].tag = "DO_IO" /\ ~InService(x)
      /\ From(t_msgq[SSI], x) = {} /\ From(t_msgq[x], SSI) = {}
  BY <1>4 DEF At
<1>6. "DO_IO" \in Requests
  BY <1>5, RequestFacts DEF RunTypes
<1>7. Preemptive \/ ~OnCpu(t) \/ OnCpu(t)'
  BY DEF acknowledge, InterruptsEnabled, Running, OnCpu, ControlOK
<1>8. CASE send_fails(x, SSI)
  <2>1. UNCHANGED <<t_msgq, asked, soft_blocked_thread, t_status, t_wait4sender>>
    BY <1>1, <1>3, <1>8 DEF acknowledge, send, send_fails, Expects, msgvars, threadvars,
       T_STATUS_NONE, T_STATUS_W4MSG
  <2> QED BY <1>2, <1>3, <1>7, <2>1, QuietPlaces, StillWaits
<1>9. CASE ~send_fails(x, SSI)
  <2>1. StubReturns(x) /\ soft_blocked_thread' = NULL
    BY <1>1, <1>9 DEF acknowledge
  <2>2. IF t = x /\ Expects(x, SSI) THEN asked'[t] = NULL ELSE asked'[t] = asked[t]
    BY <2>1 DEF StubReturns, RunTypes
  <2>3. Waits(t)'
    BY <1>2, <1>3, <1>7, <2>2, SendWaits
  <2>4. CASE t = x
    BY <1>3, <1>5, <1>6, <2>1, <2>3, <2>4, AnswerTracked DEF InService, ssivars
  <2>5. CASE t # x
    <3>1. Kept(SSI, t) /\ Kept(t, SSI) /\ asked'[t] = asked[t]
      BY <1>3, <1>6, <2>1, <2>5, OthersNotAnswered
    <3> QED BY <1>1, <1>2, <1>3, <2>1, <2>3, <2>5, <3>1, StillAt
               DEF InService, request, ssivars
  <2> QED BY <2>4, <2>5
<1> QED BY <1>8, <1>9

-----------------------------------------------------------------------------
(* The SSI.                                                                  *)

\* what the SSI serves is the request its applicant waits on
LEMMA ServedRequest ==
  ASSUME TInv, ReqInv, Running(SSI), ssi_pc \in {"serve", "reply"}
  PROVE  /\ At(applicant, "served") /\ applicant \in Tcb
         /\ asked[applicant] = request /\ request \in Request
         /\ request.tag \in Requests
         /\ Live(applicant)
<1>1. applicant \in Tcb /\ request \in Request /\ InService(applicant)
  BY ServedFacts DEF InService, applicant
<1>2. At(applicant, "served")
  BY <1>1, PlaceFacts DEF ReqInv
<1>3. asked[applicant] = request /\ asked[applicant] # NULL
  BY <1>2 DEF At
<1> QED BY <1>1, <1>2, <1>3, RequestFacts DEF ReqInv, Waits

\* its msgrecv
LEMMA SsiReceiveTracked ==
  ASSUME TInv, ReqInv, SsiReceive, NEW t \in Tcb
  PROVE  Tracked(t)' /\ Waits(t)'
<1> USE TypeOKParts, TcbFacts DEF TInv
<1>1. /\ Running(SSI) /\ ~OnCpu(t) /\ ssi_pc = "recv"
      /\ UNCHANGED <<asked, soft_blocked_thread>>
  BY DEF SsiReceive, Running, OnCpu, iovars
<1>2. Tracked(t) /\ Waits(t) /\ ~InService(t)
  BY <1>1 DEF ReqInv, InService
<1>3. CASE recv_blocks(SSI, NULL) /\ UNCHANGED ssivars
  <2>1. UNCHANGED <<t_msgq, t_status[t], t_wait4sender[t]>>
    BY <1>3 DEF recv_blocks, msgvars, ThreadTypes
  <2> QED BY <1>1, <1>2, <1>3, <2>1, QuietPlaces, StillWaits
<1>4. ASSUME NEW i \in DOMAIN t_msgq[SSI], recv_takes(SSI, NULL, i),
             ssi_pc' = "serve", ssi_msg' = t_msgq[SSI][i]
      PROVE  Tracked(t)' /\ Waits(t)'
  <2>1. Waits(t)'
    BY <1>1, <1>2, <1>4, StillWaits DEF recv_takes, threadvars
  <2>2. PICK m \in RequestMessage : m = t_msgq[SSI][i]
    BY DEF MsgTypes
  <2>3. m.m_sender # SSI
    BY <2>2 DEF RequestMessage
  <2>4. /\ Kept(t, SSI) /\ (t # m.m_sender => Kept(SSI, t))
        /\ \A v : One(t_msgq[SSI], m.m_sender, v) => From(t_msgq'[SSI], m.m_sender) = {}
    BY <1>4, <2>2, <2>3, TakeFrom DEF recv_takes
  <2>5. InService(t)' <=> t = m.m_sender
    BY <1>4, <2>2 DEF InService
  <2>6. CASE t # m.m_sender
    BY <1>1, <1>2, <2>1, <2>4, <2>5, <2>6, StillAt
  <2>7. CASE t = m.m_sender
    <3>1. i \in From(t_msgq[SSI], t)
      BY <2>2, <2>7 DEF From
    <3>2. At(t, "queued")
      BY <1>2, <3>1, PlaceFacts
    <3>3. m.m_value = asked[t]
      BY <2>2, <3>1, <3>2 DEF At, One
    <3>4. request' = asked'[t]
      BY <1>1, <1>4, <2>2, <3>3 DEF request
    <3>5. At(t, "served")'
      BY <1>1, <2>4, <2>5, <2>7, <3>2, <3>4 DEF At, Kept
    <3> QED BY <2>1, <3>5 DEF Tracked, Places
  <2> QED BY <2>6, <2>7
<1> QED BY <1>3, <1>4 DEF SsiReceive

\* its msgsend
LEMMA SsiReplyTracked ==
  ASSUME TInv, ReqInv, SsiReply, NEW t \in Tcb
  PROVE  Tracked(t)' /\ Waits(t)'
<1> USE TypeOKParts, TcbFacts DEF TInv
<1>1. Running(SSI) /\ ssi_pc = "reply" /\ UNCHANGED <<runvars, soft_blocked_thread>>
  BY DEF SsiReply, iovars
<1>2. PICK x \in Tcb : x = applicant
  BY <1>1, ServedRequest
<1>3. PICK tag \in Requests : tag = request.tag
  BY <1>1, ServedRequest
<1>4. /\ send(x, SSI, [reply |-> tag]) /\ StubReturns(x)
      /\ ssi_pc' = "recv"
  BY <1>2, <1>3 DEF SsiReply, Done
<1>5. At(x, "served") /\ asked[x].tag = tag
  BY <1>1, <1>2, <1>3, ServedRequest
<1>6. Tracked(t) /\ Waits(t)
  BY DEF ReqInv
<1>7. ~InService(t)' /\ ~InService(x)' /\ (InService(t) => t = x)
  BY <1>2, <1>4 DEF InService, applicant
<1>8. Waits(t)'
  <2>1. IF t = x /\ Expects(x, SSI) THEN asked'[t] = NULL ELSE asked'[t] = asked[t]
    BY <1>4 DEF StubReturns, RunTypes
  <2>2. ~OnCpu(t)
    BY <1>1 DEF Running, OnCpu
  <2> QED BY <1>4, <1>6, <2>1, <2>2, SendWaits
<1>9. CASE t = x
  BY <1>1, <1>4, <1>5, <1>7, <1>8, <1>9, AnswerTracked DEF At
<1>10. CASE t # x
  <2>1. Kept(SSI, t) /\ Kept(t, SSI) /\ asked'[t] = asked[t]
    BY <1>4, <1>10, OthersNotAnswered
  <2> QED BY <1>1, <1>6, <1>7, <1>8, <1>10, <2>1, StillAt
<1> QED BY <1>9, <1>10

\* the services that answer at once
LEMMA ServeTracked ==
  ASSUME TInv, NEW P, LinkedWith(P), ReqInv,
         ServeGet \/ create_thread_s \/ create_process_s, NEW t \in Tcb
  PROVE  Tracked(t)' /\ Waits(t)'
<1> USE TypeOKParts, TcbFacts DEF TInv
<1>1. /\ Running(SSI) /\ ~OnCpu(t) /\ ssi_pc = "serve"
      /\ Answered \/ UNCHANGED ssivars
      /\ UNCHANGED <<t_msgq, soft_blocked_thread>>
  BY DEF ServeGet, create_thread_s, create_process_s, Serving, Running, OnCpu, iovars,
     mikabooqvars, msgvars
<1>2. Tracked(t) /\ Waits(t)
  BY DEF ReqInv
<1>3. /\ UNCHANGED asked
      /\ asked[t] # NULL => UNCHANGED <<t_status[t], t_wait4sender[t]>>
  <2>1. CASE UNCHANGED <<threadvars, asked>>
    BY <2>1 DEF threadvars
  <2>2. ASSUME NEW process, ~thread_alloc_fails(process), __create_thread_s(process)
        PROVE  /\ UNCHANGED asked
               /\ asked[t] # NULL => UNCHANGED <<t_status[t], t_wait4sender[t]>>
    <3>1. PICK new \in Tcb : new = Head(thread_h) /\ asked[new] = NULL
      BY <2>2, NewAsksNothing
    <3>2. asked' = asked
      BY <2>2, <3>1 DEF __create_thread_s, RunTypes
    <3>3. t # new => UNCHANGED <<t_status[t], t_wait4sender[t]>>
      BY <2>2, <3>1 DEF __create_thread_s, thread_alloc, ThreadTypes
    <3> QED BY <3>1, <3>2, <3>3
  <2> QED BY <2>1, <2>2 DEF ServeGet, mikabooqvars, create_thread_s, create_process_s
<1>4. Tracked(t)'
  BY <1>1, <1>2, <1>3, QuietPlaces DEF Answered
<1>5. Waits(t)'
  BY <1>1, <1>2, <1>3, StillWaits
<1> QED BY <1>4, <1>5

\* the terminal gets a command, or the kernel panics
LEMMA DoIoTracked ==
  ASSUME TInv, ReqInv, do_io_s, NEW t \in Tcb
  PROVE  Tracked(t)' /\ Waits(t)'
<1> USE TypeOKParts, TcbFacts DEF TInv
<1>1. /\ Running(SSI) /\ ~OnCpu(t) /\ ssi_pc = "serve" /\ request.tag = "DO_IO"
      /\ UNCHANGED <<t_msgq, asked, t_status, t_wait4sender>>
  BY DEF do_io_s, Serving, Running, OnCpu, mikabooqvars, msgvars, threadvars
<1>2. Tracked(t) /\ Waits(t)
  BY DEF ReqInv
<1>3. Waits(t)'
  BY <1>1, <1>2, StillWaits
<1>4. PICK x \in Tcb : x = applicant
  BY <1>1, ServedRequest
<1>5. CASE soft_blocked_thread = NULL /\ soft_blocked_thread' = x /\ ssi_pc' = "recv"
  <2>1. At(x, "served") /\ asked[x].tag = "DO_IO"
    BY <1>1, <1>4, ServedRequest
  <2>2. ~InService(t)' /\ (InService(t) => t = x)
    BY <1>4, <1>5 DEF InService, applicant
  <2>3. t = x => At(t, "soft")'
    BY <1>1, <1>5, <2>1, <2>2 DEF At
  <2>4. t # x => Tracked(t)'
    BY <1>1, <1>2, <1>5, <2>2, StillAt DEF Kept
  <2> QED BY <1>3, <2>3, <2>4 DEF Tracked, Places
<1>6. CASE UNCHANGED <<soft_blocked_thread, ssivars>>
  BY <1>1, <1>2, <1>3, <1>6, QuietPlaces
<1> QED BY <1>4, <1>5, <1>6 DEF do_io_s, soft_block, Done

-----------------------------------------------------------------------------
(* The terminations.                                                         *)

\* what the two kinds of system have in common when something terminates
LEMMA OrderlyFacts ==
  ASSUME Orderly, Requests \cap Terminators # {}
  PROVE  ~Preemptive /\ "DO_IO" \notin Requests
  BY DEF Orderly

\* ... no thread is soft blocked
LEMMA NobodySoft ==
  ASSUME Orderly, Requests \cap Terminators # {}, TInv, NEW t \in Tcb, Tracked(t)
  PROVE  soft_blocked_thread # t
<1> SUFFICES ASSUME soft_blocked_thread = t PROVE FALSE
  OBVIOUS
<1>1. asked[t] # NULL /\ asked[t].tag = "DO_IO"
  BY PlaceFacts DEF At
<1>2. asked[t] \in Request
  BY <1>1, TypeOKParts DEF TInv, RunTypes
<1> QED BY <1>1, <1>2, OrderlyFacts, RequestFacts

\* a termination begins, or a manager is registered
LEMMA BeginTracked ==
  ASSUME Orderly, TInv, Belongs, ReqInv,
         ServeTerminateProcess \/ terminate_thread_s \/ __setmgr,
         NEW t \in Tcb
  PROVE  Tracked(t)' /\ Waits(t)' /\ Terminates' /\ ~stale'
<1> USE TypeOKParts, TcbFacts DEF TInv
<1>1. /\ Running(SSI) /\ ~OnCpu(t) /\ ssi_pc = "serve" /\ request.tag \in Terminators
      /\ UNCHANGED <<asked, soft_blocked_thread>>
  BY DEF ServeTerminateProcess, terminate_thread_s, __setmgr, Serving, Running, OnCpu,
     iovars, Terminators
<1>2. Tracked(t) /\ Waits(t) /\ ~stale
  BY DEF ReqInv
<1>3. PICK x \in Tcb : x = applicant
  BY <1>1, ServedRequest
<1>4. /\ At(x, "served") /\ Live(x) /\ t_pcb[x] # NULL
      /\ Requests \cap Terminators # {}
  BY <1>1, <1>3, ServedRequest DEF Belongs
<1>5. UNCHANGED <<t_status, t_wait4sender, stale>>
  BY <1>3, <1>4 DEF ServeTerminateProcess, terminate_thread_s, __setmgr,
     terminate_process_s, mikabooqvars, threadvars, termvars
<1>6. Waits(t)'
  BY <1>1, <1>2, <1>5, StillWaits
<1>7. CASE UNCHANGED t_msgq /\ Answered
  <2>1. Tracked(t)'
    BY <1>1, <1>2, <1>7, QuietPlaces DEF Answered
  <2> QED BY <1>2, <1>5, <1>6, <1>7, <2>1 DEF Answered, Terminates
<1>8. CASE /\ ssi_pc' = "terminate" /\ UNCHANGED ssi_msg
           /\ \/ UNCHANGED t_msgq /\ victim' = NULL
              \/ StartTerminating(x, t_msgq)
  <2>1. /\ Kept(SSI, t) /\ (t # x => Kept(t, SSI))
        /\ t_msgq'[SSI] = t_msgq[SSI] /\ From(t_msgq'[x], SSI) = {}
    <3>1. /\ \A u \in Thread : u # x => t_msgq'[u] = t_msgq[u]
          /\ t_msgq'[x] \in {t_msgq[x], <<>>}
      BY <1>8 DEF StartTerminating, MsgTypes
    <3>2. From(<<>>, SSI) = {} /\ From(t_msgq[x], SSI) = {}
      BY <1>4 DEF From, At
    <3> QED BY <3>1, <3>2 DEF Kept
  <2>2. ~InService(t)' /\ (InService(t) => t = x)
    BY <1>3, <1>8 DEF InService, applicant
  <2>3. At(x, "none")'
    BY <1>1, <1>4, <1>8, <2>1 DEF At, InService
  <2>4. Tracked(t)'
    <3>1. CASE t = x
      BY <2>3, <3>1 DEF Tracked, Places
    <3>2. CASE t # x
      BY <1>1, <1>2, <2>1, <2>2, <3>2, StillAt
    <3> QED BY <3>1, <3>2
  <2>5. applicant' = x /\ (victim' # NULL => victim' = x)
    BY <1>3, <1>8 DEF applicant, StartTerminating
  <2>6. Terminates'
    BY <1>4, <1>5, <2>3, <2>5 DEF Terminates, At, Live
  <2> QED BY <1>2, <1>5, <1>6, <2>4, <2>6
<1>9. CASE terminate_process_s
  BY <1>8, <1>9 DEF terminate_process_s, mikabooqvars, msgvars
<1>10. CASE __setmgr
  BY <1>3, <1>4, <1>7, <1>9, <1>10 DEF __setmgr, mikabooqvars, msgvars
<1>11. CASE terminate_thread_s
  BY <1>3, <1>8, <1>9, <1>11 DEF terminate_thread_s
<1>12. CASE ServeTerminateProcess
  BY <1>3, <1>4, <1>9, <1>12 DEF ServeTerminateProcess
<1> QED BY <1>10, <1>11, <1>12

\* clean_sys_msg takes a message of the thread out of a queue, or none
LEMMA CleanFrom ==
  ASSUME MsgTypes, NEW t \in Tcb, NEW u \in Thread
  PROVE  LET r == clean_sys_msg(t)[u]
         IN  /\ \A x : From(t_msgq[u], x) = {} => From(r, x) = {}
             /\ \A x, v : x # t /\ One(t_msgq[u], x, v) => One(r, x, v)
             /\ clean_sys_msg_queue(t) = u =>
                  \A v : One(t_msgq[u], t, v) => From(r, t) = {}
<1> USE TcbFacts
<1> DEFINE queue == clean_sys_msg_queue(t)
           first == CHOOSE i \in DOMAIN t_msgq[queue] : IsFirstMatch(i, queue, t)
<1>1. t_msgq[u] \in Seq(Message) /\ DOMAIN t_msgq = Thread
  BY DEF MsgTypes
<1>2. CASE queue = u /\ Matching(u, t) # {}
  <2>1. first \in DOMAIN t_msgq[u] /\ IsFirstMatch(first, u, t)
    BY <1>2, FirstMatchExists
  <2>2. clean_sys_msg(t)[u] = RemoveAt(t_msgq[u], first)
    BY <1>1, <1>2 DEF clean_sys_msg
  <2> HIDE DEF queue, first
  <2>3. t_msgq[u][first].m_sender = t
    BY <2>1 DEF IsFirstMatch, Matching
  <2> QED BY <1>1, <2>1, <2>2, <2>3, RemoveFrom
<1>3. CASE ~(queue = u /\ Matching(u, t) # {})
  <2>1. clean_sys_msg(t)[u] = t_msgq[u]
    BY <1>1, <1>3 DEF clean_sys_msg
  <2>2. queue = u => From(t_msgq[u], t) = {}
    BY <1>3 DEF Matching, From
  <2>3. \A v : One(t_msgq[u], t, v) => From(t_msgq[u], t) # {}
    BY DEF One
  <2> QED BY <2>1, <2>2, <2>3
<1> QED BY <1>2, <1>3

\* a thread is picked: its request, which it waits on, goes with its messages
LEMMA PickTracked ==
  ASSUME Orderly, TInv, TreeInv, Belongs, ReqInv, PickThread, NEW t \in Tcb
  PROVE  Tracked(t)' /\ Waits(t)' /\ Terminates'
<1> USE TypeOKParts, TcbFacts DEF TInv
<1>1. /\ Running(SSI) /\ ssi_pc = "terminate" /\ Requests \cap Terminators # {}
      /\ UNCHANGED <<asked, soft_blocked_thread, t_status, t_wait4sender, ssivars>>
  BY DEF PickThread, Terminating, ReqInv, Terminates, iovars, threadvars
<1>2. /\ Tracked(t) /\ Waits(t) /\ ~OnCpu(t)
      /\ From(t_msgq[SSI], applicant) = {} /\ applicant \in Tcb
  BY <1>1, ServedFacts DEF ReqInv, Terminates, Running, OnCpu
<1>3. PICK v, q : /\ v = Head(p_threads[dying_proc]) /\ StartTerminating(v, q)
                  /\ \/ q = t_msgq /\ (v = applicant \/ t_status[v] # T_STATUS_W4MSG)
                     \/ q = clean_sys_msg(v) /\ t_status[v] = T_STATUS_W4MSG
  BY DEF PickThread
<1>4. v \in Tcb /\ Live(v)
  <2>1. dying_proc \in Proc /\ p_threads[dying_proc] # <<>>
    BY FrontLastElements DEF PickThread, dying_proc, TermTypes
  <2>2. p_threads[dying_proc] \in Seq(Tcb) /\ v \in ToSet(p_threads[dying_proc])
    BY <1>3, <2>1 DEF ListTypes, ToSet
  <2>3. v \in Tcb /\ t_pcb[v] = dying_proc
    BY <2>1, <2>2 DEF TreeInv, ThreadLists, IsListOf
  <2> QED BY <2>1, <2>3 DEF Belongs
<1>5. Tracked(v) /\ Waits(v) /\ ~OnCpu(v) /\ ~Preemptive
  BY <1>1, <1>4, OrderlyFacts DEF ReqInv, Running, OnCpu
<1>6. /\ \A u \in Thread : \A x : From(t_msgq[u], x) = {} => From(q[u], x) = {}
      /\ \A u \in Thread : \A x, w : x # v /\ One(t_msgq[u], x, w) => One(q[u], x, w)
      /\ DOMAIN q = Thread
  BY <1>3, <1>4, CleanFrom, CleanType DEF MsgTypes
<1>7. From(q[SSI], v) = {}
  <2>1. CASE From(t_msgq[SSI], v) = {}
    BY <1>6, <2>1
  <2>2. CASE From(t_msgq[SSI], v) # {}
    <3>1. At(v, "queued")
      BY <1>4, <1>5, <2>2, PlaceFacts
    <3>2. t_status[v] = T_STATUS_W4MSG /\ t_wait4sender[v] = SSI /\ v # applicant
      BY <1>2, <1>5, <2>2, <3>1 DEF Waits, At
    <3>3. q = clean_sys_msg(v) /\ clean_sys_msg_queue(v) = SSI
      BY <1>3, <3>2 DEF clean_sys_msg_queue
    <3> QED BY <1>4, <3>1, <3>3, CleanFrom DEF At
  <2> QED BY <2>1, <2>2
<1>8. /\ \A u \in Thread : u # v => t_msgq'[u] = q[u]
      /\ t_msgq'[v] = <<>> /\ victim' = v
  BY <1>3, <1>4, <1>6 DEF StartTerminating
<1>9. From(t_msgq'[SSI], v) = {} /\ From(t_msgq'[v], SSI) = {}
  BY <1>4, <1>7, <1>8 DEF From
<1>10. Waits(t)'
  BY <1>1, <1>2, StillWaits
<1>11. ~InService(t) /\ ~InService(t)'
  BY <1>1 DEF InService, ssivars
<1>12. ASSUME t = v PROVE Tracked(t)'
  <2>1. At(t, "none")'
    BY <1>1, <1>2, <1>9, <1>11, <1>12, NobodySoft DEF At
  <2> QED BY <2>1 DEF Tracked, Places
<1>13. ASSUME t # v PROVE Tracked(t)'
  <2>1. Kept(SSI, t) /\ Kept(t, SSI)
    BY <1>4, <1>6, <1>8, <1>13 DEF Kept
  <2> QED BY <1>1, <1>2, <1>11, <1>13, <2>1, StillAt
<1>14. Terminates'
  <2>1. applicant' = applicant
    BY <1>1 DEF applicant, ssivars
  <2>2. From(t_msgq'[SSI], applicant) = {}
    BY <1>2, <1>4, <1>6, <1>8
  <2>3. Live(v)'
    BY <1>1, <1>4 DEF Live
  <2> QED BY <1>1, <1>8, <1>9, <2>1, <2>2, <2>3 DEF Terminates
<1> QED BY <1>10, <1>12, <1>13, <1>14

\* a thread that waits for the victim is resumed: it was inside no stub
LEMMA ResumeTracked ==
  ASSUME TInv, NEW P, LinkedWith(P), ReqInv, ResumeWaiter, NEW t \in Tcb
  PROVE  Tracked(t)' /\ Waits(t)' /\ Terminates'
<1> USE TypeOKParts, TcbFacts DEF TInv
<1>1. /\ Running(SSI) /\ ssi_pc = "terminate" /\ ~OnCpu(t) /\ victim \in Tcb
      /\ UNCHANGED <<t_msgq, asked, soft_blocked_thread, ssivars, victim>>
  BY DEF ResumeWaiter, Terminating, Running, OnCpu, msgvars, iovars, termvars, TermTypes
<1>2. Tracked(t) /\ Waits(t) /\ Terminates
  BY DEF ReqInv
<1>3. PICK x \in Tcb : /\ thread_qhead(links, t_wait4me(victim)) = t_sched(x)
                       /\ resume_thread(x)
  BY DEF ResumeWaiter
<1>4. x \in Thread /\ t_status[x] = T_STATUS_W4MSG /\ t_wait4sender[x] = victim
  BY <1>1, <1>3, WaiterIsBlocked
<1>5. asked[x] = NULL
  BY <1>1, <1>4 DEF ReqInv, Waits
<1>6. /\ \A u \in Thread : Live(u) => Live(u)'
      /\ t # x => UNCHANGED <<t_status[t], t_wait4sender[t]>>
  BY <1>3 DEF resume_thread, ThreadTypes, Live, T_STATUS_NONE, T_STATUS_READY
<1>7. Tracked(t)'
  BY <1>1, <1>2, QuietPlaces
<1>8. Waits(t)'
  BY <1>1, <1>2, <1>5, <1>6, StillWaits
<1>9. Terminates'
  BY <1>1, <1>2, <1>6 DEF Terminates, applicant, ssivars
<1> QED BY <1>7, <1>8, <1>9

\* the victim dies, and was alive
LEMMA FreeTracked ==
  ASSUME Orderly, TInv, ReqInv, FreeVictim, NEW t \in Tcb
  PROVE  Tracked(t)' /\ Waits(t)' /\ Terminates' /\ ~stale'
<1> USE TypeOKParts, TcbFacts DEF TInv
<1>1. PICK v \in Tcb : v = victim
  BY DEF FreeVictim, TermTypes
<1>2. /\ Running(SSI) /\ ssi_pc = "terminate" /\ ~OnCpu(t)
      /\ t_msgq[v] = <<>> /\ asked' = [asked EXCEPT ![v] = NULL] /\ victim' = NULL
      /\ t_status' = [t_status EXCEPT ![v] = T_STATUS_NONE]
      /\ t_wait4sender' = [t_wait4sender EXCEPT ![v] = NULL]
      /\ UNCHANGED <<t_msgq, soft_blocked_thread>>
      /\ UNCHANGED ssivars \/ ssi_pc' = "recv"
  BY <1>1 DEF FreeVictim, Terminating, Running, OnCpu, thread_free_ok, thread_free,
     msgvars, iovars, Done
<1>3. Tracked(t) /\ Waits(t) /\ Terminates /\ ~stale
  BY DEF ReqInv
<1>4. Live(v) /\ From(t_msgq[SSI], v) = {} /\ Requests \cap Terminators # {}
  BY <1>1, <1>2, <1>3 DEF Terminates
<1>5. /\ asked'[v] = NULL
      /\ t # v => UNCHANGED <<asked[t], t_status[t], t_wait4sender[t]>>
  BY <1>2 DEF RunTypes, ThreadTypes
<1>6. ~stale'
  BY <1>1, <1>3, <1>4 DEF FreeVictim, Live
<1>7. Waits(t)'
  BY <1>2, <1>3, <1>5, StillWaits
<1>8. ~InService(t) /\ ~InService(t)'
  BY <1>2 DEF InService, ssivars
<1>9. ASSUME t = v PROVE Tracked(t)'
  <2>1. From(t_msgq[v], SSI) = {}
    BY <1>2 DEF From
  <2>2. At(t, "none")'
    BY <1>2, <1>3, <1>4, <1>8, <1>9, <2>1, NobodySoft DEF At
  <2> QED BY <2>2 DEF Tracked, Places
<1>10. ASSUME t # v PROVE Tracked(t)'
  BY <1>2, <1>3, <1>5, <1>8, <1>10, StillAt DEF Kept
<1>11. Terminates'
  BY <1>2, <1>3 DEF Terminates, applicant, ssivars
<1> QED BY <1>6, <1>7, <1>9, <1>10, <1>11

\* the other turns
LEMMA TurnTracked ==
  ASSUME TInv, ReqInv, PickChild \/ DeleteProcess, NEW t \in Tcb
  PROVE  Tracked(t)' /\ Waits(t)' /\ Terminates'
<1> USE TypeOKParts, TcbFacts DEF TInv
<1>1. /\ Running(SSI) /\ ssi_pc = "terminate" /\ ~OnCpu(t)
      /\ UNCHANGED <<t_msgq, asked, soft_blocked_thread, t_status, t_wait4sender, victim>>
      /\ UNCHANGED ssivars \/ ssi_pc' = "recv"
  BY DEF PickChild, DeleteProcess, Terminating, Running, OnCpu, mikabooqvars, msgvars,
     threadvars, iovars, Done
<1>2. Tracked(t) /\ Waits(t) /\ Terminates
  BY DEF ReqInv
<1>3. Tracked(t)'
  BY <1>1, <1>2, QuietPlaces
<1>4. Waits(t)'
  BY <1>1, <1>2, StillWaits
<1>5. Terminates'
  BY <1>1, <1>2 DEF Terminates, applicant, ssivars, Live
<1> QED BY <1>3, <1>4, <1>5

\* the steps that terminate nothing
LEMMA TerminatesKept ==
  ASSUME TInv, TreeInv, Terminates,
         \/ Boot \/ Scheduler \/ Interrupt \/ UNCHANGED vars
         \/ \E s \in Tcb : Program(s)
         \/ SsiReceive \/ SsiReply \/ ServeGet \/ create_thread_s \/ create_process_s
         \/ do_io_s,
         UNCHANGED termvars
  PROVE  Terminates'
<1>1. CASE ssi_pc' # "terminate"
  BY <1>1 DEF Terminates
<1>2. CASE ssi_pc' = "terminate"
  <2>1. ssi_pc = "terminate"
    BY <1>2 DEF Boot, LoadSSI, LoadThread, Scheduler, Dispatch, empty_readyq_h, Interrupt,
       interval_timer_h, TerminalDone, acknowledge, Program, Send, Recv, Ask, AwaitReply,
       SsiReturns, SsiReceive, SsiReply, ServeGet, create_thread_s, create_process_s,
       do_io_s, Serving, Answered, Done, vars, nucleusvars, ssivars
  <2>2. Running(SSI)
    BY <2>1 DEF TreeInv, TermShape
  <2>3. TerminalDone \/ UNCHANGED vars
    BY <2>1, <2>2, TcbFacts DEF Boot, LoadSSI, LoadThread, Scheduler, Dispatch,
       empty_readyq_h, Interrupt, interval_timer_h, acknowledge, InterruptsEnabled,
       Program, Send, Recv, Ask, AwaitReply, SsiReceive, SsiReply, ServeGet,
       create_thread_s, create_process_s, do_io_s, Serving, Running
  <2>4. UNCHANGED <<t_msgq, t_status, ssivars, victim>>
    BY <2>3 DEF TerminalDone, vars, nucleusvars, mikabooqvars, msgvars, threadvars,
       termvars
  <2> QED BY <2>4 DEF Terminates, applicant, ssivars, Live
<1> QED BY <1>1, <1>2

-----------------------------------------------------------------------------
(* Every step keeps the requests in their places.                            *)

LEMMA ReqStep ==
  ASSUME Orderly, TInv, NEW P, LinkedWith(P), TreeInv, Belongs, ReqInv, [Next]_vars
  PROVE  ReqInv'
<1>1. /\ Terminates /\ ~stale
      /\ \A t \in Tcb : Tracked(t) /\ Waits(t)
  BY DEF ReqInv
<1>2. ASSUME \A t \in Tcb : Tracked(t)' /\ Waits(t)', Terminates', ~stale'
      PROVE  ReqInv'
  BY <1>2 DEF ReqInv
<1>3. ASSUME UNCHANGED termvars PROVE ~stale'
  BY <1>1, <1>3 DEF termvars
<1>4. CASE UNCHANGED vars
  BY <1>1, <1>2, <1>3, <1>4, KernelTracked, TerminatesKept DEF vars
<1>5. CASE (Boot \/ Scheduler \/ Interrupt) /\ UNCHANGED termvars
  BY <1>1, <1>2, <1>3, <1>5, KernelTracked, AcknowledgeTracked, TerminatesKept
     DEF Interrupt
<1>6. ASSUME NEW s \in Tcb, Program(s), UNCHANGED termvars PROVE ReqInv'
  <2>1. OnCpu(s) /\ t_status[s] = T_STATUS_READY
    BY <1>6 DEF Program, Send, Recv, Ask, AwaitReply, Running, OnCpu, LinkedWith, CurrentReady
  <2>2. ASSUME UNCHANGED runvars PROVE RunsOn
    BY <1>6, <2>2 DEF Program, Send, Recv, Ask, AwaitReply, Running, RunsOn, runvars
  <2>3. ASSUME NEW dest \in Tcb, NEW value \in Values, Send(s, dest, value)
        PROVE  \A t \in Tcb : Tracked(t)' /\ Waits(t)'
    BY <2>2, <2>3, SendTracked DEF Send, Payload, iovars
  <2>4. ASSUME NEW req \in Request, Ask(s, req)
        PROVE  \A t \in Tcb : Tracked(t)' /\ Waits(t)'
    BY <2>1, <2>2, <2>4, AskTracked DEF Ask, iovars
  <2>5. \A t \in Tcb : Tracked(t)' /\ Waits(t)'
    BY <1>6, <2>3, <2>4, RecvTracked, AwaitTracked DEF Program
  <2> QED BY <1>1, <1>2, <1>3, <1>6, <2>5, TerminatesKept
<1>7. CASE SsiReceive \/ SsiReply \/ ServeGet \/ create_thread_s \/ create_process_s
           \/ do_io_s
  <2>1. UNCHANGED termvars
    BY <1>7 DEF SsiReceive, SsiReply, ServeGet, create_thread_s, create_process_s, do_io_s
  <2>2. \A t \in Tcb : Tracked(t)' /\ Waits(t)'
    BY <1>1, <1>7, SsiReceiveTracked, SsiReplyTracked, ServeTracked, DoIoTracked
  <2> QED BY <1>1, <1>2, <1>3, <1>7, <2>1, <2>2, TerminatesKept
<1>8. CASE ServeTerminateProcess \/ terminate_thread_s \/ __setmgr
  <2>1. \A t \in Tcb : Tracked(t)' /\ Waits(t)' /\ Terminates' /\ ~stale'
    BY <1>1, <1>8, BeginTracked
  <2>2. applicant \in Tcb
    BY <1>8, ServedFacts DEF ServeTerminateProcess, terminate_thread_s, __setmgr, Serving
  <2> QED BY <1>2, <2>1, <2>2
<1>9. CASE PickThread \/ ResumeWaiter \/ FreeVictim \/ PickChild \/ DeleteProcess
  <2>1. \A t \in Tcb : Tracked(t)' /\ Waits(t)' /\ Terminates'
    BY <1>1, <1>9, PickTracked, ResumeTracked, FreeTracked, TurnTracked
  <2>2. applicant \in Tcb
    BY <1>9, ServedFacts DEF PickThread, ResumeWaiter, FreeVictim, PickChild,
       DeleteProcess, Terminating
  <2>3. ~stale'
    BY <1>1, <1>9, <2>2, FreeTracked DEF PickThread, ResumeWaiter, PickChild,
       DeleteProcess, termvars
  <2> QED BY <1>2, <2>1, <2>2, <2>3
<1> QED BY <1>4, <1>5, <1>6, <1>7, <1>8, <1>9 DEF Next, Service, Stopped

LEMMA ReqInit == Init => ReqInv
<1> SUFFICES ASSUME Init PROVE ReqInv
  OBVIOUS
<1> USE TcbFacts DEF Init, InitServices, InitNucleus, InitMikabooq, thread_init
<1>1. ~stale /\ Terminates
  BY DEF Terminates
<1>2. \A t \in Tcb : At(t, "none") /\ Waits(t)
  BY DEF At, From, InService, Waits
<1> QED BY <1>1, <1>2 DEF ReqInv, Tracked, Places

\* the invariants together
LEMMA InvariantReq ==
  ASSUME Orderly
  PROVE  Spec => [](TInv /\ Linked /\ TreeInv /\ SoundInv /\ ReqInv)
<1>1. /\ TInv /\ LinkedUntilStale /\ TreeInv /\ SoundInv /\ ReqInv /\ [Next]_vars
      => ReqInv'
  <2> SUFFICES ASSUME TInv, LinkedUntilStale, TreeInv, SoundInv, ReqInv, [Next]_vars
               PROVE  ReqInv'
    OBVIOUS
  <2>1. LinkedWith({}) /\ Belongs
    BY NobodyParked DEF LinkedUntilStale, SoundInv, Counted, ReqInv
  <2> QED BY <2>1, ReqStep
<1>2. LinkedUntilStale /\ ReqInv => Linked
  BY DEF LinkedUntilStale, ReqInv
<1> QED
  BY <1>1, <1>2, ReqInit, InvariantTInv, ListsSoundUntilStale, InvariantTree,
     InvariantSound, PTL DEF Spec

-----------------------------------------------------------------------------
(* What follows.                                                             *)

\* how many messages of x there are, and what they say
LEMMA FromCounts ==
  ASSUME NEW s, NEW x
  PROVE  /\ From(s, x) = {} => Cardinality(From(s, x)) = 0
         /\ \A v : One(s, x, v) => /\ Cardinality(From(s, x)) = 1
                                   /\ \A i \in From(s, x) : s[i].m_value = v
<1>1. ASSUME NEW v, One(s, x, v)
      PROVE  Cardinality(From(s, x)) = 1 /\ \A i \in From(s, x) : s[i].m_value = v
  <2>1. PICK k : From(s, x) = {k} /\ s[k].m_value = v
    BY <1>1 DEF One
  <2>2. Cardinality({k}) = 1
    BY FS_Singleton
  <2> QED BY <2>1, <2>2
<1>2. Cardinality({}) = 0
  BY FS_EmptySet
<1> QED BY <1>1, <1>2

\* the outstanding requests of t are its messages to the SSI
LEMMA OutstandingFrom ==
  ASSUME NEW t \in Tcb
  PROVE  /\ DOMAIN Outstanding(t) = From(t_msgq[SSI], t)
         /\ \A i \in From(t_msgq[SSI], t) : Outstanding(t)[i] = t_msgq[SSI][i].m_value
  BY DEF Outstanding, From

LEMMA ReqIntegrity == ReqInv => RequestIntegrity
<1> SUFFICES ASSUME ReqInv, NEW t \in Tcb
             PROVE  /\ \A i \in DOMAIN Outstanding(t) : Outstanding(t)[i] = asked[t]
                    /\ InService(t) => request = asked[t]
                    /\ Cardinality(DOMAIN Outstanding(t))
                         + (IF InService(t) THEN 1 ELSE 0) <= 1
  BY DEF RequestIntegrity
<1>1. PICK place \in Places : At(t, place)
  BY DEF ReqInv, Tracked
<1>2. PICK n : n = Cardinality(From(t_msgq[SSI], t))
  OBVIOUS
<1>3. /\ \A i \in From(t_msgq[SSI], t) : t_msgq[SSI][i].m_value = asked[t]
      /\ IF place = "queued" THEN n = 1 ELSE n = 0
  BY <1>1, <1>2, FromCounts DEF At
<1>4. /\ InService(t) => request = asked[t]
      /\ InService(t) => place = "served"
  BY <1>1 DEF At
<1>5. n + (IF InService(t) THEN 1 ELSE 0) <= 1
  BY <1>3, <1>4
<1> QED BY <1>2, <1>3, <1>4, <1>5, OutstandingFrom

LEMMA ReqReplies == ReqInv => RepliesMatch
<1> SUFFICES ASSUME ReqInv, NEW t \in Tcb
             PROVE  /\ Cardinality(From(t_msgq[t], SSI)) <= 1
                    /\ \A i \in From(t_msgq[t], SSI) :
                         /\ asked[t] # NULL
                         /\ t_msgq[t][i].m_value = [reply |-> asked[t].tag]
                         /\ DOMAIN Outstanding(t) = {} /\ ~InService(t)
  BY DEF RepliesMatch, From
<1>1. PICK place \in Places : At(t, place)
  BY DEF ReqInv, Tracked
<1>2. CASE place = "answered"
  <2>1. /\ Cardinality(From(t_msgq[t], SSI)) = 1
        /\ \A i \in From(t_msgq[t], SSI) : t_msgq[t][i].m_value = [reply |-> asked[t].tag]
    BY <1>1, <1>2, FromCounts DEF At
  <2>2. asked[t] # NULL /\ From(t_msgq[SSI], t) = {} /\ ~InService(t)
    BY <1>1, <1>2 DEF At
  <2>3. DOMAIN Outstanding(t) = {}
    BY <2>2, OutstandingFrom
  <2>4. Cardinality(From(t_msgq[t], SSI)) <= 1
    BY <2>1
  <2> QED BY <2>1, <2>2, <2>3, <2>4
<1>3. CASE place # "answered"
  <2>1. From(t_msgq[t], SSI) = {}
    BY <1>1, <1>3 DEF At
  <2> QED BY <2>1, FromCounts
<1> QED BY <1>2, <1>3

(* The SSI holds at most one request of each thread, and it is the one that  *)
(* the thread waits on: in systems that serve no dead thread, and these are  *)
(* so because the thread that terminates a process takes back the request    *)
(* of every thread of it (the stubs of nucleus.h, ssi.c, clean_sys_msg).     *)
THEOREM RequestsAreSound ==
  ASSUME Orderly
  PROVE  Spec => []RequestIntegrity
  BY InvariantReq, ReqIntegrity, PTL

(* A stub that finds an answer of the SSI in its queue finds the answer to   *)
(* its own request, and one only (the stubs of nucleus.h, ssi.c and          *)
(* acknowledge).                                                             *)
THEOREM AnswersMatchRequests ==
  ASSUME Orderly
  PROVE  Spec => []RepliesMatch
  BY InvariantReq, ReqReplies, PTL

(* In the systems that serve no dead thread no free descriptor is freed: the *)
(* scheduling lists, the counter, the process tree and the decision to halt  *)
(* are sound for ever (thread_free, scheduler.c and terminate_process.c).    *)
LEMMA KernelIsSound ==
  ASSUME Orderly
  PROVE  Spec => [](ListsOK /\ ThreadCountExact /\ TreeOK /\ EndIsHonest)
<1>1. Linked /\ TreeInv /\ SoundInv /\ ReqInv
        => ListsOK /\ ThreadCountExact /\ TreeOK /\ EndIsHonest
  BY TreeSound DEF Linked, ListsOK, SoundInv, Counted, ReqInv
<1> QED BY <1>1, InvariantReq, PTL

(* Every thread is on exactly the list its state says, and every list is a   *)
(* ring (enqueue, outqueue and thread_free of mikabooq.c, recv,              *)
(* resume_thread, scheduler).                                                *)
THEOREM ListsAreSound ==
  ASSUME Orderly
  PROVE  Spec => []ListsOK
  BY KernelIsSound, PTL

(* thread_count is the number of live threads (create_thread_s and           *)
(* __terminate_thread_s, scheduler.c:25).                                    *)
THEOREM TheCountIsExact ==
  ASSUME Orderly
  PROVE  Spec => []ThreadCountExact
  BY KernelIsSound, PTL

(* The process tree, its pointers and the free lists agree, also between the *)
(* turns of a recursive termination (proc_alloc, proc_delete, thread_alloc,  *)
(* thread_free and __terminate_process_s).                                   *)
THEOREM TheTreeIsSound ==
  ASSUME Orderly
  PROVE  Spec => []TreeOK
  BY KernelIsSound, PTL

(* The kernel halts only when no program is left, and declares a deadlock    *)
(* only when every thread waits (empty_readyq_h).                            *)
THEOREM TheEndIsHonest ==
  ASSUME Orderly
  PROVE  Spec => []EndIsHonest
  BY KernelIsSound, PTL

-----------------------------------------------------------------------------
(* The terminal.                                                             *)

\* nobody is soft blocked for nothing, but when the kernel has panicked
SoftAwaits == soft_blocked_thread # NULL /\ tty = "ready" => kpc = "panic_ack"

LEMMA SoftAwaitsStep == TInv /\ SoftAwaits /\ [Next]_vars => SoftAwaits'
<1> SUFFICES ASSUME TInv, SoftAwaits, [Next]_vars PROVE SoftAwaits'
  OBVIOUS
<1>1. CASE acknowledge
  BY <1>1 DEF acknowledge, SoftAwaits
<1>2. CASE do_io_s
  BY <1>2 DEF do_io_s, soft_block, SoftAwaits, Serving, Running
<1>3. CASE TerminalDone
  BY <1>3 DEF TerminalDone, SoftAwaits
<1>4. CASE Boot \/ Scheduler \/ interval_timer_h \/ Stopped \/ UNCHANGED vars
  BY <1>4 DEF Boot, LoadSSI, LoadThread, Scheduler, Dispatch, empty_readyq_h,
     interval_timer_h, InterruptsEnabled, Stopped, vars, nucleusvars, iovars, runvars,
     SoftAwaits
<1>5. ASSUME NEW t \in Tcb, Program(t) PROVE SoftAwaits'
  BY <1>5 DEF Program, Send, Recv, Ask, AwaitReply, Running, iovars, SoftAwaits
<1>6. CASE SsiReceive \/ SsiReply \/ ServeGet \/ create_thread_s \/ create_process_s
  BY <1>6 DEF SsiReceive, SsiReply, ServeGet, create_thread_s, create_process_s, Serving,
     Running, iovars, SoftAwaits
<1>7. CASE ServeTerminateProcess \/ terminate_thread_s \/ __setmgr
  BY <1>7 DEF ServeTerminateProcess, terminate_thread_s, __setmgr, Serving, Running,
     iovars, SoftAwaits
<1>8. CASE PickThread \/ ResumeWaiter \/ FreeVictim \/ PickChild \/ DeleteProcess
  BY <1>8 DEF PickThread, ResumeWaiter, FreeVictim, PickChild, DeleteProcess, Terminating,
     Running, iovars, SoftAwaits
<1> QED
  BY <1>1, <1>2, <1>3, <1>4, <1>5, <1>6, <1>7, <1>8 DEF Next, Interrupt, Service

(* While the terminal works or interrupts, the thread that acknowledge will  *)
(* answer is alone with its request: the SSI has none of its requests, and   *)
(* it has no answer yet (do_io.c and interrupts.c).                          *)
THEOREM TheTerminalServesOne ==
  ASSUME Orderly
  PROVE  Spec => []SoftBlockedOK
<1>1. Init => SoftAwaits
  BY DEF Init, InitServices, InitNucleus, SoftAwaits
<1>2. TInv /\ ReqInv /\ SoftAwaits => SoftBlockedOK
  <2> SUFFICES ASSUME TInv, ReqInv, SoftAwaits, ~Halted PROVE SoftBlockedOK
    BY DEF SoftBlockedOK
  <2>1. soft_blocked_thread # NULL <=> tty # "ready"
    BY DEF TInv, ControlOK, SoftAwaits, Halted
  <2>2. ASSUME NEW t \in Tcb, t = soft_blocked_thread
        PROVE  /\ asked[t] # NULL /\ asked[t].tag = "DO_IO"
               /\ DOMAIN Outstanding(t) = {} /\ ~InService(t)
               /\ Matching(t, SSI) = {}
    <3>1. At(t, "soft")
      BY <2>2, PlaceFacts DEF ReqInv
    <3>2. Matching(t, SSI) = From(t_msgq[t], SSI)
      BY TcbFacts DEF Matching, From
    <3>3. DOMAIN Outstanding(t) = {}
      BY <3>1, OutstandingFrom DEF At
    <3> QED BY <3>1, <3>2, <3>3 DEF At
  <2>3. soft_blocked_thread # NULL => soft_blocked_thread \in Tcb
    BY TypeOKParts DEF TInv, IOTypes
  <2> QED BY <2>1, <2>2, <2>3 DEF SoftBlockedOK
<1> QED BY <1>1, <1>2, SoftAwaitsStep, InvariantReq, PTL DEF Spec

-----------------------------------------------------------------------------
(* Deaths.                                                                   *)

\* no thread dies but a victim
LEMMA OnlyVictimsDie ==
  ASSUME TInv, [Next]_vars, NEW t \in Tcb, Live(t), ~Live(t)'
  PROVE  FreeVictim /\ t = victim
<1> USE TypeOKParts, TcbFacts DEF TInv, Live
<1> USE DEF T_STATUS_NONE, T_STATUS_READY, T_STATUS_W4MSG
<1>1. ASSUME NEW s, UNCHANGED threadvars \/ resume_thread(s) PROVE FALSE
  BY <1>1 DEF threadvars, resume_thread, ThreadTypes
<1>2. ASSUME NEW s, NEW sender, NEW value,
             \/ send(s, sender, value) \/ recv_blocks(s, sender)
             \/ \E i \in DOMAIN t_msgq[s] : recv_takes(s, sender, i)
      PROVE  FALSE
  BY <1>1, <1>2 DEF send, recv_blocks, recv_takes, ThreadTypes
<1>3. ASSUME NEW process, thread_alloc(process) PROVE FALSE
  BY <1>3 DEF thread_alloc, ThreadTypes
<1>4. CASE Boot \/ create_thread_s \/ create_process_s
  BY <1>1, <1>3, <1>4 DEF Boot, LoadSSI, LoadThread, create_thread_s, create_process_s,
     __create_thread_s, ThreadTypes
<1>5. CASE acknowledge \/ SsiReceive \/ SsiReply
  BY <1>2, <1>5 DEF acknowledge, SsiReceive, SsiReply
<1>6. CASE \E s \in Tcb : Program(s)
  BY <1>2, <1>6 DEF Program, Send, Recv, Ask, AwaitReply
<1>7. CASE ResumeWaiter
  BY <1>1, <1>7 DEF ResumeWaiter
<1>8. CASE FreeVictim
  BY <1>8 DEF FreeVictim, thread_free, ThreadTypes
<1>9. CASE \/ Dispatch \/ empty_readyq_h \/ interval_timer_h \/ TerminalDone \/ Stopped
           \/ ServeGet \/ do_io_s \/ ServeTerminateProcess \/ terminate_thread_s
           \/ __setmgr \/ PickThread \/ PickChild \/ DeleteProcess \/ UNCHANGED vars
  <2>1. UNCHANGED threadvars
    BY <1>9 DEF Dispatch, empty_readyq_h, interval_timer_h, TerminalDone, Stopped,
       ServeGet, do_io_s, ServeTerminateProcess, terminate_thread_s, __setmgr,
       PickThread, PickChild, DeleteProcess, terminate_process_s, WildAccess,
       vars, nucleusvars, mikabooqvars, threadvars
  <2> QED BY <1>1, <2>1
<1> QED
  BY <1>4, <1>5, <1>6, <1>7, <1>8, <1>9 DEF Next, Scheduler, Interrupt, Service

\* nobody waits for a thread that dies
LEMMA DeathStep ==
  ASSUME TInv, NEW P, LinkedWith(P), [Next]_vars,
         NEW t \in Tcb, Live(t), ~Live(t)', NEW u \in Thread
  PROVE  ~(t_status'[u] = T_STATUS_W4MSG /\ t_wait4sender'[u] = t)
<1> USE TypeOKParts, TcbFacts DEF TInv
<1>1. /\ t_status' = [t_status EXCEPT ![t] = T_STATUS_NONE]
      /\ t_wait4sender' = [t_wait4sender EXCEPT ![t] = NULL]
      /\ list_empty(links, t_wait4me(t))
  BY OnlyVictimsDie DEF FreeVictim, thread_free, thread_free_ok
<1>2. ~(t_status[u] = T_STATUS_W4MSG /\ t_wait4sender[u] = t)
  BY <1>1, NobodyWaits
<1> QED BY <1>1, <1>2 DEF ThreadTypes, T_STATUS_NONE, T_STATUS_W4MSG

(* A thread that dies leaves nobody waiting for it: the loop that resumes    *)
(* its waiters has emptied its list, and who is on no list waits for nobody  *)
(* (__terminate_thread_s and thread_free).                                   *)
THEOREM TheDeadAreAwaitedByNobody ==
  ASSUME Orderly
  PROVE  Spec => DeathWakesAll
<1>1. TInv /\ Linked /\ [Next]_vars
        => [\A t \in Tcb : Live(t) /\ ~Live(t)' =>
              \A u \in Thread : ~(t_status'[u] = T_STATUS_W4MSG /\ t_wait4sender'[u] = t)]_vars
  BY DeathStep, NobodyParked
<1> QED BY <1>1, InvariantReq, PTL DEF Spec, DeathWakesAll

-----------------------------------------------------------------------------
(* The mailboxes.                                                            *)

(* In a system that serves no dead thread the kernel implements the          *)
(* mailboxes for ever: no descriptor is freed twice, so that every call is   *)
(* answered with the SSI's message to its caller (the stubs of nucleus.h,    *)
(* ssi.c, send and recv of syscall.c and __terminate_thread_s).              *)
THEOREM KernelImplementsMailbox ==
  ASSUME Orderly
  PROVE  Spec => ImplementsMailbox
<1>1. ReqInv => ~stale
  BY DEF ReqInv
<1> QED
  BY <1>1, InvariantReq, KernelImplementsMailboxUntilStale, PTL
     DEF MailboxUntilStale, ImplementsMailbox, Mail!Spec
=============================================================================
