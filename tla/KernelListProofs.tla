-------------------------- MODULE KernelListProofs --------------------------
(***************************************************************************)
(* No wake-up is lost, the scheduling lists stay well formed until a free  *)
(* descriptor is freed again, and only the awaited wake who waits, for     *)
(* every value of the constants.                                           *)
(***************************************************************************)
EXTENDS KernelTypeProofs

(***************************************************************************)
(* list_add_tail and list_del keep a memory a set of well-formed lists.    *)
(***************************************************************************)

(* Enqueuing at the tail of a list (thread_enqueue) a cell that is on none.  *)
LEMMA AddTailRings ==
  ASSUME NEW C, NULL \notin C, NEW m \in Memory(C),
         NEW H \in [C -> C \cup {NULL}], Rings(m, H),
         NEW c \in C, H[c] = NULL,
         NEW q \in C, H[q] = q
  PROVE  /\ list_add_tail(m, c, q) \in Memory(C)
         /\ Rings(list_add_tail(m, c, q), [H EXCEPT ![c] = q])
<1> DEFINE l == m.prev[q]
           n == list_add_tail(m, c, q)
           G == [H EXCEPT ![c] = q]
<1>1. /\ l \in C /\ H[l] = q /\ m.next[l] = q
      /\ c # q /\ c # l
  BY DEF Rings, Inverse_pointers, Memory
<1>2. /\ n.next = [m.next EXCEPT ![c] = q, ![l] = c]
      /\ n.prev = [m.prev EXCEPT ![q] = c, ![c] = l]
  BY DEF list_add_tail, __list_add
<1>3. n \in Memory(C)
  BY <1>1 DEF list_add_tail, __list_add, Memory
<1>4. Inverse_pointers(n, G)
  <2> SUFFICES ASSUME NEW x \in C, G[x] # NULL
               PROVE  /\ n.next[x] \in C  /\  n.prev[x] \in C
                      /\ G[n.next[x]] = G[x]  /\  G[n.prev[x]] = G[x]
                      /\ n.prev[n.next[x]] = x  /\  n.next[n.prev[x]] = x
    BY DEF Inverse_pointers
  <2> HIDE DEF n, l
  <2>1. CASE x = c
    BY <1>1, <1>2, <2>1 DEF Memory
  <2>2. CASE x # c
    <3>1. /\ H[x] # NULL
          /\ m.next[x] \in C /\ m.prev[x] \in C
          /\ H[m.next[x]] = H[x] /\ H[m.prev[x]] = H[x]
          /\ m.prev[m.next[x]] = x /\ m.next[m.prev[x]] = x
      BY <2>2 DEF Rings, Inverse_pointers
    <3>2. /\ m.next[x] # c /\ m.prev[x] # c
          /\ m.next[x] = q <=> x = l
          /\ m.prev[x] = l <=> x = q
      BY <3>1, <1>1 DEF l
    <3> QED
      BY <1>1, <1>2, <2>2, <3>1, <3>2 DEF Memory
  <2> QED BY <2>1, <2>2
<1>5. No_stray_ring(n, G)
  <2> SUFFICES ASSUME NEW S \in SUBSET Listed(G), S # {}
               PROVE  \E x \in S : n.next[x] \notin S
    BY DEF No_stray_ring
  <2> HIDE DEF n, l
  <2>1. CASE c \in S
    BY <1>1, <1>2, <2>1 DEF Memory, Listed
  <2>2. CASE c \notin S
    <3>1. S \in SUBSET Listed(H)
      BY <2>2 DEF Listed
    <3>2. PICK x \in S : m.next[x] \notin S
      BY <3>1 DEF Rings, No_stray_ring
    <3>3. x \in C /\ x # c
      BY <2>2 DEF Listed
    <3>4. n.next[x] \in {c, m.next[x]}
      BY <1>1, <1>2, <3>3 DEF Memory
    <3> QED BY <2>2, <3>2, <3>4
  <2> QED BY <2>1, <2>2
<1> QED BY <1>3, <1>4, <1>5 DEF Rings

(* Unlinking from its list (thread_outqueue) a cell that is on one.          *)
LEMMA DelRings ==
  ASSUME NEW C, NULL \notin C, NEW m \in Memory(C),
         NEW H \in [C -> C \cup {NULL}], Rings(m, H),
         NEW c \in C, H[c] # NULL, H[c] # c, H[H[c]] = H[c]
  PROVE  /\ list_del(m, c) \in Memory(C)
         /\ Rings(list_del(m, c), [H EXCEPT ![c] = NULL])
<1> DEFINE l == m.prev[c]
           r == m.next[c]
           n == list_del(m, c)
           G == [H EXCEPT ![c] = NULL]
<1>1. /\ l \in C /\ r \in C /\ H[l] = H[c] /\ H[r] = H[c]
      /\ m.next[l] = c /\ m.prev[r] = c
  BY DEF Rings, Inverse_pointers
<1>3. n \in Memory(C)
  BY <1>1 DEF list_del, __list_del, Memory
<1>2. /\ n.next = [m.next EXCEPT ![l] = r]
      /\ n.prev = [m.prev EXCEPT ![r] = l]
  BY DEF list_del, __list_del
<1>4. Inverse_pointers(n, G)
  <2> SUFFICES ASSUME NEW x \in C, G[x] # NULL
               PROVE  /\ n.next[x] \in C  /\  n.prev[x] \in C
                      /\ G[n.next[x]] = G[x]  /\  G[n.prev[x]] = G[x]
                      /\ n.prev[n.next[x]] = x  /\  n.next[n.prev[x]] = x
    BY DEF Inverse_pointers
  <2>1. x # c /\ H[x] # NULL /\ G[x] = H[x]
    OBVIOUS
  <2>2. /\ m.next[x] \in C /\ m.prev[x] \in C
        /\ H[m.next[x]] = H[x] /\ H[m.prev[x]] = H[x]
        /\ m.prev[m.next[x]] = x /\ m.next[m.prev[x]] = x
    BY <2>1 DEF Rings, Inverse_pointers
  \* were c a ring of its own, its home would not be a cell of that ring
  <2> QED
    BY <1>1, <1>2, <2>1, <2>2 DEF Memory
<1>5. No_stray_ring(n, G)
  <2> SUFFICES ASSUME NEW S \in SUBSET Listed(G), S # {}
               PROVE  \E x \in S : n.next[x] \notin S
    BY DEF No_stray_ring
  <2> HIDE DEF n, l, r
  <2>1. S \in SUBSET Listed(H) /\ c \notin S /\ c \in Listed(H) /\ S \subseteq C
    BY DEF Listed
  <2>2. \A x \in S : n.next[x] = IF x = l THEN r ELSE m.next[x]
    BY <1>1, <1>2, <2>1 DEF Memory
  \* a ring that skips the deleted cell was a ring through it
  <2>3. CASE r \in S
    <3>1. PICK x \in S \cup {c} : m.next[x] \notin S \cup {c}
      BY <2>1 DEF Rings, No_stray_ring
    <3>2. x # c /\ x # l
      BY <1>1, <2>3, <3>1 DEF r
    <3> QED BY <2>2, <3>1, <3>2
  <2>4. CASE r \notin S
    <3>1. PICK x \in S : m.next[x] \notin S
      BY <2>1 DEF Rings, No_stray_ring
    <3> QED BY <2>2, <2>4, <3>1
  <2> QED BY <2>3, <2>4
<1> QED BY <1>3, <1>4, <1>5 DEF Rings

(***************************************************************************)
(* No lost wake-up.  Two kinds of step do not disturb the property: those  *)
(* that start no wait and add no message, and those that take messages out *)
(* of queues.  Two do: a send that finds nobody waiting for it, and a recv *)
(* that finds nothing to return.                                           *)
(***************************************************************************)

\* the messages of every queue are messages it held before
QueuesShrink ==
  \A t \in Thread : \A i \in DOMAIN t_msgq'[t] :
    \E k \in DOMAIN t_msgq[t] : t_msgq'[t][i] = t_msgq[t][k]

\* who waits after the step was waiting for the same thread before it
NoNewWait ==
  \A t \in Thread : t_status'[t] = T_STATUS_W4MSG =>
    t_status[t] = T_STATUS_W4MSG /\ t_wait4sender'[t] = t_wait4sender[t]

\* no message matches, before and after a step
LEMMA MatchingFacts ==
  ASSUME NEW t, NEW sender
  PROVE  /\ Matching(t, sender) = {} <=>
              \A i \in DOMAIN t_msgq[t] :
                sender # NULL /\ sender # t_msgq[t][i].m_sender
         /\ Matching(t, sender)' = {} <=>
              \A i \in DOMAIN t_msgq'[t] :
                sender # NULL /\ sender # t_msgq'[t][i].m_sender
  BY DEF Matching

\* a step that adds no message and no wait loses no wake-up
LEMMA WaitsAreKept ==
  ASSUME NoLostWakeup, QueuesShrink, NoNewWait
  PROVE  NoLostWakeup'
<1> SUFFICES ASSUME NEW t \in Thread, t_status'[t] = T_STATUS_W4MSG
             PROVE  Matching(t, t_wait4sender[t])' = {}
  BY DEF NoLostWakeup
<1>1. /\ t_wait4sender'[t] = t_wait4sender[t]
      /\ Matching(t, t_wait4sender[t]) = {}
  BY DEF NoLostWakeup, NoNewWait
<1> QED BY <1>1, MatchingFacts DEF QueuesShrink

\* send loses no wake-up: it queues only what is not awaited
LEMMA SendKeepsWaits ==
  ASSUME TypeOK, NoLostWakeup, NEW dest \in Thread, NEW sender, NEW value,
         sender # NULL, send(dest, sender, value)
  PROVE  NoLostWakeup'
<1> USE TypeOKParts
<1>1. CASE resume_thread(dest) /\ UNCHANGED msgvars
  <2>1. QueuesShrink
    BY <1>1 DEF QueuesShrink, msgvars
  <2>2. NoNewWait
    BY <1>1 DEF NoNewWait, resume_thread, ThreadTypes, T_STATUS_READY, T_STATUS_W4MSG
  <2> QED BY <2>1, <2>2, WaitsAreKept
<1>2. CASE /\ ~Expects(dest, sender) /\ msgq_add(sender, dest, value)
           /\ UNCHANGED <<links, threadvars>>
  <2> SUFFICES ASSUME NEW t \in Thread, t_status'[t] = T_STATUS_W4MSG
               PROVE  Matching(t, t_wait4sender[t])' = {}
    BY DEF NoLostWakeup
  <2> DEFINE awaited == t_wait4sender[t]
  <2>1. /\ t_status[t] = T_STATUS_W4MSG /\ t_wait4sender'[t] = awaited
        /\ Matching(t, awaited) = {}
    BY <1>2 DEF NoLostWakeup, threadvars
  <2>2. ASSUME NEW i \in DOMAIN t_msgq'[t]
        PROVE  awaited # NULL /\ awaited # t_msgq'[t][i].m_sender
    <3> DEFINE msg == [m_sender |-> sender, m_value |-> value]
    <3>1. t_msgq[t] \in Seq(Message)
      BY DEF MsgTypes
    <3>2. t_msgq'[t] = IF t = dest THEN Append(t_msgq[t], msg) ELSE t_msgq[t]
      BY <1>2 DEF msgq_add, MsgTypes
    <3> HIDE DEF awaited
    <3>3. CASE i \in DOMAIN t_msgq[t]
      <4>1. t_msgq'[t][i] = t_msgq[t][i]
        BY <3>1, <3>2, <3>3
      <4> QED BY <2>1, <3>3, <4>1, MatchingFacts
    <3>4. CASE i \notin DOMAIN t_msgq[t]
      <4>1. t = dest /\ t_msgq'[t][i] = msg
        BY <3>1, <3>2, <3>4
      <4>2. awaited # NULL /\ awaited # sender
        BY <1>2, <2>1, <4>1 DEF Expects, awaited
      <4> QED BY <4>1, <4>2
    <3> QED BY <3>3, <3>4
  <2> QED BY <2>1, <2>2, MatchingFacts
<1>3. CASE UNCHANGED <<links, threadvars, msgvars>>
  BY <1>3, WaitsAreKept DEF QueuesShrink, NoNewWait, threadvars, msgvars
<1> QED BY <1>1, <1>2, <1>3 DEF send

\* recv loses no wake-up: it blocks only when nothing matches
LEMMA RecvKeepsWaits ==
  ASSUME TypeOK, NoLostWakeup, NEW t \in Thread, NEW sender,
         \/ recv_blocks(t, sender)
         \/ \E i \in DOMAIN t_msgq[t] : recv_takes(t, sender, i)
  PROVE  NoLostWakeup'
<1> USE TypeOKParts
<1>1. CASE recv_blocks(t, sender)
  <2> SUFFICES ASSUME NEW u \in Thread, t_status'[u] = T_STATUS_W4MSG
               PROVE  Matching(u, t_wait4sender[u])' = {}
    BY DEF NoLostWakeup
  <2>1. t_msgq' = t_msgq
    BY <1>1 DEF recv_blocks, msgvars
  <2>2. Matching(u, t_wait4sender'[u]) = {}
    BY <1>1 DEF NoLostWakeup, recv_blocks, ThreadTypes
  <2> QED BY <2>1, <2>2, MatchingFacts
<1>2. ASSUME NEW i \in DOMAIN t_msgq[t], recv_takes(t, sender, i)
      PROVE  NoLostWakeup'
  <2>1. NoNewWait
    BY <1>2 DEF NoNewWait, recv_takes, threadvars
  <2>2. t_msgq' = [t_msgq EXCEPT ![t] = RemoveAt(t_msgq[t], i)]
    BY <1>2 DEF recv_takes, msg_free
  <2>3. t_msgq[t] \in Seq(Message)
    BY DEF MsgTypes
  <2>4. QueuesShrink
    BY <2>2, <2>3, <1>2, RemoveAtType DEF QueuesShrink, MsgTypes
  <2> QED BY <2>1, <2>4, WaitsAreKept
<1> QED BY <1>1, <1>2

\* clean_sys_msg adds no message to a queue
LEMMA CleanShrinks ==
  ASSUME TypeOK, NEW t, NEW u \in Thread, NEW i \in DOMAIN clean_sys_msg(t)[u]
  PROVE  \E k \in DOMAIN t_msgq[u] : clean_sys_msg(t)[u][i] = t_msgq[u][k]
<1> USE TypeOKParts
<1> DEFINE queue == clean_sys_msg_queue(t)
           first == CHOOSE j \in DOMAIN t_msgq[queue] : IsFirstMatch(j, queue, t)
<1>1. CASE u = queue /\ Matching(queue, t) # {} /\ queue # NULL
  <2>1. first \in DOMAIN t_msgq[queue] /\ t_msgq[queue] \in Seq(Message)
    BY <1>1, FirstMatchExists DEF MsgTypes
  <2>2. clean_sys_msg(t)[u] = RemoveAt(t_msgq[queue], first)
    BY <1>1 DEF clean_sys_msg, MsgTypes
  <2> HIDE DEF queue, first
  <2> QED BY <1>1, <2>1, <2>2, RemoveAtType
<1>2. CASE ~(u = queue /\ Matching(queue, t) # {} /\ queue # NULL)
  <2>1. clean_sys_msg(t)[u] = t_msgq[u]
    BY <1>2 DEF clean_sys_msg, MsgTypes
  <2> QED BY <2>1
<1> QED BY <1>1, <1>2

\* a step that leaves the queues alone and adds no wait loses no wake-up
LEMMA QuietKeepsWaits ==
  ASSUME TypeOK, NoLostWakeup, UNCHANGED t_msgq, NoNewWait
  PROVE  NoLostWakeup'
  BY WaitsAreKept DEF QueuesShrink

\* every step of the kernel keeps NoLostWakeup
LEMMA NoLostWakeupStep == TInv /\ NoLostWakeup /\ [Next]_vars => NoLostWakeup'
<1> SUFFICES ASSUME TInv, NoLostWakeup, [Next]_vars PROVE NoLostWakeup'
  OBVIOUS
<1> USE TcbFacts DEF T_STATUS_NONE, T_STATUS_READY, T_STATUS_W4MSG
<1>0. TypeOK /\ ThreadTypes /\ MsgTypes
  BY TypeOKParts DEF TInv
<1>1. CASE LoadSSI \/ LoadThread
  <2>1. NoNewWait /\ UNCHANGED t_msgq
    BY <1>0, <1>1 DEF NoNewWait, LoadSSI, LoadThread, thread_alloc, msgvars, ThreadTypes
  <2> QED BY <1>0, <2>1, QuietKeepsWaits
<1>2. CASE Dispatch \/ empty_readyq_h \/ interval_timer_h \/ TerminalDone
  <2>1. NoNewWait /\ UNCHANGED t_msgq
    BY <1>2 DEF NoNewWait, Dispatch, empty_readyq_h, interval_timer_h, TerminalDone,
       mikabooqvars, msgvars, threadvars
  <2> QED BY <1>0, <2>1, QuietKeepsWaits
<1>3. CASE acknowledge
  <2>1. soft_blocked_thread \in Thread
    BY <1>3, TypeOKParts DEF acknowledge, TInv, ControlOK, IOTypes
  <2> QED BY <1>0, <1>3, <2>1, SendKeepsWaits DEF acknowledge
<1>4. ASSUME NEW t \in Tcb, Program(t)
      PROVE  NoLostWakeup'
  <2>1. ASSUME NEW dest \in Tcb, NEW value \in Values, Send(t, dest, value)
        PROVE  NoLostWakeup'
    BY <1>0, <2>1, SendKeepsWaits DEF Send
  <2>2. ASSUME NEW req \in Request, Ask(t, req)
        PROVE  NoLostWakeup'
    BY <1>0, <2>2, SendKeepsWaits DEF Ask
  <2>3. ASSUME NEW sender \in Tcb \cup {NULL}, Recv(t, sender)
        PROVE  NoLostWakeup'
    BY <1>0, <2>3, RecvKeepsWaits DEF Recv
  <2>4. CASE AwaitReply(t)
    BY <1>0, <2>4, RecvKeepsWaits DEF AwaitReply
  <2> QED BY <1>4, <2>1, <2>2, <2>3, <2>4 DEF Program
<1>5. CASE SsiReceive
  BY <1>0, <1>5, RecvKeepsWaits DEF SsiReceive
<1>6. CASE SsiReply
  <2>1. applicant \in Tcb
    BY <1>6, ServedFacts DEF SsiReply
  <2> QED BY <1>0, <1>6, <2>1, SendKeepsWaits DEF SsiReply
<1>7. CASE create_thread_s \/ create_process_s
  <2>1. NoNewWait /\ UNCHANGED t_msgq
    BY <1>0, <1>7 DEF NoNewWait, create_thread_s, create_process_s, __create_thread_s,
       thread_alloc, msgvars, threadvars, ThreadTypes
  <2> QED BY <1>0, <2>1, QuietKeepsWaits
<1>8. CASE ServeGet \/ do_io_s \/ ServeTerminateProcess \/ __setmgr
           \/ PickChild \/ DeleteProcess
  <2>1. NoNewWait /\ UNCHANGED t_msgq
    BY <1>8 DEF NoNewWait, ServeGet, do_io_s, ServeTerminateProcess, __setmgr,
       PickChild, DeleteProcess, terminate_process_s, WildAccess, mikabooqvars,
       msgvars, threadvars
  <2> QED BY <1>0, <2>1, QuietKeepsWaits
<1>9. CASE terminate_thread_s
  <2>1. NoNewWait
    BY <1>9 DEF NoNewWait, terminate_thread_s, terminate_process_s, mikabooqvars,
       threadvars
  <2>2. QueuesShrink
    BY <1>0, <1>9 DEF QueuesShrink, terminate_thread_s, terminate_process_s,
       StartTerminating, mikabooqvars, msgvars, MsgTypes
  <2> QED BY <1>0, <2>1, <2>2, WaitsAreKept
<1>10. CASE PickThread
  <2>1. NoNewWait
    BY <1>10 DEF NoNewWait, PickThread, threadvars
  <2>2. PICK t, msgq : msgq \in {t_msgq, clean_sys_msg(t)} /\ StartTerminating(t, msgq)
    BY <1>10 DEF PickThread
  <2>3. msgq \in [Thread -> Seq(Message)]
    BY <1>0, <2>2, CleanType DEF MsgTypes
  <2>4. \A u \in Thread : \A i \in DOMAIN msgq[u] :
          \E k \in DOMAIN t_msgq[u] : msgq[u][i] = t_msgq[u][k]
    BY <1>0, <2>2, CleanShrinks
  <2>5. QueuesShrink
    <3> SUFFICES ASSUME NEW u \in Thread, NEW i \in DOMAIN t_msgq'[u]
                 PROVE  \E k \in DOMAIN t_msgq[u] : t_msgq'[u][i] = t_msgq[u][k]
      BY DEF QueuesShrink
    <3>1. t_msgq'[u] \in {<<>>, msgq[u]}
      BY <2>2, <2>3 DEF StartTerminating
    <3>2. t_msgq'[u] = msgq[u]
      BY <3>1
    <3> QED BY <2>4, <3>2
  <2> QED BY <1>0, <2>1, <2>5, WaitsAreKept
<1>11. CASE ResumeWaiter
  <2>1. NoNewWait /\ UNCHANGED t_msgq
    BY <1>0, <1>11 DEF NoNewWait, ResumeWaiter, resume_thread, msgvars, ThreadTypes
  <2> QED BY <1>0, <2>1, QuietKeepsWaits
<1>12. CASE FreeVictim
  <2>1. NoNewWait /\ UNCHANGED t_msgq
    BY <1>0, <1>12 DEF NoNewWait, FreeVictim, thread_free, msgvars, ThreadTypes
  <2> QED BY <1>0, <2>1, QuietKeepsWaits
<1>13. CASE Stopped \/ UNCHANGED vars
  <2>1. NoNewWait /\ UNCHANGED t_msgq
    BY <1>13 DEF NoNewWait, Stopped, vars, nucleusvars, mikabooqvars, msgvars, threadvars
  <2> QED BY <1>0, <2>1, QuietKeepsWaits
<1> QED
  BY <1>1, <1>2, <1>3, <1>4, <1>5, <1>6, <1>7, <1>8, <1>9, <1>10, <1>11, <1>12,
     <1>13 DEF Next, Boot, Scheduler, Interrupt, Service

(* A thread blocked in recv has no pending message that its recv would have *)
(* taken, whatever the programs do and whichever threads are terminated:    *)
(* recv's msgq_get and send's test of t_wait4sender (syscall.c) leave no gap *)
THEOREM NoWakeupIsLost == Spec => []NoLostWakeup
<1>1. Init => NoLostWakeup
  BY DEF Init, InitServices, InitNucleus, InitMikabooq, thread_init,
     NoLostWakeup, T_STATUS_NONE, T_STATUS_W4MSG
<1>2. TInv /\ NoLostWakeup /\ [Next]_vars => NoLostWakeup'
  BY NoLostWakeupStep
<1> QED BY <1>1, <1>2, InvariantTInv, PTL DEF Spec

-----------------------------------------------------------------------------
(* Home, as a function of the cells.                                        *)

\* the scheduling links and the list heads of the kernel are distinct cells
LEMMA CellFacts ==
  /\ \A t \in Thread : t_sched(t) \in Cell \ Sentinel
  /\ \A t, u \in Thread : t_sched(t) = t_sched(u) => t = u
  /\ \A c \in Cell \ Sentinel : \E t \in Thread : c = t_sched(t)
  /\ \A t \in Thread : t_wait4me(t) \in Sentinel
  /\ readyq \in Sentinel /\ blockedq \in Sentinel
  /\ Sentinel \subseteq Cell
  /\ readyq # blockedq
  /\ \A t \in Thread : t_wait4me(t) # readyq /\ t_wait4me(t) # blockedq
  /\ \A t, u \in Thread : t_wait4me(t) = t_wait4me(u) => t = u
  /\ NULL \notin Sentinel
<1>1. \A t \in Thread : t_sched(t) \in Cell \ Sentinel
  BY DEF Cell, Sentinel, t_sched, t_wait4me, readyq, blockedq
<1>2. /\ \A t, u \in Thread : t_sched(t) = t_sched(u) => t = u
      /\ \A t, u \in Thread : t_wait4me(t) = t_wait4me(u) => t = u
      /\ readyq # blockedq
      /\ \A t \in Thread : t_wait4me(t) # readyq /\ t_wait4me(t) # blockedq
  BY DEF t_sched, t_wait4me, readyq, blockedq
<1>3. /\ \A c \in Cell \ Sentinel : \E t \in Thread : c = t_sched(t)
      /\ \A t \in Thread : t_wait4me(t) \in Sentinel
      /\ readyq \in Sentinel /\ blockedq \in Sentinel
      /\ Sentinel \subseteq Cell
      /\ NULL \notin Sentinel
  BY CellAssumption DEF Cell, Sentinel
<1> QED BY <1>1, <1>2, <1>3

\* The kernel proper leaves a thread on the list its state says.  A trap handler
\* (module Traps) parks the thread that trapped on blockedq, READY as it was:
\* what follows is said of a kernel with the threads of P parked.
QueueOf(P, t) == IF t \in P THEN blockedq ELSE SchedQueue(t)
HomeOf(P)     == [c \in Cell |-> IF c \in Sentinel THEN c ELSE QueueOf(P, c[2])]
Parked(P)     == P \subseteq Tcb /\ \A t \in P : t_status[t] = T_STATUS_READY /\ ~OnCpu(t)

LinkedWith(P) == Rings(links, HomeOf(P)) /\ FreeListOK /\ CurrentReady /\ Parked(P)

LEMMA NobodyParked ==
  /\ Linked <=> LinkedWith({})
  /\ Linked' <=> LinkedWith({})'
<1>1. /\ \A t : QueueOf({}, t) = SchedQueue(t)
      /\ Parked({})
  BY DEF QueueOf, Parked
<1>2. HomeOf({}) = Home
  BY <1>1 DEF HomeOf, Home
<1>3. Linked <=> LinkedWith({})
  BY <1>1, <1>2 DEF Linked, LinkedWith
<1> QED BY <1>3, PTL

\* a thread belongs to one list head, or to none
LEMMA SchedQueueType ==
  ASSUME ThreadTypes, NEW t \in Thread, NEW P
  PROVE  QueueOf(P, t) \in Sentinel \cup {NULL}
  BY CellFacts DEF QueueOf, SchedQueue, ThreadTypes

HomeIs(P) ==
  /\ HomeOf(P) \in [Cell -> Cell \cup {NULL}]
  /\ \A t \in Thread : HomeOf(P)[t_sched(t)] = QueueOf(P, t)
  /\ \A s \in Sentinel : HomeOf(P)[s] = s

\* HomeOf sends the link of a thread to its list and a list head to itself
LEMMA HomeFacts == ASSUME NEW P PROVE ThreadTypes => HomeIs(P)
<1> SUFFICES ASSUME ThreadTypes PROVE HomeIs(P)
  OBVIOUS
<1>1. \A t \in Thread : t_sched(t)[2] = t
  BY DEF t_sched
<1>2. \A t \in Thread : HomeOf(P)[t_sched(t)] = QueueOf(P, t)
  BY <1>1, CellFacts DEF HomeOf
<1>3. \A s \in Sentinel : HomeOf(P)[s] = s
  BY CellFacts DEF HomeOf
<1>4. \A c \in Cell : HomeOf(P)[c] \in Cell \cup {NULL}
  BY <1>2, <1>3, CellFacts, SchedQueueType
<1> QED BY <1>2, <1>3, <1>4 DEF HomeOf, HomeIs

\* the same, after a step
LEMMA HomeFactsNext == ASSUME NEW P PROVE ThreadTypes' => HomeIs(P)'
<1>1. ThreadTypes => HomeIs(P)
  BY HomeFacts
<1> QED BY <1>1, PTL

\* the home of one thread changes, or of none, and the parked ones are now Q
OnlyQueueOf(P, Q, t) == \A u \in Thread : u # t => QueueOf(Q, u)' = QueueOf(P, u)
NoQueue(P) == \A u \in Thread : QueueOf(P, u)' = QueueOf(P, u)

\* when one thread changes its list, HomeOf changes at its link only
LEMMA HomeChange ==
  ASSUME ThreadTypes, ThreadTypes', NEW P, NEW Q, NEW t \in Thread, OnlyQueueOf(P, Q, t)
  PROVE  HomeOf(Q)' = [HomeOf(P) EXCEPT ![t_sched(t)] = QueueOf(Q, t)']
<1> DEFINE new == [HomeOf(P) EXCEPT ![t_sched(t)] = QueueOf(Q, t)']
<1>1. HomeIs(P) /\ HomeIs(Q)'
  BY HomeFacts, HomeFactsNext
<1>2. \A c \in Cell : HomeOf(Q)'[c] = new[c]
  BY <1>1, CellFacts DEF OnlyQueueOf, HomeIs
<1> QED BY <1>1, <1>2 DEF HomeIs

\* when no thread changes its list, HomeOf does not change
LEMMA HomeSame ==
  ASSUME ThreadTypes, ThreadTypes', NEW P, NoQueue(P)
  PROVE  HomeOf(P)' = HomeOf(P)
<1>1. HomeIs(P) /\ HomeIs(P)'
  BY HomeFacts, HomeFactsNext
<1>2. \A c \in Cell : HomeOf(P)'[c] = HomeOf(P)[c]
  BY <1>1, CellFacts DEF NoQueue, HomeIs
<1> QED BY <1>1, <1>2 DEF HomeIs

-----------------------------------------------------------------------------
(* What thread_enqueue, thread_outqueue and resume_thread do to the lists.   *)

\* thread_enqueue of a thread that is on no list, to the list it then belongs to
LEMMA EnqueueKeepsLists ==
  ASSUME ThreadTypes, ThreadTypes', NEW P, NEW Q, Rings(links, HomeOf(P)), NEW t \in Thread,
         OnlyQueueOf(P, Q, t), QueueOf(P, t) = NULL, QueueOf(Q, t)' \in Sentinel,
         links' = thread_enqueue(links, t, QueueOf(Q, t)')
  PROVE  Rings(links, HomeOf(Q))'
<1> DEFINE q == QueueOf(Q, t)'
<1>1. /\ HomeIs(P) /\ t_sched(t) \in Cell /\ q \in Cell
      /\ HomeOf(P)[t_sched(t)] = NULL /\ HomeOf(P)[q] = q
  BY HomeFacts, CellFacts DEF HomeIs
<1>2. HomeOf(Q)' = [HomeOf(P) EXCEPT ![t_sched(t)] = q]
  BY HomeChange
<1> HIDE DEF q
<1>3. Rings(list_add_tail(links, t_sched(t), q), [HomeOf(P) EXCEPT ![t_sched(t)] = q])
  BY <1>1, AddTailRings, CellAssumption DEF HomeIs, ThreadTypes
<1>4. Rings(links', HomeOf(Q)')
  BY <1>2, <1>3 DEF thread_enqueue, q
<1> QED BY <1>4

\* thread_outqueue of a thread that then belongs to no list
LEMMA OutqueueKeepsLists ==
  ASSUME ThreadTypes, ThreadTypes', NEW P, NEW Q, Rings(links, HomeOf(P)), NEW t \in Thread,
         OnlyQueueOf(P, Q, t), QueueOf(P, t) # NULL, QueueOf(Q, t)' = NULL,
         links' = thread_outqueue(links, t)
  PROVE  Rings(links, HomeOf(Q))'
<1>1. /\ HomeIs(P) /\ t_sched(t) \in Cell \ Sentinel /\ QueueOf(P, t) \in Sentinel
      /\ HomeOf(P)[t_sched(t)] = QueueOf(P, t) /\ HomeOf(P)[QueueOf(P, t)] = QueueOf(P, t)
  BY HomeFacts, CellFacts, SchedQueueType DEF HomeIs
<1>2. HomeOf(Q)' = [HomeOf(P) EXCEPT ![t_sched(t)] = NULL]
  BY HomeChange
<1>3. Rings(list_del(links, t_sched(t)), [HomeOf(P) EXCEPT ![t_sched(t)] = NULL])
  BY <1>1, DelRings, CellAssumption DEF HomeIs, ThreadTypes
<1>4. Rings(links', HomeOf(Q)')
  BY <1>2, <1>3 DEF thread_outqueue
<1> QED BY <1>4

\* thread_outqueue followed by thread_enqueue, as resume_thread does
LEMMA RequeueKeepsLists ==
  ASSUME ThreadTypes, ThreadTypes', NEW P, Rings(links, HomeOf(P)), NEW t \in Thread,
         OnlyQueueOf(P, P, t), QueueOf(P, t) # NULL, QueueOf(P, t)' \in Sentinel,
         links' = thread_enqueue(thread_outqueue(links, t), t, QueueOf(P, t)')
  PROVE  Rings(links, HomeOf(P))'
<1> DEFINE q   == QueueOf(P, t)'
           c   == t_sched(t)
           m   == list_del(links, c)
           off == [HomeOf(P) EXCEPT ![c] = NULL]
<1>1. /\ HomeIs(P) /\ c \in Cell \ Sentinel /\ QueueOf(P, t) \in Sentinel
      /\ HomeOf(P)[c] = QueueOf(P, t) /\ HomeOf(P)[QueueOf(P, t)] = QueueOf(P, t)
      /\ q \in Sentinel /\ q \in Cell /\ HomeOf(P)[q] = q
  BY HomeFacts, CellFacts, SchedQueueType DEF HomeIs
<1>2. HomeOf(P)' = [HomeOf(P) EXCEPT ![c] = q]
  BY HomeChange
<1>3. m \in Memory(Cell) /\ Rings(m, off)
  BY <1>1, DelRings, CellAssumption DEF HomeIs, ThreadTypes
<1> HIDE DEF q, c, m
<1>4. off \in [Cell -> Cell \cup {NULL}] /\ off[c] = NULL /\ off[q] = q
  BY <1>1 DEF HomeIs
<1>5. [off EXCEPT ![c] = q] = [HomeOf(P) EXCEPT ![c] = q]
  BY <1>1 DEF HomeIs
<1> HIDE DEF off
<1>6. Rings(list_add_tail(m, c, q), [off EXCEPT ![c] = q])
  BY <1>1, <1>3, <1>4, AddTailRings, CellAssumption
<1>7. Rings(links', HomeOf(P)')
  BY <1>2, <1>5, <1>6 DEF thread_enqueue, thread_outqueue, q, c, m
<1> QED BY <1>7

\* a step that touches neither the links nor what they should be
LEMMA SameKeepsLists ==
  ASSUME ThreadTypes, ThreadTypes', NEW P, Rings(links, HomeOf(P)), NoQueue(P), UNCHANGED links
  PROVE  Rings(links, HomeOf(P))'
<1>1. Rings(links', HomeOf(P)')
  BY HomeSame
<1> QED BY <1>1

\* the head of a list belongs to it
LEMMA HeadIsHome ==
  ASSUME ThreadTypes, NEW P, Rings(links, HomeOf(P)), NEW t \in Thread, NEW q \in Sentinel,
         thread_qhead(links, q) = t_sched(t)
  PROVE  QueueOf(P, t) = q
<1>1. HomeIs(P) /\ q \in Cell /\ HomeOf(P)[q] = q /\ q # NULL /\ t_sched(t) # NULL
  BY HomeFacts, CellFacts, CellAssumption DEF HomeIs
<1>2. links.next[q] = t_sched(t)
  BY <1>1 DEF thread_qhead, list_next
<1>3. HomeOf(P)[links.next[q]] = q
  BY <1>1 DEF Rings, Inverse_pointers, HomeIs
<1> QED BY <1>1, <1>2, <1>3 DEF HomeIs

\* ... so the head of the list of those who wait for v waits for v
LEMMA WaiterIsBlocked ==
  ASSUME ThreadTypes, NEW P, LinkedWith(P), NEW t \in Thread, NEW v \in Thread,
         thread_qhead(links, t_wait4me(v)) = t_sched(t)
  PROVE  t_status[t] = T_STATUS_W4MSG /\ t_wait4sender[t] = v
<1>1. QueueOf(P, t) = t_wait4me(v)
  BY HeadIsHome, CellFacts DEF LinkedWith
<1> QED
  BY <1>1, CellFacts, CellAssumption DEF QueueOf, SchedQueue, ThreadTypes,
     T_STATUS_READY, T_STATUS_W4MSG

-----------------------------------------------------------------------------
(* The fragments the actions are made of keep the lists.                     *)

\* the free list stays sound while no free descriptor comes to life
LEMMA FreeListKept ==
  ASSUME ListTypes, FreeListOK, UNCHANGED thread_h,
         \A t \in Tcb : ~Live(t) => ~Live(t)'
  PROVE  FreeListOK'
<1>1. \A i \in DOMAIN thread_h : thread_h[i] \in Tcb
  BY DEF ListTypes
<1>2. \A i \in DOMAIN thread_h : ~Live(thread_h[i])'
  BY <1>1 DEF FreeListOK, Live
<1> QED BY <1>2 DEF FreeListOK, Live

\* the thread that has the processor keeps it, unless everything stops
CpuKept ==
  /\ kpc \in {"thread", "idle"}  /\  current_thread' = current_thread
  /\ \/ kpc' \in {kpc, "halt", "panic", "panic_ack", "panic_io", "panic_ssi", "wild"}
     \/ kpc = "thread" /\ kpc' \in {"passup", "handler"}
     \/ kpc = "idle" /\ kpc' = "scheduler"

\* a step that keeps the processor changes nothing about who is on it
LEMMA CpuKeptFacts ==
  ASSUME TInv, NEW P, LinkedWith(P), CpuKept
  PROVE  /\ \A t \in Thread : OnCpu(t)' <=> OnCpu(t)
         /\ \A t \in Thread : OnCpu(t) => t_status[t] = T_STATUS_READY
         /\ kpc' = "thread" => kpc = "thread"
  BY TcbFacts DEF CpuKept, OnCpu, TInv, ControlOK, LinkedWith, CurrentReady

\* a step that keeps the processor and every thread's state keeps the lists
LEMMA QuietLinked ==
  ASSUME TInv, TInv', NEW P, LinkedWith(P), CpuKept,
         UNCHANGED <<links, t_status, t_wait4sender, thread_h>>
  PROVE  LinkedWith(P)'
<1> USE TypeOKParts DEF TInv
<1>1. NoQueue(P)
  BY CpuKeptFacts DEF NoQueue, QueueOf, SchedQueue
<1>2. Rings(links, HomeOf(P))'
  BY <1>1, SameKeepsLists DEF LinkedWith
<1>3. FreeListOK'
  BY FreeListKept DEF LinkedWith, Live
<1>4. CurrentReady'
  BY CpuKeptFacts DEF LinkedWith, CurrentReady, CpuKept
<1>5. Parked(P)'
  BY CpuKeptFacts, TcbFacts DEF LinkedWith, Parked
<1> QED BY <1>2, <1>3, <1>4, <1>5 DEF LinkedWith

\* resume_thread of a blocked thread keeps the lists
LEMMA ResumeLinked ==
  ASSUME TInv, TInv', NEW P, LinkedWith(P), CpuKept, NEW t \in Thread,
         t_status[t] = T_STATUS_W4MSG, resume_thread(t), UNCHANGED thread_h
  PROVE  LinkedWith(P)'
<1> USE TypeOKParts DEF TInv
<1> USE DEF T_STATUS_NONE, T_STATUS_READY, T_STATUS_W4MSG
<1>1. /\ t_status' = [t_status EXCEPT ![t] = T_STATUS_READY]
      /\ \A u \in Thread : u # t => t_status'[u] = t_status[u]
                                    /\ t_wait4sender'[u] = t_wait4sender[u]
      /\ t_status'[t] = T_STATUS_READY
  BY DEF resume_thread, ThreadTypes
<1>0. t \notin P
  BY DEF LinkedWith, Parked
<1>2. OnlyQueueOf(P, P, t)
  BY <1>1, CpuKeptFacts DEF OnlyQueueOf, QueueOf, SchedQueue
<1>3. QueueOf(P, t) # NULL
  BY <1>0, CellFacts DEF QueueOf, SchedQueue, ThreadTypes
<1>4. QueueOf(P, t)' = readyq
  BY <1>0, <1>1, CpuKeptFacts DEF QueueOf, SchedQueue
<1>5. Rings(links, HomeOf(P))'
  BY <1>2, <1>3, <1>4, RequeueKeepsLists, CellFacts DEF LinkedWith, resume_thread
<1>6. \A u \in Tcb : ~Live(u) => ~Live(u)'
  BY <1>1, TcbFacts DEF Live
<1>7. FreeListOK'
  BY <1>6, FreeListKept DEF LinkedWith
<1>8. CurrentReady'
  BY <1>1, CpuKeptFacts DEF LinkedWith, CurrentReady, CpuKept, ControlOK, RunTypes
<1>9. Parked(P)'
  BY <1>0, <1>1, CpuKeptFacts, TcbFacts DEF LinkedWith, Parked
<1> QED BY <1>5, <1>7, <1>8, <1>9 DEF LinkedWith

\* send keeps the lists, whichever way it goes
LEMMA SendLinked ==
  ASSUME TInv, TInv', NEW P, LinkedWith(P), CpuKept, NEW dest \in Thread, NEW sender, NEW value,
         send(dest, sender, value), UNCHANGED thread_h
  PROVE  LinkedWith(P)'
<1>1. CASE Expects(dest, sender) /\ resume_thread(dest)
  BY <1>1, ResumeLinked DEF Expects
<1>2. CASE UNCHANGED <<links, threadvars>>
  BY <1>2, QuietLinked DEF threadvars
<1> QED BY <1>1, <1>2 DEF send

\* the thread that runs, or whose trap is handled, leaves the processor for a
\* list, where it may be parked
LEMMA LeavesCpuLinked ==
  ASSUME TInv, TInv', NEW P, NEW Q, LinkedWith(P), kpc # "scheduler", kpc' = "scheduler",
         NEW t \in Thread, current_thread = t, UNCHANGED <<current_thread, thread_h>>,
         t_status[t] = T_STATUS_READY, t_status'[t] # T_STATUS_NONE,
         \A u \in Thread : u # t => t_status'[u] = t_status[u]
                                    /\ t_wait4sender'[u] = t_wait4sender[u],
         Q = P \/ (Q = P \cup {t} /\ t \in Tcb /\ t_status'[t] = T_STATUS_READY),
         links' = thread_enqueue(links, t, QueueOf(Q, t)')
  PROVE  LinkedWith(Q)'
<1> USE TypeOKParts DEF TInv
<1> USE DEF T_STATUS_NONE, T_STATUS_READY, T_STATUS_W4MSG
<1>1. OnCpu(t) /\ t \notin P /\ \A u \in Thread : u # t => ~OnCpu(u) /\ (u \in Q <=> u \in P)
  BY DEF OnCpu, LinkedWith, Parked
<1>2. \A u \in Thread : ~OnCpu(u)'
  BY DEF OnCpu
<1>3. OnlyQueueOf(P, Q, t)
  BY <1>1, <1>2 DEF OnlyQueueOf, QueueOf, SchedQueue
<1>4. QueueOf(P, t) = NULL
  BY <1>1 DEF QueueOf, SchedQueue
<1>5. QueueOf(Q, t)' \in Sentinel
  BY <1>2, CellFacts DEF QueueOf, SchedQueue, ThreadTypes
<1>6. Rings(links, HomeOf(Q))'
  BY <1>3, <1>4, <1>5, EnqueueKeepsLists DEF LinkedWith
<1>7. \A u \in Tcb : ~Live(u) => ~Live(u)'
  BY TcbFacts DEF Live
<1>8. FreeListOK'
  BY <1>7, FreeListKept DEF LinkedWith
<1>9. Parked(Q)'
  BY <1>1, <1>2, TcbFacts DEF LinkedWith, Parked
<1> QED BY <1>6, <1>8, <1>9 DEF LinkedWith, CurrentReady

\* msgrecv blocks its caller, a thread or a trap handler
LEMMA BlocksLinked ==
  ASSUME TInv, TInv', NEW P, LinkedWith(P), NEW t \in Thread, current_thread = t,
         kpc # "scheduler", t_status[t] = T_STATUS_READY,
         NEW sender \in Thread \cup {NULL}, recv_blocks(t, sender), UNCHANGED thread_h
  PROVE  LinkedWith(P)'
<1> USE TypeOKParts DEF TInv
<1>1. /\ t_status'[t] = T_STATUS_W4MSG /\ t_wait4sender'[t] = sender
      /\ \A u \in Thread : u # t => t_status'[u] = t_status[u]
                                    /\ t_wait4sender'[u] = t_wait4sender[u]
      /\ t \notin P
  BY DEF recv_blocks, ThreadTypes, LinkedWith, Parked, OnCpu
<1>2. QueueOf(P, t)' = IF sender = NULL THEN blockedq ELSE t_wait4me(sender)
  BY <1>1 DEF QueueOf, SchedQueue, t_wait4me, T_STATUS_READY, T_STATUS_W4MSG
<1>3. links' = thread_enqueue(links, t, QueueOf(P, t)')
  BY <1>2 DEF recv_blocks
<1> QED
  BY <1>1, <1>3, LeavesCpuLinked DEF recv_blocks, T_STATUS_NONE, T_STATUS_W4MSG

\* recv, called by a program or by the SSI
LEMMA RecvLinked ==
  ASSUME TInv, TInv', NEW P, LinkedWith(P), NEW t \in Thread, Running(t),
         NEW sender \in Thread \cup {NULL}, UNCHANGED thread_h,
         \/ recv_blocks(t, sender)
         \/ \E i \in DOMAIN t_msgq[t] : recv_takes(t, sender, i)
  PROVE  LinkedWith(P)'
<1>1. CASE recv_blocks(t, sender)
  BY <1>1, BlocksLinked DEF LinkedWith, CurrentReady, Running
<1>2. CASE \E i \in DOMAIN t_msgq[t] : recv_takes(t, sender, i)
  BY <1>2, QuietLinked DEF recv_takes, threadvars, runvars, CpuKept, Running
<1> QED BY <1>1, <1>2

\* thread_alloc and the thread_enqueue that follows it
LEMMA NewThreadLinked ==
  ASSUME TInv, TInv', NEW P, LinkedWith(P), kpc # "thread" \/ kpc' = "thread",
         kpc' \in {kpc, "scheduler"}, kpc \in {"boot", "thread"},
         UNCHANGED current_thread, current_thread \notin Tcb,
         NEW process, ~thread_alloc_fails(process), thread_alloc(process),
         NEW new, new = Head(thread_h), links' = thread_enqueue(links, new, readyq)
  PROVE  LinkedWith(P)'
<1> USE TypeOKParts DEF TInv
<1> USE DEF T_STATUS_NONE, T_STATUS_READY, T_STATUS_W4MSG
<1>1. /\ thread_h \in Seq(Tcb) /\ thread_h # <<>>
      /\ new \in Tcb /\ new = thread_h[1] /\ thread_h' = Tail(thread_h)
      /\ Len(thread_h) \in Nat \ {0}
  BY HeadTailType DEF thread_alloc_fails, thread_alloc, ListTypes
<1>2. t_status' = [t_status EXCEPT ![new] = T_STATUS_READY] /\ UNCHANGED t_wait4sender
  BY DEF thread_alloc
<1>3. /\ \A i \in DOMAIN thread_h' :
           i + 1 \in DOMAIN thread_h /\ thread_h'[i] = thread_h[i + 1]
      /\ 1 \in DOMAIN thread_h
      /\ \A i \in DOMAIN thread_h' : i \in Nat \ {0}
  BY <1>1
<1>4. ~Live(new)
  BY <1>1, <1>3 DEF LinkedWith, FreeListOK
<1>5. /\ t_status'[new] = T_STATUS_READY /\ new \in Thread /\ new # current_thread
      /\ \A u \in Thread : u # new => t_status'[u] = t_status[u]
  BY <1>1, <1>2, TcbFacts DEF ThreadTypes
<1>6. \A u \in Thread : u \in Tcb => (~OnCpu(u) /\ ~OnCpu(u)')
  BY DEF OnCpu
<1>7. \A u \in Thread : OnCpu(u)' <=> OnCpu(u)
  BY TcbFacts DEF OnCpu, ControlOK
<1>0. new \notin P
  BY <1>4 DEF LinkedWith, Parked, Live
<1>8. OnlyQueueOf(P, P, new)
  BY <1>2, <1>5, <1>7 DEF OnlyQueueOf, QueueOf, SchedQueue
<1>9. QueueOf(P, new) = NULL /\ QueueOf(P, new)' = readyq
  BY <1>0, <1>1, <1>4, <1>5, <1>6 DEF QueueOf, SchedQueue, Live
<1>10. Rings(links, HomeOf(P))'
  BY <1>5, <1>8, <1>9, EnqueueKeepsLists, CellFacts DEF LinkedWith
<1>11. FreeListOK'
  <2>1. \A i \in DOMAIN thread_h : thread_h[i] \in Thread
    BY <1>1, TcbFacts
  <2>2. \A i \in DOMAIN thread_h' : thread_h'[i] # new /\ ~Live(thread_h[i + 1])
    BY <1>1, <1>3 DEF LinkedWith, FreeListOK
  <2>3. \A i \in DOMAIN thread_h' : t_status'[thread_h'[i]] = T_STATUS_NONE
    BY <1>3, <1>5, <2>1, <2>2 DEF Live
  <2>4. \A i, j \in DOMAIN thread_h' : thread_h'[i] = thread_h'[j] => i = j
    <3> SUFFICES ASSUME NEW i \in DOMAIN thread_h', NEW j \in DOMAIN thread_h',
                        thread_h'[i] = thread_h'[j]
                 PROVE  i = j
      OBVIOUS
    <3>1. i + 1 = j + 1
      BY <1>3 DEF LinkedWith, FreeListOK
    <3> QED BY <1>3, <3>1
  <2> QED BY <2>3, <2>4 DEF FreeListOK, Live
<1>12. CurrentReady'
  BY <1>5 DEF LinkedWith, CurrentReady, ControlOK, RunTypes
<1>13. Parked(P)'
  BY <1>0, <1>5, <1>7, TcbFacts DEF LinkedWith, Parked
<1> QED BY <1>10, <1>11, <1>12, <1>13 DEF LinkedWith

\* thread_free of a live thread keeps the lists and the free list
LEMMA FreeLinked ==
  ASSUME TInv, TInv', NEW old \in Tcb, NEW P, NEW Q, LinkedWith(P), Running(SSI),
         UNCHANGED runvars, Q = P \ {old},
         Live(old), thread_free(old)
  PROVE  LinkedWith(Q)'
<1> USE TypeOKParts, TcbFacts DEF TInv
<1> USE DEF T_STATUS_NONE, T_STATUS_READY, T_STATUS_W4MSG
<1>1. /\ t_status'[old] = T_STATUS_NONE
      /\ \A u \in Thread : u # old => t_status'[u] = t_status[u]
                                      /\ t_wait4sender'[u] = t_wait4sender[u]
  BY DEF thread_free, ThreadTypes
<1>2. OnlyQueueOf(P, Q, old)
  BY <1>1 DEF OnlyQueueOf, QueueOf, SchedQueue, OnCpu, runvars
<1>3. QueueOf(P, old) # NULL
  BY CellFacts DEF QueueOf, SchedQueue, OnCpu, Running, Live, ThreadTypes
<1>4. QueueOf(Q, old)' = NULL
  BY <1>1 DEF QueueOf, SchedQueue
<1>5. Rings(links, HomeOf(Q))'
  BY <1>2, <1>3, <1>4, OutqueueKeepsLists DEF LinkedWith, thread_free
<1>6. thread_h \in Seq(Tcb) /\ thread_h' = Append(thread_h, old)
  <2>1. \A i \in DOMAIN thread_h : thread_h[i] # old
    BY DEF LinkedWith, FreeListOK
  <2> QED BY <2>1 DEF thread_free, unlink, ListTypes
<1>7. FreeListOK'
  <2>1. \A i \in DOMAIN thread_h' :
          \/ i \in DOMAIN thread_h /\ thread_h'[i] = thread_h[i]
          \/ i = Len(thread_h) + 1 /\ thread_h'[i] = old
    BY <1>6
  <2>2. \A i \in DOMAIN thread_h : /\ t_status[thread_h[i]] = T_STATUS_NONE
                                   /\ thread_h[i] # old /\ thread_h[i] \in Tcb
    BY <1>6 DEF LinkedWith, FreeListOK, Live
  <2>3. \A i \in DOMAIN thread_h' : t_status'[thread_h'[i]] = T_STATUS_NONE
    BY <1>1, <2>1, <2>2
  <2>4. \A i, j \in DOMAIN thread_h' : thread_h'[i] = thread_h'[j] => i = j
    BY <2>1, <2>2 DEF LinkedWith, FreeListOK
  <2> QED BY <2>3, <2>4 DEF FreeListOK, Live
<1>8. CurrentReady'
  BY <1>1 DEF LinkedWith, CurrentReady, Running, runvars
<1>9. Parked(Q)'
  BY <1>1 DEF LinkedWith, Parked, OnCpu, runvars
<1> QED BY <1>5, <1>7, <1>8, <1>9 DEF LinkedWith

-----------------------------------------------------------------------------
(* Every action keeps the lists, until FreeVictim makes stale true.          *)

\* load_readyq builds the ready queue
LEMMA BootLinked ==
  ASSUME TInv, TInv', NEW P, LinkedWith(P), Boot
  PROVE  LinkedWith(P)'
<1> USE TypeOKParts, TcbFacts DEF TInv
<1> USE DEF T_STATUS_NONE, T_STATUS_READY, T_STATUS_W4MSG
<1>0. kpc = "boot" /\ current_thread = NULL /\ UNCHANGED current_thread
  BY DEF Boot, LoadSSI, LoadThread, ControlOK, runvars
<1>1. CASE LoadSSI
  <2>1. /\ t_status'[SSI] = T_STATUS_READY /\ ~Live(SSI)
        /\ \A u \in Thread : u # SSI => t_status'[u] = t_status[u]
        /\ UNCHANGED <<t_wait4sender, thread_h>> /\ kpc' = "boot"
    BY <1>0, <1>1 DEF LoadSSI, ControlOK, ThreadTypes, runvars
  <2>2. \A u \in Thread : ~OnCpu(u) /\ ~OnCpu(u)'
    BY <1>0 DEF OnCpu
  <2>0. SSI \notin P
    BY DEF LinkedWith, Parked
  <2>3. OnlyQueueOf(P, P, SSI)
    BY <2>1, <2>2 DEF OnlyQueueOf, QueueOf, SchedQueue
  <2>4. QueueOf(P, SSI) = NULL
    BY <2>0, <2>1 DEF QueueOf, SchedQueue, Live
  <2>5. QueueOf(P, SSI)' = readyq
    BY <2>0, <2>1, <2>2 DEF QueueOf, SchedQueue
  <2>6. Rings(links, HomeOf(P))'
    BY <1>1, <2>3, <2>4, <2>5, EnqueueKeepsLists, CellFacts
       DEF LinkedWith, LoadSSI, init_and_load
  <2>7. FreeListOK'
    BY <2>1, FreeListKept DEF LinkedWith, Live
  <2>8. Parked(P)'
    BY <2>0, <2>1, <2>2 DEF LinkedWith, Parked
  <2> QED BY <2>1, <2>6, <2>7, <2>8 DEF LinkedWith, CurrentReady
<1>2. CASE LoadThread
  <2>1. PICK new : new = Head(thread_h)
    OBVIOUS
  <2> QED
    BY <1>0, <1>2, <2>1, NewThreadLinked DEF LoadThread, init_and_load
<1> QED BY <1>1, <1>2 DEF Boot

\* scheduler() keeps the lists, whichever way it goes
LEMMA SchedulerLinked ==
  ASSUME TInv, TInv', NEW P, LinkedWith(P), Scheduler
  PROVE  LinkedWith(P)'
<1> USE TypeOKParts, TcbFacts DEF TInv
<1> USE DEF T_STATUS_NONE, T_STATUS_READY, T_STATUS_W4MSG
<1>1. CASE Dispatch
  <2>1. PICK t \in Thread : /\ thread_qhead(links, readyq) = t_sched(t)
                            /\ links' = thread_outqueue(links, t)
                            /\ current_thread' = t
    BY <1>1 DEF Dispatch
  <2>2. /\ kpc = "scheduler" /\ kpc' = "thread"
        /\ UNCHANGED <<t_status, t_wait4sender, thread_h>>
    BY <1>1 DEF Dispatch, threadvars
  <2>3. QueueOf(P, t) = readyq
    BY <2>1, HeadIsHome, CellFacts DEF LinkedWith
  <2>4. t_status[t] = T_STATUS_READY /\ t \notin P
    BY <2>3, CellFacts, CellAssumption DEF QueueOf, SchedQueue, ThreadTypes
  <2>5. QueueOf(P, t)' = NULL
    BY <2>1, <2>2, <2>4 DEF QueueOf, SchedQueue, OnCpu
  <2>6. OnlyQueueOf(P, P, t)
    BY <2>1, <2>2 DEF OnlyQueueOf, QueueOf, SchedQueue, OnCpu
  <2>7. Rings(links, HomeOf(P))'
    BY <2>1, <2>3, <2>5, <2>6, OutqueueKeepsLists, CellFacts DEF LinkedWith
  <2>8. FreeListOK'
    BY <2>2, FreeListKept DEF LinkedWith, Live
  <2>9. Parked(P)'
    BY <2>1, <2>2, <2>4 DEF LinkedWith, Parked, OnCpu
  <2> QED BY <2>1, <2>2, <2>4, <2>7, <2>8, <2>9 DEF LinkedWith, CurrentReady
<1>2. CASE empty_readyq_h
  <2>1. /\ kpc = "scheduler" /\ kpc' # "scheduler" /\ kpc' # "thread"
        /\ current_thread' = NULL
        /\ UNCHANGED <<links, t_status, t_wait4sender, thread_h>>
    BY <1>2 DEF empty_readyq_h, mikabooqvars, threadvars
  <2>2. NoQueue(P)
    BY <2>1 DEF NoQueue, QueueOf, SchedQueue, OnCpu
  <2>3. Rings(links, HomeOf(P))'
    BY <2>1, <2>2, SameKeepsLists DEF LinkedWith
  <2>4. FreeListOK'
    BY <2>1, FreeListKept DEF LinkedWith, Live
  <2>5. Parked(P)'
    BY <2>1 DEF LinkedWith, Parked, OnCpu
  <2> QED BY <2>1, <2>3, <2>4, <2>5 DEF LinkedWith, CurrentReady
<1> QED BY <1>1, <1>2 DEF Scheduler

\* the interrupt handlers keep the lists
LEMMA InterruptLinked ==
  ASSUME TInv, TInv', NEW P, LinkedWith(P), Interrupt
  PROVE  LinkedWith(P)'
<1> USE TypeOKParts, TcbFacts DEF TInv
<1> USE DEF T_STATUS_NONE, T_STATUS_READY, T_STATUS_W4MSG
<1>1. CASE interval_timer_h /\ kpc = "idle"
  BY <1>1, QuietLinked DEF interval_timer_h, CpuKept, threadvars
<1>2. CASE interval_timer_h /\ kpc # "idle"
  <2>1. PICK t \in Thread : current_thread = t
    BY <1>2 DEF interval_timer_h, InterruptsEnabled, ControlOK, RunTypes
  <2>2. /\ kpc = "thread" /\ kpc' = "scheduler"
        /\ links' = thread_enqueue(links, t, readyq)
        /\ UNCHANGED <<t_status, t_wait4sender, thread_h, current_thread>>
    BY <1>2, <2>1 DEF interval_timer_h, InterruptsEnabled, threadvars
  <2>3. t_status[t] = T_STATUS_READY /\ t_status'[t] = T_STATUS_READY /\ t \notin P
    BY <2>1, <2>2 DEF LinkedWith, CurrentReady, Parked, OnCpu
  <2>4. QueueOf(P, t)' = readyq
    BY <2>2, <2>3 DEF QueueOf, SchedQueue, OnCpu
  <2> QED BY <2>1, <2>2, <2>3, <2>4, LeavesCpuLinked
<1>3. CASE TerminalDone
  BY <1>3, QuietLinked DEF TerminalDone, CpuKept, mikabooqvars, runvars, threadvars
<1>4. CASE acknowledge
  <2>1. soft_blocked_thread \in Thread /\ CpuKept
    BY <1>4 DEF acknowledge, ControlOK, IOTypes, CpuKept, InterruptsEnabled
  <2>2. PICK answer : send(soft_blocked_thread, SSI, answer)
    BY <1>4 DEF acknowledge
  <2> QED BY <1>4, <2>1, <2>2, SendLinked DEF acknowledge
<1> QED BY <1>1, <1>2, <1>3, <1>4 DEF Interrupt

\* the system calls of a program keep the lists
LEMMA ProgramLinked ==
  ASSUME TInv, TInv', NEW P, LinkedWith(P), NEW t \in Tcb, Program(t)
  PROVE  LinkedWith(P)'
<1> USE TcbFacts
<1>1. ASSUME NEW dest \in Tcb, NEW value \in Values, Send(t, dest, value)
      PROVE  LinkedWith(P)'
  BY <1>1, SendLinked DEF Send, Running, runvars, CpuKept
<1>2. ASSUME NEW req \in Request, Ask(t, req)
      PROVE  LinkedWith(P)'
  BY <1>2, SendLinked DEF Ask, Running, runvars, CpuKept
<1>3. ASSUME NEW sender \in Tcb \cup {NULL}, Recv(t, sender)
      PROVE  LinkedWith(P)'
  BY <1>3, RecvLinked DEF Recv
<1>4. CASE AwaitReply(t)
  BY <1>4, RecvLinked DEF AwaitReply
<1> QED BY <1>1, <1>2, <1>3, <1>4 DEF Program

\* the services keep the lists, ...
LEMMA ServiceLinked ==
  ASSUME TInv, TInv', NEW P, LinkedWith(P), Service, ~FreeVictim
  PROVE  LinkedWith(P)'
<1> USE TypeOKParts, TcbFacts DEF TInv
<1>1. CASE SsiReceive
  BY <1>1, RecvLinked DEF SsiReceive
<1>2. CASE SsiReply
  <2>1. applicant \in Thread
    BY <1>2, ServedFacts DEF SsiReply
  <2>2. PICK dest \in Thread : \E answer : send(dest, SSI, answer)
    BY <1>2, <2>1 DEF SsiReply
  <2>3. PICK answer : send(dest, SSI, answer)
    BY <2>2
  <2> QED BY <1>2, <2>3, SendLinked DEF SsiReply, CpuKept, Running, runvars
<1>3. CASE ServeGet \/ do_io_s \/ ServeTerminateProcess \/ terminate_thread_s
           \/ __setmgr \/ PickThread \/ PickChild \/ DeleteProcess
  <2>1. /\ kpc = "thread" /\ kpc' \in {kpc, "panic_io", "wild"}
        /\ UNCHANGED <<current_thread, links, t_status, t_wait4sender, thread_h>>
    BY <1>3 DEF ServeGet, do_io_s, ServeTerminateProcess, terminate_thread_s,
       __setmgr, PickThread, PickChild, DeleteProcess, terminate_process_s, WildAccess,
       Serving, Terminating, Running, mikabooqvars, threadvars, runvars
  <2> QED BY <2>1, QuietLinked DEF CpuKept
<1>4. CASE create_thread_s \/ create_process_s
  <2>1. /\ kpc = "thread" /\ kpc' = "thread" /\ current_thread = SSI
        /\ UNCHANGED current_thread
    BY <1>4 DEF create_thread_s, create_process_s, Serving, Running, runvars
  <2>2. CASE UNCHANGED <<links, threadvars, thread_h>>
    BY <2>1, <2>2, QuietLinked DEF CpuKept, threadvars
  <2>3. ASSUME NEW proc, ~thread_alloc_fails(proc), __create_thread_s(proc)
        PROVE  LinkedWith(P)'
    <3>1. PICK new : new = Head(thread_h)
      OBVIOUS
    <3> QED BY <2>1, <2>3, <3>1, NewThreadLinked DEF __create_thread_s
  <2> QED BY <1>4, <2>2, <2>3 DEF create_thread_s, create_process_s
<1>5. CASE ResumeWaiter
  <2>1. PICK t \in Tcb : /\ thread_qhead(links, t_wait4me(victim)) = t_sched(t)
                         /\ resume_thread(t)
    BY <1>5 DEF ResumeWaiter
  <2>2. t_status[t] = T_STATUS_W4MSG
    BY <1>5, <2>1, WaiterIsBlocked DEF ResumeWaiter, TermTypes
  <2> QED
    BY <1>5, <2>1, <2>2, ResumeLinked
       DEF ResumeWaiter, CpuKept, Terminating, Running, runvars
<1> QED BY <1>1, <1>2, <1>3, <1>4, <1>5 DEF Service

\* ... and so does the end of a termination, as long as it frees a live thread,
\* which is then no longer parked
LEMMA VictimLinked ==
  ASSUME TInv, TInv', NEW old \in Tcb, NEW P, NEW Q, LinkedWith(P), FreeVictim, ~stale',
         old = victim, Q = P \ {old}
  PROVE  LinkedWith(Q)'
<1>1. Live(old) /\ thread_free(old)
  BY DEF FreeVictim, Live
<1> QED BY <1>1, FreeLinked DEF FreeVictim, Terminating

\* every step keeps the lists, with those of the parked threads that live
LEMMA LinkedWithStep ==
  ASSUME TInv, TInv', NEW P, NEW Q, LinkedWith(P), [Next]_vars, ~stale',
         Q = {t \in P : Live(t)'}
  PROVE  LinkedWith(Q)'
<1> USE TypeOKParts, TcbFacts DEF TInv
<1>1. ASSUME LinkedWith(P)' PROVE LinkedWith(Q)'
  <2>1. Q = P
    BY <1>1 DEF LinkedWith, Parked, Live, T_STATUS_NONE, T_STATUS_READY
  <2> QED BY <1>1, <2>1
<1>2. CASE UNCHANGED vars
  <2>1. UNCHANGED <<links, t_status, t_wait4sender, thread_h, kpc, current_thread>>
    BY <1>2 DEF vars, nucleusvars, mikabooqvars, threadvars, runvars
  <2>2. NoQueue(P)
    BY <2>1 DEF NoQueue, QueueOf, SchedQueue, OnCpu
  <2>3. Rings(links, HomeOf(P))'
    BY <2>1, <2>2, SameKeepsLists DEF LinkedWith
  <2>4. LinkedWith(P)'
    BY <2>1, <2>3 DEF LinkedWith, FreeListOK, CurrentReady, Parked, OnCpu, Live
  <2> QED BY <1>1, <2>4
<1>3. CASE FreeVictim
  <2>1. PICK old \in Tcb : old = victim
    BY <1>3 DEF FreeVictim, TermTypes
  <2>2. t_status' = [t_status EXCEPT ![old] = T_STATUS_NONE]
    BY <1>3, <2>1 DEF FreeVictim, thread_free
  <2>3. Q = P \ {old}
    BY <2>2 DEF LinkedWith, Parked, Live, ThreadTypes, T_STATUS_NONE, T_STATUS_READY
  <2> QED BY <1>3, <2>1, <2>3, VictimLinked
<1> QED
  BY <1>1, <1>2, <1>3, BootLinked, SchedulerLinked, InterruptLinked, ProgramLinked,
     ServiceLinked DEF Next, Stopped

\* a kernel that has freed a free descriptor has done so for ever
LEMMA StaleStays == [Next]_vars /\ stale => stale'
  BY DEF Next, Service, SsiReceive, SsiReply, ServeGet, create_thread_s,
     create_process_s, do_io_s, ServeTerminateProcess, terminate_process_s,
     terminate_thread_s, __setmgr, WildAccess, PickThread, ResumeWaiter, FreeVictim,
     PickChild, DeleteProcess, Stopped, vars, termvars

\* in the kernel proper nobody is parked
LEMMA LinkedStep == TInv /\ TInv' /\ LinkedUntilStale /\ [Next]_vars => LinkedUntilStale'
<1> SUFFICES ASSUME TInv, TInv', LinkedUntilStale, [Next]_vars, ~stale'
             PROVE  Linked'
  BY DEF LinkedUntilStale
<1>1. Linked
  BY StaleStays DEF LinkedUntilStale
<1>2. LinkedWith({})
  BY <1>1, NobodyParked
<1>3. LinkedWith({})'
  BY <1>2, LinkedWithStep
<1> QED BY <1>3, NobodyParked

\* at boot every list is empty
LEMMA KernelInitLinked == Init => Linked
<1> SUFFICES ASSUME Init PROVE Linked
  OBVIOUS
<1> USE DEF Init, InitServices, InitNucleus, InitMikabooq, proc_init,
        thread_init, msgq_init
<1>1. ThreadTypes
  BY TInvInit, TypeOKParts DEF TInv
<1>2. \A t \in Thread : QueueOf({}, t) = NULL
  BY DEF QueueOf, SchedQueue, T_STATUS_NONE, T_STATUS_READY, T_STATUS_W4MSG
<1>3. HomeIs({})
  BY <1>1, HomeFacts
<1>4. \A c \in Cell : HomeOf({})[c] # NULL => c \in Sentinel
  BY <1>2, <1>3, CellFacts DEF HomeIs
<1>5. Rings(links, HomeOf({}))
  <2>1. Inverse_pointers(links, HomeOf({}))
    BY <1>3, <1>4, CellFacts DEF Inverse_pointers, HomeIs, init_list_heads
  <2>2. Listed(HomeOf({})) = {}
    BY <1>3, <1>4 DEF Listed, HomeIs
  <2> QED BY <2>1, <2>2 DEF Rings, No_stray_ring
<1>6. FreeListOK
  BY TcbFacts, MikabooqAssumption DEF FreeListOK, Live, Tcb
<1> QED BY <1>5, <1>6, NobodyParked DEF LinkedWith, Parked, CurrentReady

(* The scheduling lists never break before a free descriptor is freed: the  *)
(* pointers of each invert each other and lead only to threads whose state  *)
(* puts them on it, the free list holds free descriptors only and each      *)
(* once, and the thread that runs is ready (thread_enqueue,                 *)
(* thread_outqueue, thread_free and resume_thread).                         *)
THEOREM ListsSoundUntilStale == Spec => []LinkedUntilStale
<1>1. Init => LinkedUntilStale
  BY KernelInitLinked DEF LinkedUntilStale
<1> QED BY <1>1, LinkedStep, InvariantTInv, PTL DEF Spec

-----------------------------------------------------------------------------
(* Without the services that terminate, no descriptor is ever freed.         *)

\* the services that may end in __terminate_thread_s, __setmgr among them
Terminators == MgrTags \cup {"TERMINATE_PROCESS", "TERMINATE_THREAD"}

NothingDies == ~stale /\ ssi_pc # "terminate"

\* the SSI serves none but the services that are asked for, so it never gets
\* to the loops of the terminating ones
LEMMA NothingDiesStep ==
  ASSUME Requests \cap Terminators = {}, TInv, NothingDies, [Next]_vars
  PROVE  NothingDies'
<1>1. CASE UNCHANGED vars
  BY <1>1 DEF NothingDies, vars, nucleusvars, ssivars, termvars
<1>2. CASE (Boot \/ Scheduler \/ Interrupt) /\ UNCHANGED termvars
  BY <1>2 DEF NothingDies, Boot, LoadSSI, LoadThread, Scheduler, Dispatch,
     empty_readyq_h, Interrupt, interval_timer_h, TerminalDone, acknowledge,
     ssivars, termvars
<1>3. CASE (\E t \in Tcb : Program(t)) /\ UNCHANGED termvars
  BY <1>3 DEF NothingDies, Program, Send, Recv, Ask, AwaitReply, SsiReturns,
     ssivars, termvars
<1>4. ASSUME NEW tags, Serving(tags) PROVE request.tag \in tags \ Terminators
  BY <1>4, ServedFacts, RequestFacts DEF Serving, Running
<1>5. CASE ServeTerminateProcess \/ terminate_thread_s \/ __setmgr
  BY <1>4, <1>5 DEF ServeTerminateProcess, terminate_thread_s, __setmgr, Terminators
<1>6. CASE PickThread \/ ResumeWaiter \/ FreeVictim \/ PickChild \/ DeleteProcess
  BY <1>6 DEF PickThread, ResumeWaiter, FreeVictim, PickChild, DeleteProcess,
     Terminating, NothingDies
<1>7. CASE SsiReceive \/ SsiReply \/ ServeGet \/ create_thread_s
           \/ create_process_s \/ do_io_s
  BY <1>7 DEF SsiReceive, SsiReply, ServeGet, create_thread_s, create_process_s,
     do_io_s, NothingDies, Answered, Done, ssivars, termvars
<1> QED BY <1>1, <1>2, <1>3, <1>5, <1>6, <1>7 DEF Next, Service, Stopped

(* In a system whose programs neither terminate nor register managers, the  *)
(* lists are sound for ever, whatever is preempted (p2test's IPC and I/O):  *)
(* stale, on which ListsSoundUntilStale depends, is the work of the         *)
(* terminating services alone (terminate_process.c, terminate_thread.c).    *)
THEOREM ListsSoundWithoutTermination ==
  ASSUME Requests \cap Terminators = {}
  PROVE  Spec => []Linked
<1>1. Init => NothingDies
  BY DEF Init, InitServices, InitNucleus, NothingDies
<1>2. TInv /\ NothingDies /\ [Next]_vars => NothingDies'
  BY NothingDiesStep
<1>3. NothingDies /\ LinkedUntilStale => Linked
  BY DEF NothingDies, LinkedUntilStale
<1> QED
  BY <1>1, <1>2, <1>3, InvariantTInv, ListsSoundUntilStale, PTL DEF Spec

-----------------------------------------------------------------------------
(* Who wakes a thread.                                                       *)

\* no step resumes a thread but those WokenBy names
LEMMA WakeUpStep ==
  ASSUME TInv, LinkedUntilStale, Next, ~stale, NEW t \in Thread, Woken(t)
  PROVE  WokenBy(t)
<1> USE TypeOKParts, TcbFacts DEF TInv, Woken
<1> USE DEF T_STATUS_NONE, T_STATUS_READY, T_STATUS_W4MSG
<1>0. Linked /\ t_status[t] = T_STATUS_W4MSG /\ t_status'[t] = T_STATUS_READY
  BY DEF LinkedUntilStale
<1>1. ASSUME NEW dest, NEW sender, NEW value, send(dest, sender, value)
      PROVE  t_wait4sender[t] \in {sender, NULL}
  BY <1>0, <1>1 DEF send, resume_thread, Expects, threadvars, ThreadTypes
<1>2. ASSUME NEW s, NEW sender, \/ recv_blocks(s, sender)
                                \/ \E i \in DOMAIN t_msgq[s] : recv_takes(s, sender, i)
      PROVE  FALSE
  BY <1>0, <1>2 DEF recv_blocks, recv_takes, threadvars, ThreadTypes
<1>3. ASSUME NEW process, ~thread_alloc_fails(process), thread_alloc(process)
      PROVE  FALSE
  <2>1. thread_h # <<>> /\ 1 \in DOMAIN thread_h /\ Head(thread_h) = thread_h[1]
    BY <1>3 DEF thread_alloc_fails, ListTypes
  <2>2. ~Live(Head(thread_h))
    BY <1>0, <2>1 DEF Linked, FreeListOK
  <2>3. t_status' = [t_status EXCEPT ![Head(thread_h)] = T_STATUS_READY]
    BY <1>3 DEF thread_alloc
  <2> QED BY <1>0, <2>2, <2>3 DEF Live, ThreadTypes
<1>4. CASE LoadSSI
  BY <1>0, <1>4 DEF LoadSSI, ControlOK, Live, ThreadTypes
<1>5. CASE LoadThread \/ create_thread_s \/ create_process_s
  BY <1>0, <1>3, <1>5
     DEF LoadThread, create_thread_s, create_process_s, __create_thread_s, threadvars
<1>6. CASE acknowledge
  BY <1>1, <1>6 DEF acknowledge, WokenBy
<1>7. CASE \E u \in Tcb : Program(u)
  BY <1>1, <1>2, <1>7 DEF Program, Send, Recv, Ask, AwaitReply, Running, WokenBy
<1>8. CASE SsiReceive
  BY <1>2, <1>8 DEF SsiReceive
<1>9. CASE SsiReply
  BY <1>1, <1>9 DEF SsiReply, Running, WokenBy
<1>10. CASE ResumeWaiter
  <2>1. PICK u \in Tcb : /\ thread_qhead(links, t_wait4me(victim)) = t_sched(u)
                         /\ resume_thread(u)
    BY <1>10 DEF ResumeWaiter
  <2>2. u = t
    BY <1>0, <2>1 DEF resume_thread, ThreadTypes
  <2>3. t_wait4sender[t] = victim
    BY <1>0, <1>10, <2>1, <2>2, WaiterIsBlocked, NobodyParked DEF ResumeWaiter, TermTypes
  <2> QED BY <2>3 DEF WokenBy
<1>11. CASE FreeVictim
  BY <1>0, <1>11 DEF FreeVictim, thread_free, ThreadTypes
<1>12. CASE \/ Dispatch \/ empty_readyq_h \/ interval_timer_h \/ TerminalDone \/ Stopped
            \/ ServeGet \/ do_io_s \/ ServeTerminateProcess \/ terminate_thread_s
            \/ __setmgr \/ PickThread \/ PickChild \/ DeleteProcess
  <2>1. t_status' = t_status
    BY <1>12 DEF Dispatch, empty_readyq_h, interval_timer_h, TerminalDone, Stopped,
       ServeGet, do_io_s, ServeTerminateProcess, terminate_thread_s, __setmgr,
       PickThread, PickChild, DeleteProcess, terminate_process_s, WildAccess,
       vars, nucleusvars, mikabooqvars, threadvars
  <2> QED BY <1>0, <2>1
<1> QED
  BY <1>4, <1>5, <1>6, <1>7, <1>8, <1>9, <1>10, <1>11, <1>12
     DEF Next, Boot, Scheduler, Interrupt, Service

(* A blocked thread is woken by the thread it waits for, by the death of    *)
(* that thread or by the terminal, and by nothing else (send, acknowledge,  *)
(* __terminate_thread_s).                                                   *)
THEOREM OnlyTheAwaitedWakes == Spec => WakeUps
<1>1. TInv /\ LinkedUntilStale /\ [Next]_vars
        => [\A t \in Thread : Woken(t) => stale \/ WokenBy(t)]_vars
  BY WakeUpStep
<1> QED BY <1>1, InvariantTInv, ListsSoundUntilStale, PTL DEF Spec, WakeUps
=============================================================================
