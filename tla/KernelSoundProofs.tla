------------------------- MODULE KernelSoundProofs --------------------------
(***************************************************************************)
(* The counter of threads, the end of the system, the message descriptors  *)
(* and the mailboxes, for every value of the constants.                    *)
(***************************************************************************)
EXTENDS KernelMailbox, KernelTreeProofs

-----------------------------------------------------------------------------
(* Who is alive.                                                             *)

SsiLive == kpc # "boot" => Live(SSI)

\* nothing ever takes the SSI away, also past stale: thread_free is given
\* threads of processes only
LEMMA SsiLiveStep == TInv /\ SsiLive /\ [Next]_vars => SsiLive'
<1> SUFFICES ASSUME TInv, SsiLive, [Next]_vars PROVE SsiLive'
  OBVIOUS
<1> USE TypeOKParts, TcbFacts DEF TInv, T_STATUS_NONE, T_STATUS_READY, T_STATUS_W4MSG
<1>1. CASE t_status'[SSI] = t_status[SSI] /\ (kpc' # "boot" => kpc # "boot")
  BY <1>1 DEF SsiLive, Live
<1>2. CASE t_status'[SSI] # T_STATUS_NONE
  BY <1>2 DEF SsiLive, Live
<1>3. ASSUME NEW dest \in Thread, NEW sender, NEW value, send(dest, sender, value)
      PROVE  t_status'[SSI] \in {t_status[SSI], T_STATUS_READY}
  BY <1>3 DEF send, resume_thread, threadvars, ThreadTypes
<1>4. ASSUME NEW t \in Thread, NEW sender,
             \/ recv_blocks(t, sender)
             \/ \E i \in DOMAIN t_msgq[t] : recv_takes(t, sender, i)
      PROVE  t_status'[SSI] \in {t_status[SSI], T_STATUS_W4MSG}
  BY <1>4 DEF recv_blocks, recv_takes, threadvars, ThreadTypes
<1>5. ASSUME NEW process, ~thread_alloc_fails(process), thread_alloc(process)
      PROVE  t_status'[SSI] = t_status[SSI]
  <2>1. Head(thread_h) \in Tcb
    BY <1>5 DEF thread_alloc_fails, ListTypes
  <2> QED BY <1>5, <2>1 DEF thread_alloc, ThreadTypes
<1>6. CASE LoadSSI
  BY <1>2, <1>6 DEF LoadSSI, ThreadTypes
<1>7. CASE LoadThread
  <2>1. Live(SSI)
    BY <1>7 DEF LoadThread, ControlOK
  <2> QED BY <1>2, <1>5, <1>7, <2>1 DEF LoadThread, Live
<1>8. CASE acknowledge
  <2>1. soft_blocked_thread \in Thread /\ kpc # "boot"
    BY <1>8 DEF acknowledge, ControlOK, IOTypes, InterruptsEnabled
  <2> QED BY <1>1, <1>2, <1>3, <1>8, <2>1 DEF acknowledge
<1>9. ASSUME NEW t \in Tcb, Program(t) PROVE SsiLive'
  <2>1. kpc # "boot"
    BY <1>9 DEF Program, Send, Recv, Ask, AwaitReply, Running
  <2>2. ASSUME NEW dest \in Tcb, NEW value \in Values, Send(t, dest, value)
        PROVE  SsiLive'
    BY <1>1, <1>2, <1>3, <2>1, <2>2 DEF Send
  <2>3. ASSUME NEW req \in Request, Ask(t, req) PROVE SsiLive'
    BY <1>1, <1>2, <1>3, <2>1, <2>3 DEF Ask
  <2>4. ASSUME NEW sender \in Tcb \cup {NULL}, Recv(t, sender) PROVE SsiLive'
    BY <1>1, <1>2, <1>4, <2>1, <2>4 DEF Recv
  <2>5. CASE AwaitReply(t)
    <3>1. t_status'[SSI] \in {t_status[SSI], T_STATUS_W4MSG}
      BY <1>4, <2>5 DEF AwaitReply
    <3> QED BY <1>1, <1>2, <2>1, <3>1
  <2> QED BY <1>9, <2>2, <2>3, <2>4, <2>5 DEF Program
<1>10. CASE SsiReceive
  <2>1. t_status'[SSI] \in {t_status[SSI], T_STATUS_W4MSG}
    BY <1>4, <1>10 DEF SsiReceive
  <2>2. kpc # "boot"
    BY <1>10 DEF SsiReceive, Running
  <2> QED BY <1>1, <1>2, <2>1, <2>2
<1>11. CASE SsiReply
  <2>1. applicant \in Thread /\ kpc # "boot"
    BY <1>11, ServedFacts DEF SsiReply, Running
  <2> QED BY <1>1, <1>2, <1>3, <1>11, <2>1 DEF SsiReply
<1>12. CASE create_thread_s \/ create_process_s
  <2>1. kpc # "boot"
    BY <1>12 DEF create_thread_s, create_process_s, Serving, Running
  <2>2. t_status'[SSI] = t_status[SSI]
    BY <1>5, <1>12 DEF create_thread_s, create_process_s, __create_thread_s, threadvars
  <2> QED BY <1>1, <2>1, <2>2
<1>13. CASE ResumeWaiter \/ FreeVictim
  <2>1. kpc # "boot"
    BY <1>13 DEF ResumeWaiter, FreeVictim, Terminating, Running
  <2>2. t_status'[SSI] = t_status[SSI]
    BY <1>13 DEF ResumeWaiter, FreeVictim, resume_thread, thread_free, TermTypes,
       ThreadTypes
  <2> QED BY <1>1, <2>1, <2>2
<1>14. CASE \/ Dispatch \/ empty_readyq_h \/ interval_timer_h \/ TerminalDone
            \/ ServeGet \/ do_io_s \/ ServeTerminateProcess \/ terminate_thread_s
            \/ __setmgr \/ PickThread \/ PickChild \/ DeleteProcess
  <2>1. t_status' = t_status
    BY <1>14 DEF Dispatch, empty_readyq_h, interval_timer_h, TerminalDone,
       ServeGet, do_io_s, ServeTerminateProcess, terminate_thread_s, __setmgr,
       PickThread, PickChild, DeleteProcess, terminate_process_s, WildAccess,
       mikabooqvars, threadvars
  <2>2. kpc # "boot"
    BY <1>14 DEF Dispatch, empty_readyq_h, interval_timer_h, InterruptsEnabled,
       TerminalDone, ServeGet, do_io_s, ServeTerminateProcess, terminate_thread_s,
       __setmgr, PickThread, PickChild, DeleteProcess, Serving, Terminating, Running
  <2> QED BY <1>1, <2>1, <2>2
<1>15. CASE Stopped \/ UNCHANGED vars
  BY <1>1, <1>15 DEF Stopped, vars, nucleusvars, mikabooqvars, threadvars, runvars
<1> QED
  BY <1>6, <1>7, <1>8, <1>9, <1>10, <1>11, <1>12, <1>13, <1>14, <1>15
     DEF Next, Boot, Scheduler, Interrupt, Service

\* whoever is alive, but for t
OthersLive(t) ==
  \A u \in Thread : u # t => /\ Live(u)' <=> Live(u)
                             /\ u \in Tcb => t_pcb'[u] = t_pcb[u]

NobodyBorn ==
  /\ \A u \in Thread : Live(u)' <=> Live(u)
  /\ UNCHANGED <<t_pcb, thread_count>>
Born(t) ==
  /\ ~Live(t) /\ Live(t)' /\ OthersLive(t)
  /\ t \in Tcb => t_pcb'[t] # NULL
  /\ thread_count' = thread_count + 1
Dies(t) ==
  /\ Live(t) /\ ~Live(t)' /\ OthersLive(t)
  /\ t_pcb'[t] = NULL
  /\ thread_count' = thread_count - 1

\* thread_alloc brings a free descriptor to life
LEMMA AllocIsBirth ==
  ASSUME TInv, NEW P, LinkedWith(P), NEW process \in Proc, ~thread_alloc_fails(process),
         thread_alloc(process), thread_count' = thread_count + 1
  PROVE  \E t \in Thread : Born(t)
<1> USE TypeOKParts, TcbFacts DEF TInv
<1>0. PICK t : t = Head(thread_h)
  OBVIOUS
<1>1. t \in Tcb /\ 1 \in DOMAIN thread_h /\ t = thread_h[1]
  BY <1>0 DEF thread_alloc_fails, ListTypes
<1>2. ~Live(t)
  BY <1>1 DEF LinkedWith, FreeListOK
<1>3. /\ t_status' = [t_status EXCEPT ![t] = T_STATUS_READY]
      /\ t_pcb' = [t_pcb EXCEPT ![t] = process]
  BY <1>0 DEF thread_alloc
<1>4. Born(t)
  <2>1. /\ t_status'[t] = T_STATUS_READY /\ t_pcb'[t] = process
        /\ \A u \in Thread : u # t => t_status'[u] = t_status[u] /\ t_pcb'[u] = t_pcb[u]
    BY <1>1, <1>3 DEF ThreadTypes
  <2>2. Live(t)' /\ OthersLive(t)
    BY <2>1 DEF OthersLive, Live, T_STATUS_NONE, T_STATUS_READY
  <2>3. process # NULL
    BY TcbFacts
  <2> QED BY <1>2, <2>1, <2>2, <2>3 DEF Born
<1> QED BY <1>1, <1>4

\* a send, or a recv, brings nobody to life
LEMMA MessagesBearNobody ==
  ASSUME TInv, NEW P, LinkedWith(P), UNCHANGED thread_count, NEW t \in Thread, NEW sender,
         \/ \E value : send(t, sender, value)
         \/ Running(t) /\ recv_blocks(t, sender)
         \/ \E i \in DOMAIN t_msgq[t] : recv_takes(t, sender, i)
  PROVE  NobodyBorn
<1> USE TypeOKParts, TcbFacts DEF TInv, T_STATUS_NONE, T_STATUS_READY, T_STATUS_W4MSG
<1>1. CASE UNCHANGED threadvars
  BY <1>1 DEF NobodyBorn, threadvars, Live
<1>2. CASE Expects(t, sender) /\ resume_thread(t)
  BY <1>2 DEF NobodyBorn, Expects, resume_thread, Live, ThreadTypes
<1>3. CASE Running(t) /\ recv_blocks(t, sender)
  <2>1. t_status[t] = T_STATUS_READY
    BY <1>3 DEF Running, LinkedWith, CurrentReady
  <2>2. /\ t_status' = [t_status EXCEPT ![t] = T_STATUS_W4MSG]
        /\ UNCHANGED t_pcb
    BY <1>3 DEF recv_blocks
  <2> QED BY <2>1, <2>2 DEF NobodyBorn, Live, ThreadTypes
<1> QED BY <1>1, <1>2, <1>3 DEF send, recv_takes

\* what a step does to who is alive, until a free descriptor is freed
LEMMA Lives ==
  ASSUME TInv, NEW P, LinkedWith(P), [Next]_vars, ~stale'
  PROVE  NobodyBorn \/ (\E t \in Thread : Born(t)) \/ (\E t \in Tcb : Dies(t))
<1> USE TypeOKParts, TcbFacts DEF TInv, T_STATUS_NONE, T_STATUS_READY, T_STATUS_W4MSG
<1>1. CASE LoadSSI
  <2>1. ~Live(SSI)
    BY <1>1 DEF LoadSSI, ControlOK
  <2>2. Born(SSI)
    BY <1>1, <2>1 DEF LoadSSI, init_and_load, Born, OthersLive, Live, ThreadTypes
  <2> QED BY <2>2
<1>2. CASE LoadThread
  BY <1>2, AllocIsBirth DEF LoadThread, init_and_load
<1>3. CASE acknowledge
  <2>1. soft_blocked_thread \in Thread
    BY <1>3 DEF acknowledge, ControlOK, IOTypes
  <2> QED BY <1>3, <2>1, MessagesBearNobody DEF acknowledge
<1>4. ASSUME NEW t \in Tcb, Program(t) PROVE NobodyBorn
  <2>1. ASSUME NEW dest \in Tcb, NEW value \in Values, Send(t, dest, value)
        PROVE  NobodyBorn
    BY <2>1, MessagesBearNobody DEF Send
  <2>2. ASSUME NEW req \in Request, Ask(t, req) PROVE NobodyBorn
    BY <2>2, MessagesBearNobody DEF Ask
  <2>3. ASSUME NEW sender \in Tcb \cup {NULL}, Recv(t, sender) PROVE NobodyBorn
    BY <2>3, MessagesBearNobody DEF Recv
  <2>4. CASE AwaitReply(t)
    BY <2>4, MessagesBearNobody DEF AwaitReply
  <2> QED BY <1>4, <2>1, <2>2, <2>3, <2>4 DEF Program
<1>5. CASE SsiReceive
  BY <1>5, MessagesBearNobody DEF SsiReceive
<1>6. CASE SsiReply
  <2>1. applicant \in Thread
    BY <1>6, ServedFacts DEF SsiReply
  <2> QED BY <1>6, <2>1, MessagesBearNobody DEF SsiReply
<1>7. CASE create_thread_s \/ create_process_s
  <2>1. CASE UNCHANGED <<threadvars, thread_count>>
    BY <2>1 DEF NobodyBorn, threadvars, Live
  <2>2. ASSUME NEW process \in Proc, ~thread_alloc_fails(process),
               __create_thread_s(process)
        PROVE  \E t \in Thread : Born(t)
    BY <2>2, AllocIsBirth DEF __create_thread_s
  <2>3. t_pcb[applicant] \in Proc \cup {NULL}
    BY <1>7, ServedFacts DEF create_thread_s, create_process_s, Serving
  <2>4. CASE create_thread_s
    BY <2>1, <2>2, <2>3, <2>4 DEF create_thread_s, thread_alloc_fails
  <2>5. CASE create_process_s
    <3>1. process_h # <<>> => Head(process_h) \in Proc
      BY DEF ProcTypes
    <3> QED BY <2>1, <2>2, <2>5, <3>1 DEF create_process_s, proc_alloc_fails
  <2> QED BY <1>7, <2>4, <2>5
<1>8. CASE ResumeWaiter
  <2>1. PICK t \in Tcb : /\ thread_qhead(links, t_wait4me(victim)) = t_sched(t)
                         /\ resume_thread(t)
    BY <1>8 DEF ResumeWaiter
  <2>2. t_status[t] = T_STATUS_W4MSG
    BY <1>8, <2>1, WaiterIsBlocked DEF ResumeWaiter, TermTypes
  <2> QED
    BY <1>8, <2>1, <2>2 DEF ResumeWaiter, resume_thread, NobodyBorn, Live, ThreadTypes
<1>9. CASE FreeVictim
  <2>1. PICK t \in Tcb : t = victim
    BY <1>9 DEF FreeVictim, TermTypes
  <2>2. Live(t)
    BY <1>9, <2>1 DEF FreeVictim, Live
  <2>3. Dies(t)
    BY <1>9, <2>1, <2>2 DEF FreeVictim, thread_free, Dies, OthersLive, Live, ThreadTypes
  <2> QED BY <2>3
<1>10. CASE \/ Dispatch \/ empty_readyq_h \/ interval_timer_h \/ TerminalDone \/ Stopped
            \/ ServeGet \/ do_io_s \/ ServeTerminateProcess \/ terminate_thread_s
            \/ __setmgr \/ PickThread \/ PickChild \/ DeleteProcess \/ UNCHANGED vars
  <2>1. UNCHANGED <<t_status, t_pcb, thread_count>>
    BY <1>10 DEF Dispatch, empty_readyq_h, interval_timer_h, TerminalDone, Stopped,
       ServeGet, do_io_s, ServeTerminateProcess, terminate_thread_s, __setmgr,
       PickThread, PickChild, DeleteProcess, terminate_process_s, WildAccess,
       vars, nucleusvars, mikabooqvars, threadvars
  <2> QED BY <2>1 DEF NobodyBorn, Live
<1> QED
  BY <1>1, <1>2, <1>3, <1>4, <1>5, <1>6, <1>7, <1>8, <1>9, <1>10
     DEF Next, Boot, Scheduler, Interrupt, Service

-----------------------------------------------------------------------------
(* The counter of threads, and which descriptors are in use.                 *)

Alive == {t \in Thread : Live(t)}

\* until a free descriptor is freed, the descriptors in use are the live ones
\* and thread_count counts them
Belongs == \A t \in Tcb : Live(t) <=> t_pcb[t] # NULL
Counted == ThreadCountExact /\ Belongs

\* there are finitely many threads
LEMMA ThreadsFinite == IsFiniteSet(Thread) /\ IsFiniteSet(Alive) /\ IsFiniteSet(Alive)'
<1>1. IsFiniteSet(Tcb)
  BY FS_Interval, MikabooqAssumption DEF Tcb
<1>2. IsFiniteSet(Thread)
  BY <1>1, FS_AddElement DEF Thread
<1>3. Alive \in SUBSET Thread /\ Alive' \in SUBSET Thread
  BY DEF Alive
<1> QED BY <1>2, <1>3, FS_Subset

\* the counter follows the births and the deaths
LEMMA CountStep ==
  ASSUME Counted, NobodyBorn \/ (\E t \in Thread : Born(t)) \/ (\E t \in Tcb : Dies(t))
  PROVE  Counted'
<1> USE ThreadsFinite, TcbFacts
<1>1. CASE NobodyBorn
  <2>1. Alive' = Alive /\ UNCHANGED thread_count
    BY <1>1 DEF NobodyBorn, Alive
  <2>2. Belongs'
    BY <1>1 DEF Counted, NobodyBorn, Belongs
  <2> QED BY <2>1, <2>2 DEF Counted, ThreadCountExact, Alive
<1>2. ASSUME NEW t \in Thread, Born(t) PROVE Counted'
  <2>1. Alive' = Alive \cup {t} /\ t \notin Alive /\ thread_count' = thread_count + 1
    BY <1>2 DEF Born, OthersLive, Alive
  <2>2. Cardinality(Alive') = Cardinality(Alive) + 1
    BY <2>1, FS_AddElement
  <2>3. Belongs'
    BY <1>2 DEF Counted, Born, OthersLive, Belongs
  <2> QED BY <2>1, <2>2, <2>3 DEF Counted, ThreadCountExact, Alive
<1>3. ASSUME NEW t \in Tcb, Dies(t) PROVE Counted'
  <2>1. Alive' = Alive \ {t} /\ t \in Alive /\ thread_count' = thread_count - 1
    BY <1>3 DEF Dies, OthersLive, Alive
  <2>2. Cardinality(Alive') = Cardinality(Alive) - 1
    BY <2>1, FS_RemoveElement
  <2>3. Belongs'
    BY <1>3 DEF Counted, Dies, OthersLive, Belongs
  <2> QED BY <2>1, <2>2, <2>3 DEF Counted, ThreadCountExact, Alive
<1> QED BY <1>1, <1>2, <1>3

\* the tree agrees with the threads that are alive
LEMMA TreeSound == TreeInv /\ Belongs => TreeOK
  BY DEF TreeInv, ThreadLists, ProcLists, Acyclic, Owned, Populated, Belongs, TreeOK

-----------------------------------------------------------------------------
(* The end.                                                                  *)

\* nobody belongs to an empty list
LEMMA EmptyHasNobody ==
  ASSUME ThreadTypes, NEW P, Rings(links, HomeOf(P)), NEW q \in Sentinel, list_empty(links, q),
         NEW t \in Thread
  PROVE  QueueOf(P, t) # q
<1> DEFINE S == {c \in Listed(HomeOf(P)) : HomeOf(P)[c] = q}
<1>1. HomeIs(P) /\ q \in Cell /\ HomeOf(P)[q] = q /\ q # NULL /\ DOMAIN HomeOf(P) = Cell
  BY HomeFacts, CellFacts DEF HomeIs
<1>2. links.next[q] = q
  BY DEF list_empty
<1>3. S = {}
  <2> SUFFICES ASSUME S # {} PROVE FALSE
    OBVIOUS
  <2>1. PICK c \in S : links.next[c] \notin S
    BY DEF Rings, No_stray_ring
  <2>2. c \in Cell /\ HomeOf(P)[c] = q /\ c # q
    BY <1>1, <2>1 DEF Listed
  <2>3. /\ links.next[c] \in Cell /\ HomeOf(P)[links.next[c]] = q
        /\ links.prev[links.next[c]] = c
    BY <1>1, <2>2 DEF Rings, Inverse_pointers
  <2>4. links.next[c] = q
    BY <1>1, <2>1, <2>3 DEF Listed
  <2>5. links.prev[links.next[q]] = q
    BY <1>1 DEF Rings, Inverse_pointers
  <2> QED BY <1>2, <2>2, <2>3, <2>4, <2>5
<1>4. t_sched(t) \in Cell \ Sentinel
  BY CellFacts
<1>5. ASSUME QueueOf(P, t) = q PROVE FALSE
  <2>1. HomeOf(P)[t_sched(t)] = q
    BY <1>1, <1>5 DEF HomeIs
  <2> QED BY <1>1, <1>3, <1>4, <2>1 DEF Listed
<1> QED BY <1>5

\* ... so nobody waits for a thread with an empty list of waiting ones
LEMMA NobodyWaits ==
  ASSUME ThreadTypes, NEW P, LinkedWith(P), NEW v \in Thread,
         list_empty(links, t_wait4me(v)), NEW t \in Thread
  PROVE  ~(t_status[t] = T_STATUS_W4MSG /\ t_wait4sender[t] = v)
<1>1. QueueOf(P, t) # t_wait4me(v)
  BY EmptyHasNobody, CellFacts DEF LinkedWith
<1>2. t \in P => t_status[t] = T_STATUS_READY
  BY DEF LinkedWith, Parked
<1> QED
  BY <1>1, <1>2, TcbFacts DEF QueueOf, SchedQueue, T_STATUS_READY, T_STATUS_W4MSG

\* empty_readyq_h finds out right: but for the parked ones, all wait
LEMMA EndStep ==
  ASSUME TInv, NEW P, LinkedWith(P), SsiLive, Counted, empty_readyq_h
  PROVE  /\ kpc' = "halt" => \A t \in Tcb : ~Live(t)'
         /\ \A t \in Thread \ P : Live(t)' => t_status'[t] = T_STATUS_W4MSG
<1> USE TypeOKParts, TcbFacts, CellFacts DEF TInv
<1>1. /\ kpc = "scheduler" /\ list_empty(links, readyq)
      /\ UNCHANGED <<t_status, t_wait4sender>>
      /\ kpc' = "halt" => thread_count = 1
  BY DEF empty_readyq_h, only_the_SSI_is_left, mikabooqvars, threadvars
<1>2. ASSUME thread_count = 1 PROVE \A t \in Tcb : ~Live(t)
  <2>1. Cardinality(Alive) = 1
    BY <1>2 DEF Counted, ThreadCountExact, Alive
  <2>2. PICK x : Alive = {x}
    BY <2>1, FS_Singleton, ThreadsFinite
  <2>3. SSI \in Alive
    BY <1>1 DEF SsiLive, Alive
  <2> QED BY <2>2, <2>3 DEF Alive
<1>3. \A t \in Thread \ P : Live(t) => t_status[t] = T_STATUS_W4MSG
  <2> SUFFICES ASSUME NEW t \in Thread \ P, Live(t), t_status[t] # T_STATUS_W4MSG
               PROVE  FALSE
    OBVIOUS
  <2>1. t_status[t] = T_STATUS_READY
    BY DEF Live, ThreadTypes
  <2>2. QueueOf(P, t) = readyq
    BY <1>1, <2>1 DEF QueueOf, SchedQueue, OnCpu, T_STATUS_READY, T_STATUS_W4MSG
  <2> QED BY <1>1, <2>2, EmptyHasNobody DEF LinkedWith
<1> QED BY <1>1, <1>2, <1>3 DEF Live

\* nothing but empty_readyq_h ends the system so
LEMMA OnlyTheSchedulerEnds ==
  ASSUME TInv, [Next]_vars, kpc' \in {"halt", "panic_deadlock"}
  PROVE  empty_readyq_h \/ UNCHANGED <<kpc, t_status>>
<1>1. CASE UNCHANGED vars \/ Stopped
  BY <1>1 DEF Stopped, vars, nucleusvars, mikabooqvars, threadvars, runvars
<1>2. CASE Boot \/ Dispatch \/ Interrupt
  BY <1>2 DEF Boot, LoadSSI, LoadThread, Dispatch, Interrupt, interval_timer_h,
     TerminalDone, acknowledge, InterruptsEnabled, runvars
<1>3. ASSUME NEW t, Program(t) PROVE FALSE
  BY <1>3 DEF Program, Send, Recv, Ask, AwaitReply, Running, recv_blocks, recv_takes,
     runvars
<1>4. CASE Service
  BY <1>4 DEF Service, SsiReceive, SsiReply, ServeGet, create_thread_s, create_process_s,
     do_io_s, ServeTerminateProcess, terminate_thread_s, __setmgr, PickThread,
     ResumeWaiter, FreeVictim, PickChild, DeleteProcess, terminate_process_s,
     WildAccess, Serving, Terminating, Running, recv_blocks, recv_takes, runvars
<1> QED BY <1>1, <1>2, <1>3, <1>4 DEF Next, Scheduler

\* what ended stays ended
LEMMA EndIsHonestStep ==
  ASSUME TInv, Linked, SsiLive, Counted, EndIsHonest, [Next]_vars
  PROVE  EndIsHonest'
<1>1. CASE kpc' \notin {"halt", "panic_deadlock"}
  BY <1>1 DEF EndIsHonest
<1>2. CASE empty_readyq_h
  BY <1>2, EndStep, NobodyParked DEF EndIsHonest
<1>3. CASE UNCHANGED <<kpc, t_status>>
  BY <1>3 DEF EndIsHonest, Live
<1> QED BY <1>1, <1>2, <1>3, OnlyTheSchedulerEnds

-----------------------------------------------------------------------------
(* Soundness, until a free descriptor is freed.                              *)

SoundInv == SsiLive /\ (stale \/ (Counted /\ EndIsHonest))

LEMMA SoundStep ==
  ASSUME TInv, LinkedUntilStale, SoundInv, [Next]_vars
  PROVE  SoundInv'
<1>1. SsiLive'
  BY SsiLiveStep DEF SoundInv
<1>2. stale => stale'
  BY StaleStays
<1>3. ASSUME ~stale' PROVE Counted' /\ EndIsHonest'
  <2>1. Linked /\ Counted /\ EndIsHonest /\ SsiLive
    BY <1>2, <1>3 DEF LinkedUntilStale, SoundInv
  <2> QED BY <1>3, <2>1, NobodyParked, Lives, CountStep, EndIsHonestStep
<1> QED BY <1>1, <1>3 DEF SoundInv

\* every descriptor but the SSI's is free when the system starts
LEMMA SoundInit == Init => SoundInv
<1> SUFFICES ASSUME Init PROVE SoundInv
  OBVIOUS
<1> USE DEF Init, InitServices, InitNucleus, InitMikabooq, proc_init, thread_init
<1>1. \A t \in Thread : ~Live(t)
  BY DEF Live
<1>2. Alive = {} /\ thread_count = 0
  BY <1>1 DEF Alive
<1>3. ThreadCountExact
  BY <1>2, FS_EmptySet DEF ThreadCountExact, Alive
<1>4. Belongs
  BY <1>1, TcbFacts DEF Belongs
<1> QED BY <1>3, <1>4 DEF SoundInv, SsiLive, Counted, EndIsHonest

LEMMA InvariantSound == Spec => []SoundInv
<1>1. TInv /\ LinkedUntilStale /\ SoundInv /\ [Next]_vars => SoundInv'
  BY SoundStep
<1> QED BY <1>1, SoundInit, InvariantTInv, ListsSoundUntilStale, PTL DEF Spec

\* once load_readyq is done the SSI is there to answer, for ever: no request,
\* served for the living or for the dead, ever frees its descriptor
THEOREM SsiNeverDies == Spec => []SsiLive
  BY InvariantSound, PTL DEF SoundInv

(* Until a free descriptor is freed, in every preemptive or cooperative      *)
(* system: every thread is on exactly the list its state says, thread_count  *)
(* is the number of live threads, the process tree agrees with the threads   *)
(* and the free lists, the kernel halts only when no program is left, and    *)
(* it declares a deadlock only when every thread waits for a message.        *)
THEOREM KernelSoundUntilStale == Spec => []SoundUntilStale
<1>1. LinkedUntilStale /\ TreeInv /\ SoundInv => SoundUntilStale
  BY TreeSound DEF LinkedUntilStale, Linked, SoundInv, Counted, SoundUntilStale, ListsOK
<1> QED BY <1>1, ListsSoundUntilStale, InvariantTree, InvariantSound, PTL

-----------------------------------------------------------------------------
(* The message descriptors.                                                  *)

Queues == [Thread -> Seq(Message)]

\* the places of the queues q
Slots(q) == UNION { {t} \X DOMAIN q[t] : t \in Thread }

LEMMA SlotsAre ==
  ASSUME NEW q, NEW x
  PROVE  x \in Slots(q) <=> \E t \in Thread : \E i \in DOMAIN q[t] : x = <<t, i>>
  BY DEF Slots

\* a place at the end of a queue is added, or taken
LEMMA OneMoreSlot ==
  ASSUME NEW q \in Queues, NEW r \in Queues, NEW d \in Thread, IsFiniteSet(Slots(q)),
         Len(r[d]) = Len(q[d]) + 1, \A u \in Thread : u # d => r[u] = q[u]
  PROVE  IsFiniteSet(Slots(r)) /\ Cardinality(Slots(r)) = Cardinality(Slots(q)) + 1
<1>1. /\ Len(q[d]) \in Nat /\ DOMAIN q[d] = 1..Len(q[d])
      /\ DOMAIN r[d] = 1..(Len(q[d]) + 1)
  BY DEF Queues
<1> DEFINE n == Len(q[d])
           new == <<d, n + 1>>
<1>2. new \notin Slots(q)
  <2>1. n + 1 \notin DOMAIN q[d]
    BY <1>1
  <2> QED BY <2>1, SlotsAre
<1>3. \A u \in Thread : DOMAIN r[u] = IF u = d THEN DOMAIN q[d] \cup {n + 1} ELSE DOMAIN q[u]
  <2>1. 1..(n + 1) = (1..n) \cup {n + 1}
    BY <1>1
  <2> QED BY <1>1, <2>1
<1> HIDE DEF n
<1>4. Slots(r) = Slots(q) \cup {new}
  <2>1. \A x : x \in Slots(r) <=> x \in Slots(q) \/ x = new
    BY <1>3, SlotsAre
  <2> QED BY <2>1
<1> HIDE DEF new
<1> QED BY <1>2, <1>4, FS_AddElement

LEMMA OneSlotLess ==
  ASSUME NEW q \in Queues, NEW r \in Queues, NEW d \in Thread, IsFiniteSet(Slots(q)),
         Len(q[d]) = Len(r[d]) + 1, \A u \in Thread : u # d => r[u] = q[u]
  PROVE  IsFiniteSet(Slots(r)) /\ Cardinality(Slots(r)) = Cardinality(Slots(q)) - 1
<1>1. \A x : x \in Slots(r) => x \in Slots(q)
  <2>1. /\ Len(q[d]) \in Nat /\ Len(r[d]) \in Nat
        /\ DOMAIN q[d] = 1..Len(q[d]) /\ DOMAIN r[d] = 1..Len(r[d])
    BY DEF Queues
  <2>2. \A u \in Thread : DOMAIN r[u] \subseteq DOMAIN q[u]
    BY <2>1
  <2> QED BY <2>2, SlotsAre
<1>2. Slots(r) \in SUBSET Slots(q)
  BY <1>1
<1>3. IsFiniteSet(Slots(r))
  BY <1>2, FS_Subset
<1>4. Cardinality(Slots(q)) = Cardinality(Slots(r)) + 1
  BY <1>3, OneMoreSlot
<1>5. Cardinality(Slots(r)) \in Nat
  BY <1>3, FS_CardinalityType
<1> QED BY <1>3, <1>4, <1>5

\* all the places of a queue are taken
LEMMA NoSlotsLeft ==
  ASSUME NEW q \in Queues, NEW d \in Thread, IsFiniteSet(Slots(q))
  PROVE  /\ IsFiniteSet(Slots([q EXCEPT ![d] = <<>>]))
         /\ Cardinality(Slots([q EXCEPT ![d] = <<>>])) =
              Cardinality(Slots(q)) - Len(q[d])
<1> DEFINE n == Len(q[d])
           own == {d} \X (1..n)
           r == [q EXCEPT ![d] = <<>>]
<1>1. n \in Nat /\ DOMAIN q[d] = 1..n
  BY DEF Queues
<1>2. \A u \in Thread : DOMAIN r[u] = IF u = d THEN {} ELSE DOMAIN q[u]
  BY DEF Queues
<1> HIDE DEF n, r
<1>3. Slots(r) = Slots(q) \ own
  <2>1. \A x : x \in Slots(r) <=> x \in Slots(q) /\ x \notin own
    BY <1>1, <1>2, SlotsAre
  <2> QED BY <2>1
<1>4. Slots(q) \cap own = own
  <2>1. \A x : x \in own => x \in Slots(q)
    BY <1>1, SlotsAre
  <2> QED BY <2>1
<1>5. Cardinality(own) = n
  <2>1. IsFiniteSet({d}) /\ Cardinality({d}) = 1
    BY FS_Singleton
  <2>2. IsFiniteSet(1..n) /\ Cardinality(1..n) = n
    BY <1>1, FS_Interval
  <2>3. Cardinality(own) = Cardinality({d}) * Cardinality(1..n)
    BY <2>1, <2>2, FS_Product, Zenon
  <2>4. Cardinality(own) = 1 * n
    BY <2>1, <2>2, <2>3, Zenon
  <2> QED BY <1>1, <2>4
<1> HIDE DEF own
<1>6. IsFiniteSet(Slots(r)) /\ Cardinality(Slots(r)) = Cardinality(Slots(q)) - n
  BY <1>3, <1>4, <1>5, FS_Difference
<1> QED BY <1>6 DEF r, n

\* the invariant, of the queues q and of `free` descriptors left
Conserved(q, free) == IsFiniteSet(Slots(q)) /\ free + Cardinality(Slots(q)) = MAXMSG

DeadHoldNothing == \A t \in Thread : ~Live(t) => t_msgq[t] = <<>>

MsgInv == Conserved(t_msgq, message_h) /\ DeadHoldNothing

\* who was alive is, unless it has no message
LivesOrEmpty == \A t \in Thread : Live(t) /\ ~Live(t)' => t_msgq'[t] = <<>>

\* a step that leaves the messages alone
LEMMA QuietConserves ==
  ASSUME MsgInv, UNCHANGED msgvars, LivesOrEmpty
  PROVE  MsgInv'
  BY DEF MsgInv, Conserved, DeadHoldNothing, LivesOrEmpty, msgvars

\* a send takes a descriptor only to queue it, for a live thread
LEMMA SendConserves ==
  ASSUME TypeOK, TypeOK', MsgInv, NEW dest \in Thread, NEW sender, NEW value,
         send(dest, sender, value)
  PROVE  MsgInv'
<1> USE TypeOKParts DEF T_STATUS_NONE, T_STATUS_READY, T_STATUS_W4MSG
<1>1. CASE UNCHANGED msgvars
  <2>1. LivesOrEmpty
    BY DEF send, resume_thread, threadvars, ThreadTypes, LivesOrEmpty, Live
  <2> QED BY <1>1, <2>1, QuietConserves
<1>2. CASE ~send_fails(dest, sender) /\ msgq_add(sender, dest, value) /\ UNCHANGED threadvars
  <2> DEFINE msg == [m_sender |-> sender, m_value |-> value]
  <2>1. /\ t_msgq \in Queues /\ t_msgq' \in Queues
        /\ message_h \in Nat /\ message_h' = message_h - 1
    BY <1>2 DEF MsgTypes, Queues, msgq_add
  <2>2. /\ t_msgq'[dest] = Append(t_msgq[dest], msg)
        /\ \A u \in Thread : u # dest => t_msgq'[u] = t_msgq[u]
    BY <1>2 DEF msgq_add, MsgTypes
  <2>3. Live(dest) /\ t_status' = t_status
    BY <1>2 DEF send_fails, threadvars, Live
  <2>4. Len(t_msgq'[dest]) = Len(t_msgq[dest]) + 1
    <3>1. t_msgq[dest] \in Seq(Message)
      BY DEF MsgTypes
    <3> HIDE DEF msg
    <3>2. Len(Append(t_msgq[dest], msg)) = Len(t_msgq[dest]) + 1
      BY <3>1
    <3> QED BY <2>2, <3>2
  <2>5. /\ IsFiniteSet(Slots(t_msgq'))
        /\ Cardinality(Slots(t_msgq')) = Cardinality(Slots(t_msgq)) + 1
    BY <2>1, <2>2, <2>4, OneMoreSlot DEF MsgInv, Conserved
  <2>6. Cardinality(Slots(t_msgq)) \in Nat
    BY FS_CardinalityType DEF MsgInv, Conserved
  <2>7. Conserved(t_msgq', message_h')
    BY <2>1, <2>5, <2>6 DEF MsgInv, Conserved
  <2>8. DeadHoldNothing'
    BY <2>2, <2>3 DEF MsgInv, DeadHoldNothing, Live
  <2> QED BY <2>7, <2>8 DEF MsgInv
<1> QED BY <1>1, <1>2 DEF send

\* msg_free gives one back
LEMMA FreeConserves ==
  ASSUME NEW q \in Queues, NEW free \in Nat, Conserved(q, free),
         NEW d \in Thread, NEW i \in DOMAIN q[d]
  PROVE  /\ [q EXCEPT ![d] = RemoveAt(@, i)] \in Queues
         /\ Conserved([q EXCEPT ![d] = RemoveAt(@, i)], free + 1)
<1> DEFINE r == [q EXCEPT ![d] = RemoveAt(@, i)]
           e == RemoveAt(q[d], i)
<1>1. q[d] \in Seq(Message) /\ i \in 1..Len(q[d]) /\ Len(q[d]) \in Nat
  BY DEF Queues
<1>2. e \in Seq(Message) /\ Len(e) = Len(q[d]) - 1
  BY <1>1, RemoveAtElements
<1> HIDE DEF e
<1>3. r = [q EXCEPT ![d] = e]
  BY DEF e
<1> HIDE DEF r
<1>4. r \in Queues /\ r[d] = e /\ \A u \in Thread : u # d => r[u] = q[u]
  BY <1>2, <1>3 DEF Queues
<1>5. Len(q[d]) = Len(r[d]) + 1
  BY <1>1, <1>2, <1>4
<1>6. IsFiniteSet(Slots(r)) /\ Cardinality(Slots(r)) = Cardinality(Slots(q)) - 1
  BY <1>4, <1>5, OneSlotLess DEF Conserved
<1>7. Cardinality(Slots(q)) \in Nat
  BY FS_CardinalityType DEF Conserved
<1> QED BY <1>4, <1>6, <1>7 DEF Conserved, r

\* a recv takes a message or waits
LEMMA RecvConserves ==
  ASSUME TInv, MsgInv, NEW t \in Thread, NEW sender,
         \/ recv_blocks(t, sender)
         \/ \E i \in DOMAIN t_msgq[t] : recv_takes(t, sender, i)
  PROVE  MsgInv'
<1> USE TypeOKParts DEF TInv, T_STATUS_NONE, T_STATUS_W4MSG
<1>1. CASE recv_blocks(t, sender)
  <2>1. LivesOrEmpty /\ UNCHANGED msgvars
    BY <1>1 DEF recv_blocks, ThreadTypes, LivesOrEmpty, Live
  <2> QED BY <2>1, QuietConserves
<1>2. ASSUME NEW i \in DOMAIN t_msgq[t], recv_takes(t, sender, i) PROVE MsgInv'
  <2>1. /\ t_msgq' = [t_msgq EXCEPT ![t] = RemoveAt(@, i)]
        /\ message_h' = message_h + 1 /\ t_status' = t_status
    BY <1>2 DEF recv_takes, msg_free, threadvars
  <2>2. t_msgq \in Queues /\ message_h \in Nat
    BY DEF MsgTypes, Queues
  <2>3. Conserved(t_msgq', message_h')
    BY <2>1, <2>2, FreeConserves DEF MsgInv
  <2>4. \A u \in Thread : t_msgq[u] = <<>> => t_msgq'[u] = <<>>
    BY <1>2, <2>1 DEF MsgTypes
  <2>5. DeadHoldNothing'
    BY <2>1, <2>4 DEF MsgInv, DeadHoldNothing, Live
  <2> QED BY <2>3, <2>5 DEF MsgInv
<1> QED BY <1>1, <1>2

\* the first loop of __terminate_thread_s frees all the messages of a thread
LEMMA EmptyConserves ==
  ASSUME NEW q \in Queues, NEW free \in Nat, Conserved(q, free), NEW t \in Thread
  PROVE  Conserved([q EXCEPT ![t] = <<>>], free + Len(q[t]))
<1>1. Cardinality(Slots(q)) \in Nat /\ Len(q[t]) \in Nat
  BY FS_CardinalityType DEF Conserved, Queues
<1>2. /\ IsFiniteSet(Slots([q EXCEPT ![t] = <<>>]))
      /\ Cardinality(Slots([q EXCEPT ![t] = <<>>])) = Cardinality(Slots(q)) - Len(q[t])
  BY NoSlotsLeft DEF Conserved
<1>3. free + Cardinality(Slots(q)) = MAXMSG
  BY DEF Conserved
<1>4. (free + Len(q[t])) + (Cardinality(Slots(q)) - Len(q[t])) = MAXMSG
  BY <1>1, <1>3
<1> QED BY <1>2, <1>4 DEF Conserved

\* clean_sys_msg frees one message, or none
LEMMA CleanConserves ==
  ASSUME TInv, MsgInv, NEW t
  PROVE  /\ clean_sys_msg(t) \in Queues
         /\ Conserved(clean_sys_msg(t),
                      message_h + IF clean_sys_msg(t) = t_msgq THEN 0 ELSE 1)
         /\ \A u \in Thread : t_msgq[u] = <<>> => clean_sys_msg(t)[u] = <<>>
<1> USE TypeOKParts DEF TInv
<1> DEFINE queue == clean_sys_msg_queue(t)
           first == CHOOSE i \in DOMAIN t_msgq[queue] : IsFirstMatch(i, queue, t)
           cleaned == [t_msgq EXCEPT ![queue] = RemoveAt(@, first)]
<1>1. t_msgq \in Queues /\ message_h \in Nat /\ Conserved(t_msgq, message_h)
  BY DEF MsgTypes, Queues, MsgInv
<1>2. CASE clean_sys_msg(t) = t_msgq
  BY <1>1, <1>2
<1>3. CASE clean_sys_msg(t) # t_msgq
  <2>1. clean_sys_msg(t) = cleaned /\ Matching(queue, t) # {}
    BY <1>3 DEF clean_sys_msg
  <2>2. queue \in Thread
    <3> HIDE DEF queue, first
    <3> QED BY <1>1, <1>3, <2>1 DEF Queues, cleaned
  <2>3. first \in DOMAIN t_msgq[queue]
    BY <2>1, <2>2, FirstMatchExists
  <2>4. DOMAIN t_msgq[queue] # {}
    BY <2>3
  <2> HIDE DEF queue, first
  <2>5. cleaned \in Queues /\ Conserved(cleaned, message_h + 1)
    BY <1>1, <2>2, <2>3, FreeConserves
  <2>6. \A u \in Thread : t_msgq[u] = <<>> => cleaned[u] = <<>>
    <3>1. \A u \in Thread : t_msgq[u] = <<>> => u # queue
      BY <2>4
    <3> QED BY <1>1, <3>1 DEF Queues, cleaned
  <2> QED BY <1>3, <2>1, <2>5, <2>6
<1> QED BY <1>2, <1>3

\* the thread whose termination begins, its messages freed
LEMMA TerminationConserves ==
  ASSUME TInv, MsgInv, NEW t \in Tcb, NEW msgq \in Queues, NEW free \in Nat,
         Conserved(msgq, free), StartTerminating(t, msgq), UNCHANGED t_status,
         message_h' = free + Len(msgq[t]),
         \A u \in Thread : t_msgq[u] = <<>> => msgq[u] = <<>>
  PROVE  MsgInv'
<1>1. t_msgq' = [msgq EXCEPT ![t] = <<>>] /\ t \in Thread
  BY TcbFacts DEF StartTerminating
<1>2. Conserved(t_msgq', message_h')
  BY <1>1, EmptyConserves
<1>3. \A u \in Thread : msgq[u] = <<>> => t_msgq'[u] = <<>>
  BY <1>1 DEF Queues
<1>4. DeadHoldNothing'
  BY <1>3 DEF MsgInv, DeadHoldNothing, Live
<1> QED BY <1>2, <1>4 DEF MsgInv

\* every step of the kernel, also past stale
LEMMA MsgStep ==
  ASSUME TInv, TInv', MsgInv, [Next]_vars
  PROVE  MsgInv'
<1> USE TypeOKParts, TcbFacts DEF TInv, T_STATUS_NONE, T_STATUS_READY, T_STATUS_W4MSG
<1>1. CASE LoadSSI
  <2>1. LivesOrEmpty /\ UNCHANGED msgvars
    BY <1>1 DEF LoadSSI, LivesOrEmpty, Live, ThreadTypes
  <2> QED BY <2>1, QuietConserves
<1>2. CASE LoadThread \/ create_thread_s \/ create_process_s
  <2>1. LivesOrEmpty /\ UNCHANGED msgvars
    BY <1>2 DEF LoadThread, create_thread_s, create_process_s, __create_thread_s,
       thread_alloc, threadvars, LivesOrEmpty, Live, ThreadTypes
  <2> QED BY <2>1, QuietConserves
<1>3. CASE acknowledge
  <2>1. soft_blocked_thread \in Thread
    BY <1>3 DEF acknowledge, ControlOK, IOTypes
  <2> QED BY <1>3, <2>1, SendConserves DEF acknowledge
<1>4. ASSUME NEW t \in Tcb, Program(t) PROVE MsgInv'
  <2>1. ASSUME NEW dest \in Tcb, NEW value \in Values, Send(t, dest, value)
        PROVE  MsgInv'
    BY <2>1, SendConserves DEF Send
  <2>2. ASSUME NEW req \in Request, Ask(t, req) PROVE MsgInv'
    BY <2>2, SendConserves DEF Ask
  <2>3. ASSUME NEW sender \in Tcb \cup {NULL}, Recv(t, sender) PROVE MsgInv'
    BY <2>3, RecvConserves DEF Recv
  <2>4. CASE AwaitReply(t)
    BY <2>4, RecvConserves DEF AwaitReply
  <2> QED BY <1>4, <2>1, <2>2, <2>3, <2>4 DEF Program
<1>5. CASE SsiReceive
  BY <1>5, RecvConserves DEF SsiReceive
<1>6. CASE SsiReply
  <2>1. applicant \in Thread
    BY <1>6, ServedFacts DEF SsiReply
  <2>2. PICK dest, value : dest \in Thread /\ send(dest, SSI, value)
    BY <1>6, <2>1 DEF SsiReply
  <2> QED BY <2>2, SendConserves
<1>7. CASE ResumeWaiter
  <2>1. LivesOrEmpty /\ UNCHANGED msgvars
    BY <1>7 DEF ResumeWaiter, resume_thread, LivesOrEmpty, Live, ThreadTypes
  <2> QED BY <2>1, QuietConserves
<1>8. CASE FreeVictim
  <2>1. LivesOrEmpty /\ UNCHANGED msgvars
    BY <1>8 DEF FreeVictim, thread_free, thread_free_ok, LivesOrEmpty, Live, ThreadTypes,
       msgvars
  <2> QED BY <2>1, QuietConserves
<1>9. t_msgq \in Queues /\ message_h \in Nat /\ Conserved(t_msgq, message_h)
  BY DEF MsgTypes, Queues, MsgInv
<1>10. CASE PickThread
  <2>1. PICK t, msgq :
          /\ t \in Tcb /\ msgq \in {t_msgq, clean_sys_msg(t)} /\ StartTerminating(t, msgq)
          /\ message_h' = message_h + Len(msgq[t]) + IF msgq = t_msgq THEN 0 ELSE 1
    <3>1. dying_proc \in Proc /\ p_threads[dying_proc] # <<>>
      BY <1>10, FrontLastElements DEF PickThread, dying_proc, TermTypes
    <3>2. Head(p_threads[dying_proc]) \in Tcb
      BY <3>1 DEF ListTypes
    <3> QED BY <1>10, <3>2 DEF PickThread
  <2> DEFINE free == message_h + IF msgq = t_msgq THEN 0 ELSE 1
  <2>2. /\ msgq \in Queues /\ Conserved(msgq, free) /\ free \in Nat
        /\ \A u \in Thread : t_msgq[u] = <<>> => msgq[u] = <<>>
    <3>1. CASE msgq = t_msgq
      BY <1>9, <3>1
    <3>2. CASE msgq # t_msgq
      BY <1>9, <2>1, <3>2, CleanConserves
    <3> QED BY <3>1, <3>2
  <2>3. message_h' = free + Len(msgq[t])
    <3>1. PICK n \in Nat : n = Len(msgq[t])
      <4>1. t \in Thread
        BY <2>1, TcbFacts
      <4> QED BY <2>2, <4>1 DEF Queues
    <3>2. PICK k \in Nat : k = IF msgq = t_msgq THEN 0 ELSE 1
      OBVIOUS
    <3>3. message_h' = message_h + n + k /\ free = message_h + k
      BY <2>1, <3>1, <3>2
    <3>4. message_h + n + k = message_h + k + n
      BY <1>9
    <3> HIDE DEF free
    <3> QED BY <3>1, <3>3, <3>4
  <2>4. UNCHANGED t_status
    BY <1>10 DEF PickThread, threadvars
  <2> HIDE DEF free
  <2> QED BY <2>1, <2>2, <2>3, <2>4, TerminationConserves
<1>11. CASE terminate_thread_s
  <2>1. CASE terminate_process_s
    <3>1. LivesOrEmpty /\ UNCHANGED msgvars
      BY <2>1 DEF terminate_process_s, mikabooqvars, threadvars, LivesOrEmpty, Live
    <3> QED BY <3>1, QuietConserves
  <2>2. CASE ~terminate_process_s
    <3>1. PICK t \in Tcb : t = applicant
      BY <1>11, ServedFacts DEF terminate_thread_s, Serving
    <3>2. /\ StartTerminating(t, t_msgq) /\ message_h' = message_h + Len(t_msgq[t])
          /\ UNCHANGED t_status
      BY <1>11, <2>2, <3>1 DEF terminate_thread_s, threadvars
    <3> QED BY <1>9, <3>2, TerminationConserves
  <2> QED BY <2>1, <2>2
<1>12. CASE \/ Dispatch \/ empty_readyq_h \/ interval_timer_h \/ TerminalDone
            \/ ServeGet \/ do_io_s \/ ServeTerminateProcess \/ __setmgr \/ PickChild
            \/ DeleteProcess \/ Stopped \/ UNCHANGED vars
  <2>1. UNCHANGED <<t_status, t_msgq, message_h>>
    BY <1>12 DEF Dispatch, empty_readyq_h, interval_timer_h, TerminalDone, ServeGet,
       do_io_s, ServeTerminateProcess, __setmgr, PickChild, DeleteProcess, Stopped,
       terminate_process_s, WildAccess, vars, nucleusvars, mikabooqvars, msgvars,
       threadvars
  <2> QED BY <2>1, QuietConserves DEF LivesOrEmpty, Live, msgvars
<1> QED
  BY <1>1, <1>2, <1>3, <1>4, <1>5, <1>6, <1>7, <1>8, <1>10, <1>11, <1>12
     DEF Next, Boot, Scheduler, Interrupt, Service

LEMMA MsgInit == Init => MsgInv
<1> SUFFICES ASSUME Init PROVE MsgInv
  OBVIOUS
<1> USE DEF Init, InitServices, InitNucleus, InitMikabooq, msgq_init, thread_init
<1>1. \A t \in Thread : t_msgq[t] = <<>>
  OBVIOUS
<1>2. \A t \in Thread : DOMAIN t_msgq[t] = {}
  BY <1>1
<1>3. Slots(t_msgq) = {}
  <2>1. \A x : x \notin Slots(t_msgq)
    BY <1>2, SlotsAre
  <2> QED BY <2>1
<1>4. MAXMSG + 0 = MAXMSG
  BY MikabooqAssumption
<1> QED BY <1>1, <1>3, <1>4, FS_EmptySet DEF MsgInv, Conserved, DeadHoldNothing

(* No message descriptor is lost or freed twice, and no free thread          *)
(* descriptor holds one, in every reachable state, whatever is terminated    *)
(* while it sends, receives or waits (msgq_add, msgq_get, clean_sys_msg and  *)
(* the first loop of __terminate_thread_s).                                  *)
THEOREM MessagesAreConserved == Spec => []MessagesConserved
<1>1. TInv /\ TInv' /\ MsgInv /\ [Next]_vars => MsgInv'
  BY MsgStep
<1>2. MsgInv => MessagesConserved
  <2>1. Slots(t_msgq) = Queued
    BY DEF Slots, Queued
  <2> QED BY <2>1 DEF MsgInv, Conserved, DeadHoldNothing, MessagesConserved
<1> QED BY <1>1, <1>2, MsgInit, InvariantTInv, PTL DEF Spec
-----------------------------------------------------------------------------
(* The mailboxes.                                                            *)

Calling == {t \in Tcb : asked[t] # NULL}

\* a thread inside a stub is alive, and waits for nobody but the SSI
Awaits(t) ==
  asked[t] # NULL =>
    Live(t) /\ (t_status[t] = T_STATUS_W4MSG => t_wait4sender[t] = SSI)

\* What the mapping needs of the state besides lists and wake-ups: the SSI is
\* there to answer, a free descriptor has no message and makes no call, and a
\* thread that waits in a call waits for the SSI.
MailInv == SsiLive /\ DeadHoldNothing /\ \A t \in Tcb : Awaits(t)

\* what each step of the kernel is shown to do
MailStep == Mail!Next \/ UNCHANGED Mail!mailvars

\* the lists are sound, whoever is parked on blockedq (nobody, but by a trap)
KernelInv(P) ==
  /\ TInv /\ LinkedWith(P)
  /\ NoLostWakeup /\ TreeInv /\ MailInv

\* The fragments that the actions share.

\* a step that touches no message, no wait, no call and no life
LEMMA QuietMail ==
  ASSUME UNCHANGED <<t_status, t_wait4sender, t_msgq, asked, victim>>
  PROVE  MailStep
<1>1. UNCHANGED Mail!mailvars
  BY DEF Mail!mailvars, Live, Closing
<1> QED BY <1>1 DEF MailStep

\* a descriptor that is handed out is a thread that is born
LEMMA BornMail ==
  ASSUME TypeOK, MailInv, NEW t \in Thread, ~Live(t), t \notin Calling,
         t_status' = [t_status EXCEPT ![t] = T_STATUS_READY],
         UNCHANGED <<t_wait4sender, t_msgq, victim>>,
         Calling' = Calling
  PROVE  MailStep
<1> USE TypeOKParts, TcbFacts DEF T_STATUS_NONE, T_STATUS_READY, T_STATUS_W4MSG
<1>1. /\ t_status'[t] = T_STATUS_READY
      /\ \A u \in Thread : u # t => t_status'[u] = t_status[u]
  BY DEF ThreadTypes
<1>2. Mail!Born(t)
  <2>1. t \notin {u \in Thread : Live(u)} /\ t \notin {u \in Tcb : asked[u] # NULL}
    BY DEF Calling
  <2>2. t_msgq[t] = <<>>
    BY DEF MailInv, DeadHoldNothing
  <2>3. {u \in Thread : Live(u)}' = {u \in Thread : Live(u)} \cup {t}
    BY <1>1 DEF Live
  <2>4. {u \in Thread : t_status[u] = T_STATUS_W4MSG}'
          = {u \in Thread : t_status[u] = T_STATUS_W4MSG}
    BY <1>1 DEF Live
  <2>5. {u \in Tcb : asked[u] # NULL}' = {u \in Tcb : asked[u] # NULL}
    BY DEF Calling
  <2> QED BY <2>1, <2>2, <2>3, <2>4, <2>5 DEF Mail!Born, Closing
<1> QED BY <1>2 DEF MailStep, Mail!Next

\* send, whoever calls it: a handover, a message in the queue, or nothing
LEMMA SendMail ==
  ASSUME TypeOK, NoLostWakeup, MailInv,
         NEW s \in Thread, NEW d \in Thread, NEW value \in Payload,
         send(d, s, value), Live(s), s \notin Calling,
         UNCHANGED victim,
         Calling' = (IF d = SSI THEN Calling \cup ({s} \cap Tcb) ELSE Calling)
                      \ (IF Expects(d, s) THEN {d} ELSE {}),
         d = SSI => s \in Tcb /\ t_status[s] = T_STATUS_READY
  PROVE  MailStep
<1> USE TypeOKParts, TcbFacts DEF T_STATUS_NONE, T_STATUS_READY, T_STATUS_W4MSG
<1>1. /\ s \in {u \in Thread : Live(u)} \ {u \in Tcb : asked[u] # NULL}
      /\ {u \in Tcb : asked[u] # NULL}' = Calling'
      /\ Calling = {u \in Tcb : asked[u] # NULL}
  BY DEF Calling, Live
<1>2. CASE Expects(d, s) /\ resume_thread(d) /\ UNCHANGED msgvars
  <2>1. /\ t_status'[d] = T_STATUS_READY /\ t_wait4sender'[d] = NULL
        /\ \A u \in Thread : u # d => t_status'[u] = t_status[u]
                                      /\ t_wait4sender'[u] = t_wait4sender[u]
        /\ t_status[d] = T_STATUS_W4MSG /\ t_wait4sender[d] \in {s, NULL}
        /\ t_msgq' = t_msgq
    BY <1>2 DEF resume_thread, Expects, ThreadTypes, msgvars
  <2>2. Mail!Handover(s, d)
    <3>1. d \in {u \in Thread : t_status[u] = T_STATUS_W4MSG}
      BY <2>1
    <3>2. Mail!WaitsFor(d, s)
      BY <2>1, <3>1 DEF Mail!WaitsFor
    <3>3. Mail!From(d, t_wait4sender[d]) = {}
      BY <2>1 DEF NoLostWakeup, Matching, Mail!From
    <3>4. {u \in Thread : t_status[u] = T_STATUS_W4MSG}'
            = {u \in Thread : t_status[u] = T_STATUS_W4MSG} \ {d}
      BY <2>1
    <3>5. t_wait4sender' = [t_wait4sender EXCEPT ![d] = NULL]
      BY <1>2 DEF resume_thread
    <3>6. {u \in Thread : Live(u)}' = {u \in Thread : Live(u)}
      BY <2>1 DEF Live
    <3>7. Calling' = Mail!Calls(s, d) \ {d}
      BY <1>1, <1>2 DEF Mail!Calls
    <3> QED
      BY <1>1, <2>1, <3>2, <3>3, <3>4, <3>5, <3>6, <3>7
         DEF Mail!Handover, Mail!Release, Closing
  <2> QED BY <2>2 DEF MailStep, Mail!Next
<1>3. CASE /\ ~Expects(d, s) /\ ~send_fails(d, s) /\ msgq_add(s, d, value)
           /\ UNCHANGED <<links, threadvars>>
  <2>1. UNCHANGED <<t_status, t_wait4sender>>
    BY <1>3 DEF threadvars
  <2>2. /\ t_msgq' = [t_msgq EXCEPT ![d] = Append(@, [m_sender |-> s, m_value |-> value])]
        /\ t_status[d] # T_STATUS_NONE
    BY <1>3 DEF msgq_add, send_fails
  <2>3. Mail!Send(s, d, value)
    <3>1. ~Mail!WaitsFor(d, s)
      BY <1>3 DEF Mail!WaitsFor, Expects
    <3>2. d \in {u \in Thread : Live(u)}
      BY <2>2 DEF Live
    <3>3. Calling' = Mail!Calls(s, d)
      BY <1>1, <1>3 DEF Mail!Calls
    <3> QED BY <1>1, <2>1, <2>2, <3>1, <3>2, <3>3
            DEF Mail!Send, Mail!Msg, Live, Closing
  <2> QED BY <2>3 DEF MailStep, Mail!Next
<1>4. CASE send_fails(d, s) /\ UNCHANGED <<links, threadvars, msgvars>>
  <2>1. UNCHANGED <<t_status, t_wait4sender, t_msgq>>
    BY <1>4 DEF threadvars, msgvars
  <2>2. Calling' = Calling \/ (d = SSI /\ Calling' = Calling \cup {s})
    BY <1>4 DEF Expects, send_fails, MailInv, Awaits, Live, Calling
  <2>3. CASE Calling' = Calling
    <3>1. UNCHANGED Mail!mailvars
      BY <1>1, <2>1, <2>3 DEF Mail!mailvars, Live, Closing
    <3> QED BY <3>1 DEF MailStep
  <2>4. CASE d = SSI /\ Calling' = Calling \cup {s}
    <3>1. Mail!LostCall(s)
      BY <1>1, <2>1, <2>4 DEF Mail!LostCall, Mail!Calls, Live, Closing
    <3> QED BY <3>1 DEF MailStep, Mail!Next
  <2> QED BY <2>2, <2>3, <2>4
<1> QED BY <1>2, <1>3, <1>4 DEF send

\* recv: a wait, or the first message that matches
LEMMA RecvMail ==
  ASSUME TypeOK, MailInv, NEW t \in Thread, NEW s \in Thread \cup {NULL},
         t_status[t] = T_STATUS_READY, t \in Calling => s = SSI,
         UNCHANGED victim,
         \/ recv_blocks(t, s) /\ Calling' = Calling
         \/ /\ \E i \in DOMAIN t_msgq[t] : recv_takes(t, s, i)
            /\ Calling' = Calling \ {t}
  PROVE  MailStep
<1> USE TypeOKParts, TcbFacts DEF T_STATUS_NONE, T_STATUS_READY, T_STATUS_W4MSG
<1>1. /\ t \in {u \in Thread : Live(u)}
      /\ t \notin {u \in Thread : t_status[u] = T_STATUS_W4MSG}
      /\ {u \in Tcb : asked[u] # NULL}' = Calling'
      /\ Calling = {u \in Tcb : asked[u] # NULL}
      /\ Mail!MayName(t, s)
  BY DEF Calling, Live, Mail!MayName
<1>2. CASE recv_blocks(t, s) /\ Calling' = Calling
  <2>1. /\ t_status'[t] = T_STATUS_W4MSG /\ t_wait4sender'[t] = s
        /\ \A u \in Thread : u # t => t_status'[u] = t_status[u]
                                      /\ t_wait4sender'[u] = t_wait4sender[u]
        /\ t_wait4sender' = [t_wait4sender EXCEPT ![t] = s]
        /\ t_msgq' = t_msgq /\ Matching(t, s) = {}
    BY <1>2 DEF recv_blocks, ThreadTypes, msgvars
  <2>2. Mail!Wait(t, s)
    <3>1. Mail!From(t, s) = {}
      BY <2>1 DEF Mail!From, Matching
    <3>2. {u \in Thread : t_status[u] = T_STATUS_W4MSG}'
            = {u \in Thread : t_status[u] = T_STATUS_W4MSG} \cup {t}
      BY <2>1
    <3>3. {u \in Thread : Live(u)}' = {u \in Thread : Live(u)}
      BY <1>1, <2>1 DEF Live
    <3> QED BY <1>1, <1>2, <2>1, <3>1, <3>2, <3>3 DEF Mail!Wait, Closing
  <2> QED BY <2>2 DEF MailStep, Mail!Next
<1>3. ASSUME NEW i \in DOMAIN t_msgq[t], recv_takes(t, s, i), Calling' = Calling \ {t}
      PROVE  MailStep
  <2>1. /\ UNCHANGED <<t_status, t_wait4sender>>
        /\ t_msgq' = [t_msgq EXCEPT ![t] = RemoveAt(t_msgq[t], i)]
        /\ i \in Matching(t, s) /\ \A j \in Matching(t, s) : i <= j
    BY <1>3 DEF recv_takes, threadvars, msg_free, IsFirstMatch
  <2>2. Mail!Receive(t, s, i)
    <3>1. Mail!From(t, s) = Matching(t, s)
      BY DEF Mail!From, Matching
    <3> QED BY <1>1, <1>3, <2>1, <3>1
            DEF Mail!Receive, RemoveAt, Mail!RemoveAt, Live, Closing
  <2> QED BY <2>2 DEF MailStep, Mail!Next
<1> QED BY <1>2, <1>3

\* the messages of a victim are freed, and one it has sent may be taken back
LEMMA CloseMail ==
  ASSUME TypeOK, NEW t \in Thread, NEW q, victim = NULL, StartTerminating(t, q),
         q = t_msgq \/ q = clean_sys_msg(t),
         UNCHANGED <<t_status, t_wait4sender, asked>>
  PROVE  MailStep
<1> USE TypeOKParts, TcbFacts
<1>1. /\ Closing = {} /\ Closing' = {t}
      /\ t_msgq' = [q EXCEPT ![t] = <<>>] /\ DOMAIN t_msgq = Thread
  BY DEF Closing, StartTerminating, MsgTypes
<1>2. ASSUME q # t_msgq
      PROVE  \E d \in Thread : \E i \in Mail!From(d, t) :
               q = [t_msgq EXCEPT ![d] = RemoveAt(@, i)]
  <2> DEFINE d == clean_sys_msg_queue(t)
             i == CHOOSE j \in DOMAIN t_msgq[d] : IsFirstMatch(j, d, t)
  <2>1. /\ Matching(d, t) # {}
        /\ q = [t_msgq EXCEPT ![d] = RemoveAt(@, i)]
    BY <1>2 DEF clean_sys_msg
  <2> HIDE DEF d
  <2>2. d \in Thread
    <3> SUFFICES ASSUME d \notin Thread PROVE q = t_msgq
      BY <1>2
    <3>1. t_msgq \in [Thread -> Seq(Message)]
      BY DEF MsgTypes
    <3>2. \A e : [t_msgq EXCEPT ![d] = e] = t_msgq
      BY <3>1
    <3> QED BY <2>1, <3>2
  <2>3. i \in Matching(d, t)
    BY <2>1, <2>2, FirstMatchExists DEF IsFirstMatch
  <2>4. Mail!From(d, t) = Matching(d, t)
    BY DEF Mail!From, Matching
  <2> HIDE DEF i
  <2> QED BY <2>1, <2>2, <2>3, <2>4
<1>3. Mail!Close(t)
  <2>1. CASE q = t_msgq
    BY <1>1, <2>1 DEF Mail!Close, Live
  <2>2. ASSUME NEW d \in Thread, NEW i \in Mail!From(d, t),
               q = [t_msgq EXCEPT ![d] = RemoveAt(@, i)]
        PROVE  Mail!Close(t)
    <3>1. t_msgq' = [t_msgq EXCEPT ![d] = Mail!RemoveAt(@, i), ![t] = <<>>]
      BY <1>1, <2>2 DEF RemoveAt, Mail!RemoveAt
    <3> QED BY <1>1, <2>2, <3>1 DEF Mail!Close, Live
  <2> QED BY <1>2, <2>1, <2>2
<1> QED BY <1>3 DEF MailStep, Mail!Next

\* The actions of the kernel.

\* thread_alloc hands out a descriptor of a thread that is not there
LEMMA FreshThread ==
  ASSUME TInv, FreeListOK, MailInv, NEW process,
         ~thread_alloc_fails(process), thread_alloc(process)
  PROVE  \E new \in Tcb : /\ new = Head(thread_h) /\ ~Live(new) /\ new \notin Calling
                          /\ t_status' = [t_status EXCEPT ![new] = T_STATUS_READY]
                          /\ UNCHANGED t_wait4sender
<1>1. thread_h \in Seq(Tcb) /\ thread_h # <<>>
  BY TypeOKParts DEF TInv, ListTypes, thread_alloc_fails
<1>2. 1 \in DOMAIN thread_h /\ Head(thread_h) = thread_h[1] /\ thread_h[1] \in Tcb
  BY <1>1
<1>3. ~Live(Head(thread_h))
  BY <1>2 DEF FreeListOK
<1> QED BY <1>2, <1>3 DEF thread_alloc, Calling, MailInv, Awaits

\* load_readyq gives birth to the SSI and to the first threads
LEMMA BootMail ==
  ASSUME TInv, FreeListOK, MailInv, Boot, UNCHANGED termvars
  PROVE  MailStep
<1> USE TypeOKParts, TcbFacts DEF TInv
<1>1. CASE LoadSSI
  <2>1. SSI \notin Calling /\ ~Live(SSI)
    BY <1>1 DEF Calling, LoadSSI, ControlOK
  <2> QED BY <1>1, <2>1, BornMail DEF LoadSSI, msgvars, runvars, termvars, Calling
<1>2. CASE LoadThread
  <2>1. PICK new \in Tcb : /\ ~Live(new) /\ new \notin Calling
                           /\ t_status' = [t_status EXCEPT ![new] = T_STATUS_READY]
                           /\ UNCHANGED t_wait4sender
    BY <1>2, FreshThread DEF LoadThread
  <2> QED BY <1>2, <2>1, BornMail DEF LoadThread, msgvars, termvars, Calling
<1> QED BY <1>1, <1>2 DEF Boot

\* acknowledge sends in the name of the SSI, which is there and in no call
LEMMA AcknowledgeMail ==
  ASSUME TInv, NoLostWakeup, MailInv, acknowledge, UNCHANGED termvars
  PROVE  MailStep
<1> USE TypeOKParts, TcbFacts DEF TInv
<1> DEFINE d == soft_blocked_thread
<1>1. /\ d \in Tcb /\ [reply |-> "DO_IO"] \in Payload
      /\ Live(SSI) /\ SSI \notin Calling
  BY DEF acknowledge, ControlOK, IOTypes, InterruptsEnabled, MailInv, SsiLive,
         Payload, Reply, Calling
<1>2. Calling' = Calling \ (IF Expects(d, SSI) THEN {d} ELSE {})
  BY <1>1 DEF acknowledge, send_fails, Expects, StubReturns, Calling, RunTypes,
              T_STATUS_NONE, T_STATUS_W4MSG
<1>3. send(d, SSI, [reply |-> "DO_IO"]) /\ UNCHANGED victim
  BY DEF acknowledge, termvars
<1> HIDE DEF d
<1> QED BY <1>1, <1>2, <1>3, SendMail

\* the running program sends, receives or makes a call
LEMMA ProgramMail ==
  ASSUME TInv, NoLostWakeup, CurrentReady, MailInv, UNCHANGED termvars,
         NEW t \in Tcb, Program(t)
  PROVE  MailStep
<1> USE TypeOKParts, TcbFacts DEF TInv
<1>1. /\ t_status[t] = T_STATUS_READY /\ t \in Thread /\ Live(t)
      /\ kpc = "thread" /\ UNCHANGED victim
  BY DEF Program, Send, Recv, Ask, AwaitReply, Running, CurrentReady, termvars,
         Live, T_STATUS_READY, T_STATUS_NONE
<1>2. ASSUME NEW dest \in Tcb, NEW value \in Values, Send(t, dest, value)
      PROVE  MailStep
  <2>1. value \in Payload /\ t \notin Calling /\ dest # SSI /\ dest \in Thread
    BY <1>2 DEF Payload, Send, Calling
  <2>2. Calling' = Calling /\ (Expects(dest, t) => dest \notin Calling)
    BY <1>2 DEF Send, Calling, MailInv, Awaits, Expects
  <2>3. send(dest, t, value)
    BY <1>2 DEF Send
  <2> QED BY <1>1, <2>1, <2>2, <2>3, SendMail
<1>3. ASSUME NEW sender \in Tcb \cup {NULL}, Recv(t, sender)
      PROVE  MailStep
  <2>1. t \notin Calling /\ Calling' = Calling
    BY <1>3 DEF Recv, Calling
  <2>2. \/ recv_blocks(t, sender)
        \/ \E i \in DOMAIN t_msgq[t] : recv_takes(t, sender, i)
    BY <1>3 DEF Recv
  <2> QED BY <1>1, <2>1, <2>2, RecvMail
<1>4. ASSUME NEW req \in Request, Ask(t, req)
      PROVE  MailStep
  <2>1. req \in Payload /\ t \notin Calling /\ req # NULL
    BY <1>4, RequestAssumption DEF Payload, Ask, Calling
  <2>2. Calling' = Calling \cup {t} /\ SSI \notin Calling
    BY <1>4, <2>1 DEF Ask, Calling, RunTypes
  <2>3. send(SSI, t, req)
    BY <1>4 DEF Ask
  <2> QED BY <1>1, <2>1, <2>2, <2>3, SendMail
<1>5. CASE AwaitReply(t)
  <2>1. CASE recv_blocks(t, SSI) /\ UNCHANGED asked
    BY <1>1, <2>1, RecvMail DEF Calling
  <2>2. ASSUME NEW i \in DOMAIN t_msgq[t], recv_takes(t, SSI, i),
               asked' = [asked EXCEPT ![t] = NULL]
        PROVE  MailStep
    <3>1. Calling' = Calling \ {t}
      BY <2>2 DEF Calling, RunTypes
    <3> QED BY <1>1, <2>2, <3>1, RecvMail
  <2> QED BY <1>5, <2>1, <2>2 DEF AwaitReply
<1> QED BY <1>2, <1>3, <1>4, <1>5 DEF Program

\* the SSI receives a request or answers one
LEMMA SsiMail ==
  ASSUME TInv, NoLostWakeup, CurrentReady, MailInv, SsiReceive \/ SsiReply
  PROVE  MailStep
<1> USE TypeOKParts, TcbFacts DEF TInv
<1>1. /\ t_status[SSI] = T_STATUS_READY /\ Live(SSI) /\ SSI \notin Calling
      /\ kpc = "thread" /\ UNCHANGED victim
  BY DEF SsiReceive, SsiReply, Running, CurrentReady, termvars, Calling,
         Live, T_STATUS_READY, T_STATUS_NONE
<1>2. CASE SsiReceive
  <2>1. Calling' = Calling /\ Calling = Calling \ {SSI}
    BY <1>1, <1>2 DEF SsiReceive, Calling
  <2>2. \/ recv_blocks(SSI, NULL)
        \/ \E i \in DOMAIN t_msgq[SSI] : recv_takes(SSI, NULL, i)
    BY <1>2 DEF SsiReceive
  <2> QED BY <1>1, <2>1, <2>2, RecvMail
<1>3. CASE SsiReply
  <2> DEFINE value == [reply |-> request.tag]
  <2>1. applicant \in Tcb /\ request.tag \in Requests
    BY <1>3, ServedFacts, RequestFacts DEF SsiReply
  <2>2. value \in Payload
    BY <2>1 DEF Payload, Reply
  <2>3. Calling' = Calling \ (IF Expects(applicant, SSI) THEN {applicant} ELSE {})
    BY <1>3, <2>1 DEF SsiReply, StubReturns, Calling, RunTypes
  <2>4. send(applicant, SSI, value)
    BY <1>3 DEF SsiReply
  <2> HIDE DEF value
  <2> QED BY <1>1, <2>1, <2>2, <2>3, <2>4, SendMail
<1> QED BY <1>2, <1>3

\* the creating services give birth to a thread, or change no mailbox
LEMMA CreateMail ==
  ASSUME TInv, FreeListOK, MailInv, create_thread_s \/ create_process_s
  PROVE  MailStep
<1> USE TypeOKParts, TcbFacts DEF TInv
<1>1. UNCHANGED <<t_msgq, victim>>
  BY DEF create_thread_s, create_process_s, msgvars, termvars
<1>2. ASSUME NEW process, ~thread_alloc_fails(process), __create_thread_s(process)
      PROVE  MailStep
  <2>1. PICK new \in Tcb : /\ ~Live(new) /\ new \notin Calling
                           /\ t_status' = [t_status EXCEPT ![new] = T_STATUS_READY]
                           /\ UNCHANGED t_wait4sender
    BY <1>2, FreshThread DEF __create_thread_s
  <2>2. Calling' = Calling
    BY <1>2, FreshThread DEF __create_thread_s, Calling, RunTypes
  <2> QED BY <1>1, <2>1, <2>2, BornMail
<1>3. CASE UNCHANGED <<threadvars, asked>>
  BY <1>1, <1>3, QuietMail DEF threadvars
<1> QED BY <1>2, <1>3 DEF create_thread_s, create_process_s

\* a termination begins with the only thread of no process, or in the tree,
\* where it changes no mailbox yet; or a manager is registered
LEMMA BeginMail ==
  ASSUME TInv, TreeInv, ServeTerminateProcess \/ terminate_thread_s \/ __setmgr
  PROVE  MailStep
<1> USE TypeOKParts, TcbFacts DEF TInv
<1>1. Running(SSI) /\ ssi_pc = "serve"
  BY DEF ServeTerminateProcess, terminate_thread_s, __setmgr, Serving
<1>2. PICK t \in Tcb : t = applicant
  BY <1>1, ServedFacts
<1>3. victim = NULL
  BY <1>1 DEF TreeInv, TermShape
<1>4. CASE (terminate_process_s \/ WildAccess) /\ UNCHANGED asked
  BY <1>3, <1>4, QuietMail
     DEF terminate_process_s, WildAccess, mikabooqvars, threadvars, msgvars, termvars
<1>5. CASE __setmgr
  BY <1>4, <1>5, QuietMail
     DEF __setmgr, mikabooqvars, threadvars, msgvars, termvars
<1>6. CASE terminate_thread_s
  BY <1>2, <1>3, <1>4, <1>6, CloseMail DEF terminate_thread_s, threadvars
<1>7. CASE ServeTerminateProcess
  BY <1>4, <1>7 DEF ServeTerminateProcess
<1> QED BY <1>5, <1>6, <1>7

\* __terminate_process_s closes the first thread of the process
LEMMA PickMail ==
  ASSUME TInv, PickThread
  PROVE  MailStep
<1> USE TypeOKParts, TcbFacts DEF TInv
<1>1. PICK q : /\ StartTerminating(Head(p_threads[dying_proc]), q)
               /\ q = t_msgq \/ q = clean_sys_msg(Head(p_threads[dying_proc]))
  BY DEF PickThread
<1>2. Head(p_threads[dying_proc]) \in Thread
  <2>1. dying_proc \in Proc /\ p_threads[dying_proc] # <<>>
    BY FrontLastElements DEF PickThread, dying_proc, TermTypes
  <2>2. p_threads[dying_proc] \in Seq(Tcb)
    BY <2>1 DEF ListTypes
  <2> QED BY <2>1, <2>2
<1>3. victim = NULL /\ UNCHANGED <<t_status, t_wait4sender, asked>>
  BY DEF PickThread, threadvars
<1> QED BY <1>1, <1>2, <1>3, CloseMail

\* who waits for the victim is released
LEMMA AbortMail ==
  ASSUME TInv, NEW P, LinkedWith(P), ResumeWaiter
  PROVE  MailStep
<1> USE TypeOKParts, TcbFacts DEF TInv
<1>1. PICK x \in Tcb : /\ thread_qhead(links, t_wait4me(victim)) = t_sched(x)
                       /\ resume_thread(x)
  BY DEF ResumeWaiter
<1>2. victim \in Tcb
  BY DEF ResumeWaiter, TermTypes
<1>4. t_status[x] = T_STATUS_W4MSG /\ t_wait4sender[x] = victim
  BY <1>1, <1>2, WaiterIsBlocked
<1>5. /\ t_status' = [t_status EXCEPT ![x] = T_STATUS_READY]
      /\ t_wait4sender' = [t_wait4sender EXCEPT ![x] = NULL]
      /\ UNCHANGED <<t_msgq, asked, victim>>
  BY <1>1 DEF ResumeWaiter, resume_thread, msgvars, termvars
<1>6. {u \in Thread : t_status[u] = T_STATUS_W4MSG}'
        = {u \in Thread : t_status[u] = T_STATUS_W4MSG} \ {x}
  BY <1>5 DEF ThreadTypes, T_STATUS_READY, T_STATUS_W4MSG
<1>7. {u \in Thread : Live(u)}' = {u \in Thread : Live(u)}
  BY <1>4, <1>5 DEF Live, ThreadTypes, T_STATUS_NONE, T_STATUS_READY, T_STATUS_W4MSG
<1>8. Mail!Abort(x)
  BY <1>2, <1>4, <1>5, <1>6, <1>7 DEF Mail!Abort, Mail!Release, Closing
<1> QED BY <1>8 DEF MailStep, Mail!Next

\* the victim dies, was alive, and is waited for by nobody
LEMMA DieMail ==
  ASSUME TInv, NEW P, LinkedWith(P), FreeVictim, ~stale'
  PROVE  MailStep
<1> USE TypeOKParts, TcbFacts DEF TInv
<1>1. PICK v \in Tcb : v = victim
  BY DEF FreeVictim, TermTypes
<1>2. /\ t_msgq[v] = <<>> /\ list_empty(links, t_wait4me(v))
      /\ t_status' = [t_status EXCEPT ![v] = T_STATUS_NONE]
      /\ t_wait4sender' = [t_wait4sender EXCEPT ![v] = NULL]
      /\ asked' = [asked EXCEPT ![v] = NULL] /\ victim' = NULL
      /\ UNCHANGED t_msgq
  BY <1>1 DEF FreeVictim, thread_free, thread_free_ok, msgvars
<1>3. Live(v)
  BY <1>1 DEF FreeVictim, Live
<1>4. ASSUME NEW u \in Thread, t_status[u] = T_STATUS_W4MSG PROVE t_wait4sender[u] # v
  BY <1>2, <1>4, NobodyWaits
<1>5. /\ Closing = {v} /\ Closing' = {}
      /\ {u \in Tcb : asked[u] # NULL}' = {u \in Tcb : asked[u] # NULL} \ {v}
  BY <1>1, <1>2 DEF Closing, RunTypes
<1>6. /\ {u \in Thread : Live(u)}' = {u \in Thread : Live(u)} \ {v}
      /\ {u \in Thread : t_status[u] = T_STATUS_W4MSG}'
           = {u \in Thread : t_status[u] = T_STATUS_W4MSG} \ {v}
  BY <1>2 DEF Live, ThreadTypes, T_STATUS_NONE, T_STATUS_W4MSG
<1>7. Mail!Die(v)
  BY <1>2, <1>3, <1>4, <1>5, <1>6 DEF Mail!Die, Mail!Release
<1> QED BY <1>7 DEF MailStep, Mail!Next

\* The calls: who is inside a stub stays alive and waits for the SSI.

\* a call that goes on or ends, of a thread that is let alone or made ready
LEMMA StillAwaits ==
  ASSUME NEW t \in Tcb, Awaits(t), asked'[t] \in {asked[t], NULL},
         \/ t_status'[t] = T_STATUS_READY
         \/ t_status'[t] = t_status[t] /\ t_wait4sender'[t] = t_wait4sender[t]
  PROVE  Awaits(t)'
BY DEF Awaits, Live, T_STATUS_NONE, T_STATUS_READY, T_STATUS_W4MSG

\* send lets every thread alone but the one it makes ready
LEMMA SendAwaits ==
  ASSUME TypeOK, NEW s, NEW d, NEW value, send(d, s, value), NEW t \in Tcb
  PROVE  \/ t_status'[t] = T_STATUS_READY
         \/ t_status'[t] = t_status[t] /\ t_wait4sender'[t] = t_wait4sender[t]
<1> USE TypeOKParts, TcbFacts
<1>1. CASE Expects(d, s) /\ resume_thread(d)
  BY <1>1 DEF resume_thread, ThreadTypes
<1>2. CASE UNCHANGED threadvars
  BY <1>2 DEF threadvars
<1> QED BY <1>1, <1>2 DEF send

\* a program waits outside a stub, or inside it for the SSI, or makes a call
LEMMA ProgramAwaits ==
  ASSUME TInv, CurrentReady, NEW u \in Tcb, Program(u), NEW t \in Tcb, Awaits(t)
  PROVE  Awaits(t)'
<1> USE TypeOKParts, TcbFacts DEF TInv
<1>0. t \in Thread /\ u \in Thread /\ t # SSI /\ u # SSI
  OBVIOUS
<1>1. t_status[u] = T_STATUS_READY
  BY DEF Program, Send, Recv, Ask, AwaitReply, Running, CurrentReady
<1>2. ASSUME NEW dest \in Tcb, NEW value \in Values, Send(u, dest, value)
      PROVE  Awaits(t)'
  BY <1>2, StillAwaits, SendAwaits DEF Send
<1>3. ASSUME NEW sender \in Tcb \cup {NULL}, Recv(u, sender)
      PROVE  Awaits(t)'
  <2>1. CASE t = u
    BY <1>3, <2>1 DEF Recv, Awaits
  <2>2. CASE t # u
    <3>1. t_status'[t] = t_status[t] /\ t_wait4sender'[t] = t_wait4sender[t]
      BY <1>0, <1>3, <2>2 DEF Recv, recv_blocks, recv_takes, ThreadTypes, threadvars
    <3> QED BY <1>3, <3>1, StillAwaits DEF Recv
  <2> QED BY <2>1, <2>2
<1>4. ASSUME NEW req \in Request, Ask(u, req)
      PROVE  Awaits(t)'
  <2>1. send(SSI, u, req) /\ asked' = [asked EXCEPT ![u] = req]
    BY <1>4 DEF Ask
  <2>2. t_status'[t] = t_status[t] /\ t_wait4sender'[t] = t_wait4sender[t]
    BY <1>0, <2>1 DEF send, resume_thread, threadvars, ThreadTypes
  <2>3. CASE t = u
    BY <1>1, <2>2, <2>3 DEF Awaits, Live, T_STATUS_NONE, T_STATUS_READY, T_STATUS_W4MSG
  <2>4. CASE t # u
    BY <2>1, <2>2, <2>4, StillAwaits DEF RunTypes
  <2> QED BY <2>3, <2>4
<1>5. CASE AwaitReply(u)
  <2>1. asked'[t] \in {asked[t], NULL}
    BY <1>5 DEF AwaitReply, RunTypes
  <2>2. CASE recv_blocks(u, SSI)
    <3>1. t_status' = [t_status EXCEPT ![u] = T_STATUS_W4MSG]
          /\ t_wait4sender' = [t_wait4sender EXCEPT ![u] = SSI]
      BY <2>2 DEF recv_blocks
    <3>2. CASE t = u
      BY <1>0, <2>1, <3>1, <3>2 DEF Awaits, Live, ThreadTypes, T_STATUS_NONE, T_STATUS_W4MSG
    <3>3. CASE t # u
      BY <1>0, <2>1, <3>1, <3>3, StillAwaits DEF ThreadTypes
    <3> QED BY <3>2, <3>3
  <2>3. CASE UNCHANGED threadvars
    BY <2>1, <2>3, StillAwaits DEF threadvars
  <2> QED BY <1>5, <2>2, <2>3 DEF AwaitReply, recv_takes
<1> QED BY <1>2, <1>3, <1>4, <1>5 DEF Program

LEMMA AwaitsStep ==
  ASSUME TInv, CurrentReady, \A t \in Tcb : Awaits(t), [Next]_vars
  PROVE  \A t \in Tcb : Awaits(t)'
<1> USE TypeOKParts, TcbFacts DEF TInv
<1> SUFFICES ASSUME NEW t \in Tcb PROVE Awaits(t)'
  OBVIOUS
<1>0. Awaits(t) /\ t \in Thread /\ t # SSI
  OBVIOUS
<1>1. CASE UNCHANGED <<threadvars, asked>>
  BY <1>0, <1>1, StillAwaits DEF threadvars
<1>2. CASE LoadSSI
  BY <1>0, <1>2, StillAwaits DEF LoadSSI, ThreadTypes
<1>3. CASE LoadThread
  BY <1>0, <1>3, StillAwaits DEF LoadThread, thread_alloc, ThreadTypes
<1>4. ASSUME NEW process, __create_thread_s(process) PROVE Awaits(t)'
  <2>1. asked'[t] \in {asked[t], NULL}
    BY <1>4 DEF __create_thread_s, RunTypes
  <2>2. \/ t_status'[t] = T_STATUS_READY
        \/ t_status'[t] = t_status[t] /\ t_wait4sender'[t] = t_wait4sender[t]
    BY <1>4 DEF __create_thread_s, thread_alloc, ThreadTypes
  <2> QED BY <1>0, <2>1, <2>2, StillAwaits
<1>5. CASE acknowledge
  <2>1. asked'[t] \in {asked[t], NULL}
    BY <1>5 DEF acknowledge, StubReturns, RunTypes
  <2> QED BY <1>0, <1>5, <2>1, StillAwaits, SendAwaits DEF acknowledge
<1>6. CASE SsiReply
  <2>1. asked'[t] \in {asked[t], NULL}
    BY <1>6 DEF SsiReply, StubReturns, RunTypes
  <2> QED BY <1>0, <1>6, <2>1, StillAwaits, SendAwaits DEF SsiReply
<1>7. CASE SsiReceive
  <2>1. t_status'[t] = t_status[t] /\ t_wait4sender'[t] = t_wait4sender[t]
    BY <1>0, <1>7 DEF SsiReceive, recv_blocks, recv_takes, ThreadTypes, threadvars
  <2> QED BY <1>0, <1>7, <2>1, StillAwaits DEF SsiReceive
<1>8. ASSUME NEW u \in Tcb, Program(u) PROVE Awaits(t)'
  BY <1>0, <1>8, ProgramAwaits
<1>9. CASE ResumeWaiter
  BY <1>0, <1>9, StillAwaits DEF ResumeWaiter, resume_thread, ThreadTypes
<1>10. CASE FreeVictim
  <2>1. CASE t = victim
    BY <1>10, <2>1 DEF FreeVictim, Awaits, RunTypes
  <2>2. CASE t # victim
    BY <1>0, <1>10, <2>2, StillAwaits DEF FreeVictim, thread_free, ThreadTypes, RunTypes
  <2> QED BY <2>1, <2>2
<1>11. CASE create_thread_s \/ create_process_s
  BY <1>1, <1>4, <1>11 DEF create_thread_s, create_process_s
<1>12. CASE Scheduler \/ interval_timer_h \/ TerminalDone \/ Stopped \/ UNCHANGED vars
  BY <1>1, <1>12 DEF Scheduler, Dispatch, empty_readyq_h, interval_timer_h, TerminalDone,
     Stopped, vars, nucleusvars, mikabooqvars
<1>13. CASE ServeGet \/ do_io_s \/ PickThread \/ PickChild \/ DeleteProcess
  BY <1>1, <1>13 DEF ServeGet, do_io_s, PickThread, PickChild, DeleteProcess, mikabooqvars
<1>14. CASE ServeTerminateProcess \/ terminate_thread_s \/ __setmgr
  BY <1>1, <1>14 DEF ServeTerminateProcess, terminate_thread_s, __setmgr,
     terminate_process_s, WildAccess, mikabooqvars
<1> QED
  BY <1>2, <1>3, <1>5, <1>6, <1>7, <1>8, <1>9, <1>10, <1>11, <1>12, <1>13, <1>14
     DEF Next, Boot, Interrupt, Service

\* every step of the kernel
LEMMA MailboxStep ==
  ASSUME NEW P, KernelInv(P), [Next]_vars, ~stale'
  PROVE  MailStep
<1>1. /\ TInv /\ LinkedWith(P) /\ FreeListOK /\ CurrentReady
      /\ NoLostWakeup /\ TreeInv /\ MailInv
  BY DEF KernelInv, LinkedWith
<1>2. CASE UNCHANGED vars \/ Stopped
  BY <1>2, QuietMail DEF Stopped, vars, nucleusvars, mikabooqvars, threadvars,
     msgvars, runvars, termvars
<1>3. CASE (Boot \/ acknowledge) /\ UNCHANGED termvars
  BY <1>1, <1>3, BootMail, AcknowledgeMail
<1>4. CASE (Scheduler \/ interval_timer_h \/ TerminalDone) /\ UNCHANGED termvars
  BY <1>4, QuietMail DEF Scheduler, Dispatch, empty_readyq_h, interval_timer_h,
     TerminalDone, mikabooqvars, threadvars, msgvars, termvars
<1>5. CASE (\E t \in Tcb : Program(t)) /\ UNCHANGED termvars
  BY <1>1, <1>5, ProgramMail
<1>6. CASE SsiReceive \/ SsiReply \/ create_thread_s \/ create_process_s
  BY <1>1, <1>6, SsiMail, CreateMail
<1>7. CASE ServeGet \/ do_io_s \/ PickChild \/ DeleteProcess
  BY <1>7, QuietMail DEF ServeGet, do_io_s, PickChild, DeleteProcess, mikabooqvars,
     threadvars, msgvars, termvars
<1>8. CASE ServeTerminateProcess \/ terminate_thread_s \/ __setmgr
  BY <1>1, <1>8, BeginMail
<1>9. CASE PickThread \/ ResumeWaiter \/ FreeVictim
  BY <1>1, <1>9, PickMail, AbortMail, DieMail
<1> QED
  BY <1>2, <1>3, <1>4, <1>5, <1>6, <1>7, <1>8, <1>9 DEF Next, Interrupt, Service

\* the kernel starts with nobody there
LEMMA MailboxInit == Init => Mail!Init
  BY TcbFacts DEF Init, InitServices, InitNucleus, InitMikabooq, thread_init,
     Mail!Init, Live, Closing, T_STATUS_NONE, T_STATUS_W4MSG

AllAwait == \A t \in Tcb : Awaits(t)

\* in every system, until a free descriptor is freed again
LEMMA InvariantAwaits == Spec => [](stale \/ AllAwait)
<1>1. /\ TInv /\ LinkedUntilStale /\ (stale \/ AllAwait) /\ [Next]_vars
      => (stale \/ AllAwait)'
  <2> SUFFICES ASSUME TInv, LinkedUntilStale, stale \/ AllAwait, [Next]_vars, ~stale'
               PROVE  AllAwait'
    OBVIOUS
  <2>1. Linked /\ AllAwait
    BY StaleStays DEF LinkedUntilStale
  <2>2. CurrentReady
    BY <2>1, NobodyParked DEF LinkedWith
  <2> QED BY <2>1, <2>2, AwaitsStep DEF AllAwait
<1>2. Init => AllAwait
  BY TcbFacts DEF Init, InitServices, InitNucleus, AllAwait, Awaits
<1> QED BY <1>1, <1>2, InvariantTInv, ListsSoundUntilStale, PTL DEF Spec

(* Until a free descriptor is freed again the kernel implements the mailboxes *)
(* whatever its programs ask for and whenever they are preempted, a thread    *)
(* killed between its request and the answer included: send and recv of       *)
(* syscall.c, the stubs of nucleus.h, ssi() and acknowledge deliver every     *)
(* message once and in the order of each sender, direct delivery overtakes    *)
(* none, a recycled descriptor inherits no message and no call, and who waits *)
(* for a victim is released before it dies (__terminate_thread_s).            *)
THEOREM KernelImplementsMailboxUntilStale == Spec => MailboxUntilStale
<1>1. /\ TInv /\ LinkedUntilStale /\ NoLostWakeup /\ TreeInv /\ SsiLive
      /\ MessagesConserved /\ (stale \/ AllAwait) /\ [Next]_vars
      => [stale' \/ Mail!Next]_(Mail!mailvars)
  <2> SUFFICES ASSUME TInv, LinkedUntilStale, NoLostWakeup, TreeInv, SsiLive,
                      MessagesConserved, stale \/ AllAwait, [Next]_vars, ~stale'
               PROVE  MailStep
    BY DEF MailStep
  <2>1. Linked /\ AllAwait
    BY StaleStays DEF LinkedUntilStale
  <2>2. LinkedWith({})
    BY <2>1, NobodyParked
  <2>3. MailInv
    BY <2>1 DEF MailInv, AllAwait, MessagesConserved, DeadHoldNothing
  <2> QED BY <2>2, <2>3, MailboxStep DEF KernelInv
<1> QED
  BY <1>1, MailboxInit, InvariantTInv, ListsSoundUntilStale, NoWakeupIsLost, InvariantTree,
     SsiNeverDies, MessagesAreConserved, InvariantAwaits, PTL DEF Spec, MailboxUntilStale
=============================================================================
