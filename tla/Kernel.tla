------------------------------- MODULE Kernel -------------------------------
(***************************************************************************)
(* The kernel: the nucleus and the system service thread.                  *)
(***************************************************************************)
EXTENDS Services

vars == <<nucleusvars, termvars>>

\* main() boots; HALT and PANIC end everything
Init == InitServices

Stopped == Halted /\ UNCHANGED vars

Next ==
  \/ (Boot \/ Scheduler \/ Interrupt) /\ UNCHANGED termvars
  \/ (\E t \in Tcb : Program(t)) /\ UNCHANGED termvars
  \/ Service
  \/ Stopped

Spec == Init /\ [][Next]_vars

(***************************************************************************)
(* Fairness.  The kernel's own steps are taken as soon as they can be: a    *)
(* handler, the scheduler and the SSI run with the interrupts disabled.     *)
(* The timer runs whenever a program or the idle processor does.  The       *)
(* terminal completes its commands, and its interrupt, which stays pending, *)
(* is taken although handlers and the SSI disable interrupts again and      *)
(* again.  Dispatch gives a thread a whole time slice, so a thread that is  *)
(* inside a stub of nucleus.h and is dispatched again and again gets from   *)
(* its first system call to its second one.                                 *)
(* Nothing is assumed of what programs do between their system calls.       *)
(***************************************************************************)
Fairness ==
  /\ WF_vars((Boot \/ Scheduler) /\ UNCHANGED termvars)
  /\ WF_vars(Service)
  /\ WF_vars(interval_timer_h /\ UNCHANGED termvars)
  /\ SF_vars(TerminalDone /\ UNCHANGED termvars)
  /\ SF_vars(acknowledge /\ UNCHANGED termvars)
  /\ \A t \in Tcb : SF_vars(AwaitReply(t) /\ UNCHANGED termvars)

FairSpec == Spec /\ Fairness

-----------------------------------------------------------------------------
TypeOK == TypeOKServices

Live(t) == t_status[t] # T_STATUS_NONE

\* between the LDST that loads a thread and the handler that enqueues it, the
\* thread is on no scheduling list
OnCpu(t) == current_thread = t /\ kpc # "scheduler"

\* the list each cell should be on
SchedQueue(t) ==
  CASE t_status[t] = T_STATUS_W4MSG ->
         IF t_wait4sender[t] = NULL THEN blockedq ELSE t_wait4me(t_wait4sender[t])
    [] t_status[t] = T_STATUS_READY /\ ~OnCpu(t) -> readyq
    [] OTHER -> NULL

Home == [c \in Cell |-> IF c \in Sentinel THEN c ELSE SchedQueue(c[2])]

\* the parts of the type invariant's strengthening that the proofs rest on:
\* where the processor is, and what it then works on
ControlOK ==
  /\ kpc = "thread" => current_thread # NULL
  /\ kpc \in {"boot", "idle"} => current_thread = NULL
  /\ kpc = "boot" => (thread_count = 0 <=> ~Live(SSI)) /\ is_idle = 0
  /\ is_idle = 1 => /\ kpc \in {"idle", "scheduler", "panic_idle", "panic_ack"}
                    /\ list_empty(links, readyq)
                    /\ ~only_the_SSI_is_left /\ soft_block_count # 0
  /\ kpc = "idle" => is_idle = 1
  /\ tty # "ready" => soft_blocked_thread # NULL /\ "DO_IO" \in Requests
  /\ ssi_pc # "recv" => ssi_msg \in RequestMessage

\* the free list holds free descriptors, each once
FreeListOK ==
  /\ \A i \in DOMAIN thread_h : ~Live(thread_h[i])
  /\ \A i, j \in DOMAIN thread_h : thread_h[i] = thread_h[j] => i = j

CurrentReady == kpc = "thread" => t_status[current_thread] = T_STATUS_READY

(* The pointers of every list invert each other and lead to threads that     *)
(* belong to it, until a free descriptor is freed again.                    *)
Linked == Rings(links, Home) /\ FreeListOK /\ CurrentReady
LinkedUntilStale == stale \/ Linked

(* Every thread is on exactly the list its state says, and every list is a  *)
(* ring through its sentinel (enqueue and outqueue of mikabooq.c, recv,     *)
(* resume_thread, scheduler and thread_free).                               *)
ListsOK == Rings(links, Home)

(* A thread blocked in recv has no pending message that its recv would have *)
(* taken: no wake-up is lost between msgq_get and send.                     *)
NoLostWakeup ==
  \A t \in Thread : t_status[t] = T_STATUS_W4MSG => Matching(t, t_wait4sender[t]) = {}

\* the places of the queues that hold a message descriptor
Queued == UNION { {t} \X DOMAIN t_msgq[t] : t \in Thread }

(* No message descriptor is leaked or freed twice, and none is held by a    *)
(* free thread descriptor (__terminate_thread_s, clean_sys_msg, msg_free).  *)
MessagesConserved ==
  /\ message_h + Cardinality(Queued) = MAXMSG
  /\ \A t \in Thread : ~Live(t) => t_msgq[t] = <<>>

(* thread_count is the number of threads active in the system, as           *)
(* scheduler.c:25 says of it: what empty_readyq_h decides to halt on.       *)
ThreadCountExact ==
  thread_count = Cardinality({t \in Thread : Live(t)})

IsListOf(s, S) == IsInjective(s) /\ ToSet(s) = S

Allocated(p) == p = root \/ p_parent[p] # NULL

(* The process tree: the lists, the parent and process pointers and the free *)
(* lists agree, no cycle closes, and no process outlives its last thread     *)
(* but while the SSI is terminating it.                                      *)
TreeOK ==
  /\ \A p \in Proc : IsListOf(p_threads[p], {t \in Tcb : t_pcb[t] = p})
  /\ IsListOf(thread_h, {t \in Tcb : t_pcb[t] = NULL})
  /\ \A t \in Tcb : Live(t) <=> t_pcb[t] # NULL
  /\ \A p \in Proc : IsListOf(p_children[p], {q \in Proc : p_parent[q] = p})
  /\ IsListOf(process_h, {q \in Proc : ~Allocated(q)})
  /\ \A S \in SUBSET (Proc \ {root}) : S # {} => \E p \in S : p_parent[p] \notin S
  /\ \A p \in Proc \ {root} :
       Allocated(p) => /\ Allocated(p_parent[p])
                       /\ p_threads[p] # <<>> \/ p \in ToSet(dying)

\* the requests of t that the SSI has yet to answer
Outstanding(t) ==
  [i \in {j \in DOMAIN t_msgq[SSI] : t_msgq[SSI][j].m_sender = t} |->
     t_msgq[SSI][i].m_value]
InService(t) == ssi_pc \in {"serve", "reply"} /\ ssi_msg.m_sender = t

(* Every request the SSI holds is the one its applicant is waiting on, and  *)
(* there is no more than one: the SSI never serves the dead.                *)
RequestIntegrity ==
  \A t \in Tcb :
    /\ \A i \in DOMAIN Outstanding(t) : Outstanding(t)[i] = asked[t]
    /\ InService(t) => request = asked[t]
    /\ Cardinality(DOMAIN Outstanding(t)) + (IF InService(t) THEN 1 ELSE 0) <= 1

(* What a stub finds in its queue from the SSI is the answer to its request. *)
RepliesMatch ==
  \A t \in Tcb :
    LET replies == {i \in DOMAIN t_msgq[t] : t_msgq[t][i].m_sender = SSI}
    IN  /\ Cardinality(replies) <= 1
        /\ \A i \in replies : /\ asked[t] # NULL
                              /\ t_msgq[t][i].m_value = [reply |-> asked[t].tag]
                              /\ DOMAIN Outstanding(t) = {} /\ ~InService(t)

(* The kernel halts only when no program is left, and declares a deadlock   *)
(* only when every thread waits for a message nobody is left to send.       *)
EndIsHonest ==
  /\ kpc = "halt" => \A t \in Tcb : ~Live(t)
  /\ kpc = "panic_deadlock" =>
       \A t \in Thread : Live(t) => t_status[t] = T_STATUS_W4MSG

(* A blocked thread becomes ready only because the thread it expects sent,   *)
(* because that thread dies, or because the terminal has answered it, as    *)
(* long as no free descriptor has been freed (send, acknowledge and the     *)
(* second loop of __terminate_thread_s).                                    *)
WokenBy(t) ==
  t_wait4sender[t] \in {current_thread, victim, NULL} \cup
     (IF tty = "done" THEN {SSI} ELSE {})
Woken(t) == t_status[t] = T_STATUS_W4MSG /\ t_status'[t] = T_STATUS_READY
WakeUps == [][\A t \in Thread : Woken(t) => stale \/ WokenBy(t)]_vars

(* The processor idles only while a thread waits for I/O (scheduler.c:107). *)
IdleAwaitsIO == kpc = "idle" => soft_blocked_thread # NULL

(* empty_readyq_h never finds the processor idle already (scheduler.c:109). *)
NotIdleTwice == ~(kpc = "scheduler" /\ is_idle = 1 /\ list_empty(links, readyq))

(* assert(rval == SEND_SUCCESS) in acknowledge: "La send che viene fatta ad  *)
(* un processo in attesa non fallisce mai" (interrupts.c:64).               *)
AckDelivered == kpc # "panic_ack"

(* A thread that dies leaves nobody waiting for it (the second loop of      *)
(* __terminate_thread_s, against thread_free).                              *)
DeathWakesAll ==
  [][\A t \in Tcb : Live(t) /\ ~Live(t)' =>
       \A u \in Thread : ~(t_status'[u] = T_STATUS_W4MSG /\ t_wait4sender'[u] = t)]_vars

(* While the terminal has a command to complete, or an interrupt to be      *)
(* acknowledged, soft_blocked_thread is the thread whose DO_IO is served,   *)
(* and that thread has no other way to be answered.                         *)
SoftBlockedOK ==
  ~Halted =>
    /\ (soft_blocked_thread # NULL) <=> (tty # "ready")
    /\ soft_blocked_thread # NULL =>
         LET t == soft_blocked_thread IN
         /\ asked[t] # NULL /\ asked[t].tag = "DO_IO"
         /\ DOMAIN Outstanding(t) = {} /\ ~InService(t)
         /\ Matching(t, SSI) = {}

(* A manager, once set, stays until its process is deleted, and a process   *)
(* starts with none (__setmgr, clean_mgr in proc_delete).                   *)
ManagersFixed ==
  [][\A p \in Proc, k \in Mgr :
       mgrs[p][k] # NULL => mgrs'[p][k] = mgrs[p][k] \/ ~Allocated(p)']_vars
FreeProcessHasNoManager ==
  \A p \in Proc : ~Allocated(p) => \A k \in Mgr : mgrs[p][k] = NULL

(* What holds of a preemptive system until the first request of a dead      *)
(* thread is served.                                                        *)
SoundUntilStale ==
  stale \/ (ListsOK /\ ThreadCountExact /\ TreeOK /\ EndIsHonest)

(* A stub of nucleus.h returns: the request reaches the SSI, is served and  *)
(* is answered, or the thread is terminated; or the kernel stops, which in   *)
(* this property includes all its panics, those of empty_readyq_h on is_idle *)
(* and of do_io_s among them (NotIdleTwice is about the first of the two).   *)
StubsReturn == \A t \in Tcb : asked[t] # NULL ~> (asked[t] = NULL \/ Halted)

(* A ready thread gets the processor, unless it is terminated or the kernel  *)
(* stops, in whatever way (thread_enqueue and scheduler).                   *)
ReadyRuns ==
  \A t \in Thread : (t_status[t] = T_STATUS_READY /\ ~OnCpu(t)) ~>
                    (OnCpu(t) \/ ~Live(t) \/ Halted)
=============================================================================
