------------------------------- MODULE Traps --------------------------------
(***************************************************************************)
(* The kernel with programs that trap: handlers/trap.c, and the system     *)
(* calls other than msgsend and msgrecv (syscall_other and the errors of   *)
(* handlers/syscall.c).                                                    *)
(*                                                                         *)
(* A process may have registered a thread as the manager of a kind of      *)
(* trap.  The handler then sends to the manager in the name of the thread  *)
(* that trapped and puts that thread on blockedq, leaving its status as it *)
(* was; with no manager the handler runs a terminating stub of nucleus.h   *)
(* in the name of the thread.  A handler's steps are separate actions      *)
(* between which nothing else is enabled (kpc = "passup" and "handler").   *)
(*                                                                         *)
(* All four exception vectors start with the same stack pointer, so that   *)
(* the system calls of a stub run by a handler overwrite that handler's    *)
(* stack, where the stub's request is.  What the SSI reads there depends   *)
(* on the frames the compiler lays out: the model leaves it open whether   *)
(* that is the request, no request (UnknownRequest) or another one         *)
(* (OtherRequest), which may be answered, so that the handler goes on.     *)
(***************************************************************************)
EXTENDS KernelMailbox

VARIABLE trapped  \* what the last trap of each thread has made of it

trapvars == <<vars, trapped>>

\* "misread": its handler's request to terminate it is read as another one
Fate == {"none", "passed_up", "dying", "misread"}

\* a recycled descriptor has not trapped
ForgetTheDead ==
  trapped' = [t \in Tcb |-> IF Live(t)' THEN trapped[t] ELSE "none"]

-----------------------------------------------------------------------------
\* The handler sends to the manager, ignoring the result, ...
PassUp(t, mgr, payload) ==
  /\ send(mgr, t, [passup |-> payload])
  /\ trapped' = [trapped EXCEPT ![t] = "passed_up"]
  /\ kpc' = "passup"
  /\ UNCHANGED <<thread_h, p_threads, procvars, current_thread, thread_count,
                 iovars, asked, ssivars, termvars>>

\* mutant of Block: the thread is left on no list
Block_unlinked ==
  /\ kpc = "passup" /\ kpc' = "scheduler"
  /\ UNCHANGED <<mikabooqvars, current_thread, thread_count, iovars, asked,
                 ssivars, termvars, trapped>>

\* ... and blocks the thread
Block ==
  /\ kpc = "passup" /\ kpc' = "scheduler"
  /\ links' = thread_enqueue(links, current_thread, blockedq)
  /\ UNCHANGED <<threadvars, msgvars, thread_h, p_threads, procvars,
                 current_thread, thread_count, iovars, asked, ssivars, termvars,
                 trapped>>

\* the handler calls terminate_process() or terminate_thread(): msgsend(SSI), ...
HandlerAsk(t, tag) ==
  LET req == [tag |-> tag, arg |-> NULL] IN
  /\ tag \in Requests
  /\ send(SSI, t, req)
  /\ SsiReturns(t, req)
  /\ asked' = [asked EXCEPT ![t] = req]
  /\ trapped' = [trapped EXCEPT ![t] = "dying"]
  /\ kpc' = "handler"
  /\ UNCHANGED <<thread_h, p_threads, procvars, current_thread, thread_count,
                 iovars, termvars>>

\* mutant of HandlerAwait: it waits for anybody
HandlerAwait_anybody ==
  /\ kpc = "handler"
  /\ recv_blocks(current_thread, NULL)
  /\ UNCHANGED <<thread_h, p_threads, procvars, thread_count, iovars, asked,
                 ssivars, termvars, trapped>>

\* ... and msgrecv(SSI), which finds nothing and saves the handler as the
\* state of the thread
HandlerAwait ==
  /\ kpc = "handler"
  /\ recv_blocks(current_thread, SSI)
  /\ UNCHANGED <<thread_h, p_threads, procvars, thread_count, iovars, asked,
                 ssivars, termvars, trapped>>

\* the SSI reads a request that later frames have overwritten: PANIC(), ...
UnknownRequest ==
  /\ Running(SSI) /\ ssi_pc = "serve" /\ trapped[applicant] = "dying"
  /\ kpc' = "panic_ssi"
  /\ UNCHANGED <<mikabooqvars, current_thread, thread_count, iovars, asked,
                 ssivars, termvars, trapped>>

\* ... or a request all the same
OtherRequest ==
  /\ Running(SSI) /\ ssi_pc = "serve" /\ trapped[applicant] = "dying"
  /\ asked[applicant] = request
  /\ \E req \in Request :
       /\ ssi_msg' = [ssi_msg EXCEPT !.m_value = req]
       /\ asked'   = [asked EXCEPT ![applicant] = req]
  /\ trapped' = [trapped EXCEPT ![applicant] = "misread"]
  /\ UNCHANGED <<mikabooqvars, runvars, thread_count, iovars, ssi_pc, termvars>>

\* the handler that this resumes, with the interrupts disabled: PANIC()
HandlerResumed == kpc = "thread" /\ \E t \in Tcb : t = current_thread /\ trapped[t] = "misread"

HandlerReturns ==
  /\ HandlerResumed /\ kpc' = "panic"
  /\ UNCHANGED <<mikabooqvars, current_thread, thread_count, iovars, asked,
                 ssivars, termvars, trapped>>

-----------------------------------------------------------------------------
Traps(t) == Running(t) /\ ~HandlerResumed /\ asked[t] = NULL /\ t_pcb[t] # NULL
mgr_for(t, kind) == mgrs[t_pcb[t]][kind]

\* pgmtrap_h, and a msgsend or msgrecv in user mode, or SYS_ERR, which
\* syscall_h turns into a program trap; tlbtrap_h
__trap_h(t, kind) ==
  /\ Traps(t)
  /\ \/ mgr_for(t, kind) # NULL /\ PassUp(t, mgr_for(t, kind), "t_s")
     \/ mgr_for(t, kind) = NULL /\ HandlerAsk(t, "TERMINATE_PROCESS")

\* a system call that is neither msgsend nor msgrecv
syscall_other(t) ==
  /\ Traps(t)
  /\ \/ /\ mgr_for(t, "sys_mgr") # NULL
        /\ PassUp(t, mgr_for(t, "sys_mgr"), "args")
     \/ /\ mgr_for(t, "sys_mgr") = NULL /\ mgr_for(t, "pgm_mgr") # NULL
        /\ PassUp(t, mgr_for(t, "pgm_mgr"), "t_s")
     \/ /\ mgr_for(t, "sys_mgr") = NULL /\ mgr_for(t, "pgm_mgr") = NULL
        /\ HandlerAsk(t, "TERMINATE_THREAD")

Trap == \E t \in Tcb : syscall_other(t) \/ \E k \in {"pgm_mgr", "tlb_mgr"} : __trap_h(t, k)
Handler == Block \/ HandlerAwait \/ HandlerReturns
Overwritten == UnknownRequest \/ OtherRequest

-----------------------------------------------------------------------------
TrapInit == Init /\ trapped = [t \in Tcb |-> "none"]

TrapNext ==
  \/ Next /\ ~HandlerResumed /\ ForgetTheDead
  \/ Trap \/ Handler \/ Overwritten

TrapSpec == TrapInit /\ [][TrapNext]_trapvars

-----------------------------------------------------------------------------
TrapTypeOK == TypeOK /\ trapped \in [Tcb -> Fate]

PassedUp(t) == t \in Tcb /\ trapped[t] = "passed_up"
Blocked(t)  == PassedUp(t) /\ ~OnCpu(t)

\* a thread that was passed up belongs to blockedq, whatever its status says
TrapHome ==
  [c \in Cell |-> IF c \notin Sentinel /\ Blocked(c[2])
                  THEN blockedq ELSE Home[c]]

(* The scheduling lists are rings of the threads that belong to them, those  *)
(* that were passed up while READY being on blockedq, also when such a      *)
(* thread is terminated there (__trap_h and syscall_other against           *)
(* thread_free, which unlinks a thread without looking at its status).      *)
TrapListsOK == Rings(links, TrapHome) /\ FreeListOK /\ CurrentReady

(* A deadlock is declared only when every thread waits for a message or for *)
(* its manager, a halt only when no program is left.                        *)
TrapEndIsHonest ==
  /\ kpc = "halt" => \A t \in Tcb : ~Live(t)
  /\ kpc = "panic_deadlock" => \A t \in Thread :
       Live(t) => t_status[t] = T_STATUS_W4MSG \/ PassedUp(t)

(* A manager's answer makes the thread ready again (trap.c:28-29): "I       *)
(* manager dopo aver intrapreso le operazioni opportune reinseriranno il    *)
(* thread nella coda ready".                                                *)
AnswerResumes ==
  \A t \in Tcb : PassedUp(t) =>
    \A i \in DOMAIN t_msgq[t] : t_msgq[t][i].m_sender \notin
      { mgr_for(t, k) : k \in Mgr }
=============================================================================
