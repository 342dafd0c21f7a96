------------------------------- MODULE Nucleus ------------------------------
(***************************************************************************)
(* The nucleus of the kernel: boot (init.c), the scheduler (scheduler.c),  *)
(* the two message-passing system calls (handlers/syscall.c), the timer    *)
(* and terminal interrupts (handlers/interrupts.c), and the programs that  *)
(* run on it, each of which may at any point make any system call its      *)
(* descriptor allows or call any service stub of nucleus.h.                *)
(*                                                                         *)
(* A handler runs with every interrupt disabled and is one action, with    *)
(* one exception: the call to scheduler() that ends it leaves the handler  *)
(* in kpc = "scheduler", where the only enabled action is the scheduler's. *)
(***************************************************************************)
EXTENDS Mikabooq

CONSTANTS
  Values,       \* what one program may send to another
  Requests,     \* the services the programs ask for, by tag
  Devices,      \* the device addresses they pass to DO_IO
  Preemptive,   \* do the programs run with the interrupts enabled?
  InitThreads,  \* the threads that boot gives to the root process
  MaxIO         \* bound: no program asks for DO_IO after this many were served

GetTags  == {"GET_ERRNO", "GET_CPUTIME", "GET_PROCESSID", "GET_PARENTPROCID",
             "GET_MYTHREADID"}
MgrTags  == {"SETPGMMGR", "SETTLBMGR", "SETSYSMGR"}
PlainTags == GetTags \cup {"CREATE_PROCESS", "CREATE_THREAD",
                           "TERMINATE_PROCESS", "TERMINATE_THREAD"}

\* the one device do_io_s drives: TERMINAL_DEV_FIELD(0, TRANSM_COMMAND)
terminal0 == "terminal0"

ASSUME NucleusAssumption ==
  /\ Requests \subseteq PlainTags \cup MgrTags \cup {"DO_IO"}
  /\ Preemptive \in BOOLEAN
  /\ InitThreads \in 1..MAXTHREAD
  /\ MaxIO \in Nat
  /\ NULL \notin Values

\* the request structures of nucleus.h
Request ==
  [tag : Requests \cap PlainTags, arg : {NULL}] \cup
  [tag : Requests \cap MgrTags,   arg : Tcb \cup {NULL}] \cup
  [tag : Requests \cap {"DO_IO"}, arg : Devices]

\* a stub that has not sent its request is told from one that has
ASSUME RequestAssumption == NULL \notin Request

\* A service answers with a value that only the program can interpret; the
\* model keeps what it answers.
Reply   == [reply : Requests]
\* What a pass-up points to (module Traps): the saved state of the thread, or
\* the arguments of its system call on the handler's stack.
Passup  == [passup : {"t_s", "args"}]
Payload == Values \cup Request \cup Reply \cup Passup
Message == [m_sender : Thread, m_value : Payload]
\* the SSI is sent nothing but requests, by programs
RequestMessage == [m_sender : Tcb, m_value : Request]

VARIABLES
  current_thread,
  kpc,              \* where the processor is
  thread_count,
  soft_block_count,
  is_idle,
  soft_blocked_thread, \* of the one device, the others being never set
  tty,              \* the terminal: "ready", "busy" or "done" (interrupting)
  asked,            \* the request a thread has sent, until its stub returns
  ssi_pc,           \* where ssi() is
  ssi_msg           \* what its last msgrecv returned

runvars == <<current_thread, kpc>>
iovars  == <<soft_block_count, is_idle, soft_blocked_thread, tty>>
ssivars == <<ssi_pc, ssi_msg>>
nucleusvars == <<mikabooqvars, runvars, thread_count, iovars, asked, ssivars>>

Running(t) == kpc = "thread" /\ current_thread = t

-----------------------------------------------------------------------------
\* resume_thread(resuming, recv_rval, msg): the msgrecv of the thread returns
\* the message, which has not passed through its queue, and the thread becomes
\* ready.  What the msgrecv of a program returned is not kept; StubReturns and
\* SsiReturns below say what becomes of a stub's, and of the SSI's.
\* (mutant of resume_thread first: the thread is enqueued while still linked)
resume_thread_linked(t) ==
  /\ t_status'      = [t_status EXCEPT ![t] = T_STATUS_READY]
  /\ t_wait4sender' = [t_wait4sender EXCEPT ![t] = NULL]
  /\ links' = thread_enqueue(links, t, readyq)
  /\ UNCHANGED t_pcb

resume_thread(t) ==
  /\ t_status'      = [t_status EXCEPT ![t] = T_STATUS_READY]
  /\ t_wait4sender' = [t_wait4sender EXCEPT ![t] = NULL]
  /\ links' = thread_enqueue(thread_outqueue(links, t), t, readyq)
  /\ UNCHANGED t_pcb

\* the two tests of send's switch that decide between its outcomes
\* (mutants of Expects first: one forgets that NULL means anybody, the other
\* forgets the sender)
Expects_named(dest, sender) ==
  t_status[dest] = T_STATUS_W4MSG /\ t_wait4sender[dest] = sender
Expects_anybody(dest, sender) == t_status[dest] = T_STATUS_W4MSG

Expects(dest, sender) ==
  t_status[dest] = T_STATUS_W4MSG /\ t_wait4sender[dest] \in {sender, NULL}

send_fails(dest, sender) ==
  \/ t_status[dest] = T_STATUS_NONE
  \/ ~Expects(dest, sender) /\ msgq_add_fails

send(dest, sender, value) ==
  \/ /\ Expects(dest, sender)
     /\ resume_thread(dest)
     /\ UNCHANGED msgvars
  \/ /\ ~Expects(dest, sender)
     /\ ~send_fails(dest, sender)
     /\ msgq_add(sender, dest, value)
     /\ UNCHANGED <<links, threadvars>>
  \/ /\ send_fails(dest, sender)
     /\ UNCHANGED <<links, threadvars, msgvars>>

\* recv, when msgq_get finds nothing: the caller waits on the list of the
\* sender it names, or on blockedq
recv_blocks(t, sender) ==
  /\ Matching(t, sender) = {}
  /\ t_status'      = [t_status EXCEPT ![t] = T_STATUS_W4MSG]
  /\ t_wait4sender' = [t_wait4sender EXCEPT ![t] = sender]
  /\ links' = thread_enqueue(links, t, IF sender = NULL THEN blockedq
                                                        ELSE t_wait4me(sender))
  /\ kpc' = "scheduler"
  /\ UNCHANGED <<t_pcb, msgvars, current_thread>>

\* mutant of recv_takes: the message is read and left in the queue
recv_takes_copy(t, sender, i) ==
  /\ IsFirstMatch(i, t, sender)
  /\ UNCHANGED <<msgvars, links, threadvars, runvars>>

\* recv, when msgq_get takes the i-th message of the queue
recv_takes(t, sender, i) ==
  /\ IsFirstMatch(i, t, sender)
  /\ msg_free(t, i)
  /\ UNCHANGED <<links, threadvars, runvars>>

\* the msgrecv of t's stub returns when the SSI, or acknowledge on its
\* behalf, sends to a thread that expects it
StubReturns(t) ==
  asked' = IF t \in Tcb /\ Expects(t, SSI) THEN [asked EXCEPT ![t] = NULL]
                                           ELSE asked

\* the msgrecv of ssi() returns when it waits for the request
SsiReturns(t, req) ==
  IF Expects(SSI, t)
  THEN ssi_pc' = "serve" /\ ssi_msg' = [m_sender |-> t, m_value |-> req]
  ELSE UNCHANGED ssivars

-----------------------------------------------------------------------------
\* init_and_load: the thread goes to the ready queue and is counted
init_and_load(t) ==
  /\ links' = thread_enqueue(links, t, readyq)
  /\ thread_count' = thread_count + 1

\* load_readyq: the SSI, then the threads of the root process; then main()
\* calls the scheduler for the first time.
LoadSSI ==
  /\ kpc = "boot" /\ thread_count = 0
  /\ init_and_load(SSI)
  /\ t_status' = [t_status EXCEPT ![SSI] = T_STATUS_READY]
  /\ UNCHANGED <<t_pcb, t_wait4sender, msgvars, thread_h, p_threads, procvars,
                 runvars, iovars, asked, ssivars>>

LoadThread ==
  /\ kpc = "boot" /\ thread_count \in 1..InitThreads
  /\ ~thread_alloc_fails(root)
  /\ thread_alloc(root)
  /\ init_and_load(Head(thread_h))
  /\ kpc' = IF thread_count = InitThreads THEN "scheduler" ELSE "boot"
  /\ UNCHANGED <<msgvars, procvars, current_thread, iovars, asked, ssivars>>

\* scheduler(), when the ready queue has a head.  (Only in a list corrupted by
\* a stale descriptor could the head not be the t_sched of a tcb; the model
\* stops there, and TLC would report it.)
Dispatch ==
  /\ kpc = "scheduler"
  /\ \E t \in Thread :
       /\ thread_qhead(links, readyq) = t_sched(t)
       /\ links' = thread_outqueue(links, t)
       /\ current_thread' = t
  /\ kpc' = "thread"
  /\ UNCHANGED <<threadvars, msgvars, thread_h, p_threads, procvars,
                 thread_count, iovars, asked, ssivars>>

\* mutant of only_the_SSI_is_left: off by one
only_one_thread_is_left == thread_count <= 2

only_the_SSI_is_left == thread_count = 1

\* scheduler() with an empty ready queue, then empty_readyq_h
empty_readyq_h ==
  /\ kpc = "scheduler"
  /\ list_empty(links, readyq)
  /\ current_thread' = NULL
  /\ \/ only_the_SSI_is_left /\ kpc' = "halt" /\ UNCHANGED is_idle
     \/ ~only_the_SSI_is_left /\ soft_block_count = 0 /\ kpc' = "panic_deadlock"
        /\ UNCHANGED is_idle
     \/ ~only_the_SSI_is_left /\ soft_block_count # 0
        /\ IF is_idle = 1      \* assert(!is_idle)
           THEN kpc' = "panic_idle" /\ UNCHANGED is_idle
           ELSE kpc' = "idle" /\ is_idle' = 1
  /\ UNCHANGED <<mikabooqvars, thread_count, soft_block_count,
                 soft_blocked_thread, tty, asked, ssivars>>

-----------------------------------------------------------------------------
\* msgsend of a program to another
Send(t, dest, value) ==
  /\ Running(t) /\ asked[t] = NULL
  /\ send(dest, t, value)
  /\ UNCHANGED <<thread_h, p_threads, procvars, runvars, thread_count, iovars,
                 asked, ssivars>>

\* msgrecv of a program from another, or from anybody (sender = NULL)
Recv(t, sender) ==
  /\ Running(t) /\ asked[t] = NULL
  /\ recv_blocks(t, sender) \/ \E i \in DOMAIN t_msgq[t] : recv_takes(t, sender, i)
  /\ UNCHANGED <<thread_h, p_threads, procvars, thread_count, iovars, asked,
                 ssivars>>

\* The stubs of nucleus.h are two system calls, between which the thread may
\* be preempted.  First msgsend(SSI, &req), whose result they ignore; ...
Ask(t, req) ==
  /\ Running(t) /\ asked[t] = NULL
  /\ req.tag = "DO_IO" => soft_block_count < MaxIO
  /\ send(SSI, t, req)
  /\ SsiReturns(t, req)
  /\ asked' = [asked EXCEPT ![t] = req]
  /\ UNCHANGED <<thread_h, p_threads, procvars, runvars, thread_count, iovars>>

\* ... then msgrecv(SSI, &retval), which returns now or blocks
AwaitReply(t) ==
  /\ Running(t) /\ asked[t] # NULL
  /\ \/ recv_blocks(t, SSI) /\ UNCHANGED asked
     \/ /\ \E i \in DOMAIN t_msgq[t] : recv_takes(t, SSI, i)
        /\ asked' = [asked EXCEPT ![t] = NULL]
  /\ UNCHANGED <<thread_h, p_threads, procvars, thread_count, iovars, ssivars>>

-----------------------------------------------------------------------------
\* The SSI runs with the interrupts disabled, the programs as Preemptive says.
InterruptsEnabled ==
  \/ kpc = "idle"
  \/ kpc = "thread" /\ current_thread # SSI /\ Preemptive

\* interval_timer_h, in a program and in the idle processor
interval_timer_h ==
  /\ InterruptsEnabled
  /\ links' = IF kpc = "idle" THEN links
              ELSE thread_enqueue(links, current_thread, readyq)
  /\ kpc' = "scheduler"
  /\ UNCHANGED <<threadvars, msgvars, thread_h, p_threads, procvars,
                 current_thread, thread_count, iovars, asked, ssivars>>

\* the terminal completes the command do_io_s gave it
TerminalDone ==
  /\ tty = "busy" /\ tty' = "done"
  /\ kpc \in {"thread", "idle"}
  /\ UNCHANGED <<mikabooqvars, runvars, thread_count, soft_block_count, is_idle,
                 soft_blocked_thread, asked, ssivars>>

\* acknowledge, called by io_h: the requester is answered in the name of the
\* SSI.  The assertion that the answer is delivered panics when it is not.
acknowledge ==
  /\ InterruptsEnabled /\ tty = "done"
  /\ tty' = "ready"
  /\ send(soft_blocked_thread, SSI, [reply |-> "DO_IO"])
  /\ IF send_fails(soft_blocked_thread, SSI)
     THEN kpc' = "panic_ack" /\ UNCHANGED <<soft_blocked_thread, is_idle, asked>>
     ELSE /\ StubReturns(soft_blocked_thread)
          /\ soft_blocked_thread' = NULL
          /\ IF is_idle = 1 THEN is_idle' = 0 /\ kpc' = "scheduler"
                            ELSE UNCHANGED <<is_idle, kpc>>
  /\ UNCHANGED <<thread_h, p_threads, procvars, current_thread, thread_count,
                 soft_block_count, ssivars>>

-----------------------------------------------------------------------------
InitNucleus ==
  /\ InitMikabooq
  /\ current_thread = NULL
  /\ kpc = "boot"
  /\ thread_count = 0
  /\ soft_block_count = 0
  /\ is_idle = 0
  /\ soft_blocked_thread = NULL
  /\ tty = "ready"
  /\ asked = [t \in Tcb |-> NULL]
  /\ ssi_pc = "recv"
  /\ ssi_msg = NULL

Program(t) ==
  \/ \E dest \in Tcb, value \in Values : Send(t, dest, value)
  \/ \E sender \in Tcb \cup {NULL} : Recv(t, sender)
  \/ \E req \in Request : Ask(t, req)
  \/ AwaitReply(t)

Boot      == LoadSSI \/ LoadThread
Scheduler == Dispatch \/ empty_readyq_h
Interrupt == interval_timer_h \/ TerminalDone \/ acknowledge

Halted == kpc \in {"halt", "panic_deadlock", "panic_idle", "panic_ack",
                   "panic_io", "panic_ssi", "panic", "wild"}

TypeOKNucleus ==
  /\ TypeOKMikabooq
  /\ t_msgq \in [Thread -> Seq(Message)]
  /\ t_msgq[SSI] \in Seq(RequestMessage)
  /\ current_thread \in Thread \cup {NULL}
  /\ kpc \in {"boot", "scheduler", "thread", "idle", "passup", "handler"} \cup
             {"halt", "panic_deadlock", "panic_idle", "panic_ack", "panic_io",
              "panic_ssi", "panic", "wild"}
  /\ thread_count \in Int
  /\ soft_block_count \in Nat
  /\ is_idle \in {0, 1}
  /\ soft_blocked_thread \in Tcb \cup {NULL}
  /\ tty \in {"ready", "busy", "done"}
  /\ asked \in [Tcb -> Request \cup {NULL}]
  /\ ssi_pc \in {"recv", "serve", "reply", "terminate"}
  /\ ssi_msg \in RequestMessage \cup {NULL}
=============================================================================
