------------------------------ MODULE Services ------------------------------
(***************************************************************************)
(* The system service thread: ssi() of SSI/ssi.c and the services it runs  *)
(* on behalf of its applicants, SSI/services/*.c.                          *)
(*                                                                         *)
(* The SSI runs with the interrupts disabled, so that between two of its   *)
(* system calls nothing else runs.  A service is therefore one action, but *)
(* for the two that terminate threads: their loops take one action per     *)
(* turn, with the C call stack in `dying` and the local variables of       *)
(* __terminate_thread_s in `victim`.                                       *)
(***************************************************************************)
EXTENDS Nucleus

VARIABLES
  dying,   \* the processes of the nested calls of __terminate_process_s
  victim,  \* the thread __terminate_thread_s is terminating, or NULL
  stale    \* history: has thread_free ever been given a free descriptor?

termvars == <<dying, victim, stale>>

applicant == ssi_msg.m_sender
request   == ssi_msg.m_value

Serving(tags) == Running(SSI) /\ ssi_pc = "serve" /\ request.tag \in tags

\* a service that has an answer leaves the SSI at the msgsend that follows
Answered == ssi_pc' = "reply" /\ UNCHANGED ssi_msg
\* a service that has none leaves it at the next msgrecv
Done     == ssi_pc' = "recv" /\ ssi_msg' = NULL

\* the processor follows a NULL pointer to a process
WildAccess == kpc' = "wild" /\ UNCHANGED <<mikabooqvars, current_thread,
                thread_count, iovars, asked, ssivars, termvars>>

-----------------------------------------------------------------------------
\* applicant = msgrecv(NULL, &msg)
SsiReceive ==
  /\ Running(SSI) /\ ssi_pc = "recv"
  /\ \/ recv_blocks(SSI, NULL) /\ UNCHANGED ssivars
     \/ \E i \in DOMAIN t_msgq[SSI] :
          /\ recv_takes(SSI, NULL, i)
          /\ ssi_pc' = "serve" /\ ssi_msg' = t_msgq[SSI][i]
  /\ UNCHANGED <<thread_h, p_threads, procvars, thread_count, iovars, asked,
                 termvars>>

\* msgsend(applicant, reply), whose result the SSI ignores
SsiReply ==
  /\ Running(SSI) /\ ssi_pc = "reply"
  /\ send(applicant, SSI, [reply |-> request.tag])
  /\ StubReturns(applicant)
  /\ Done
  /\ UNCHANGED <<thread_h, p_threads, procvars, runvars, thread_count, iovars,
                 termvars>>

-----------------------------------------------------------------------------
\* get_errno_s, getcputime_s, get_processid_s, get_parentprocid_s and
\* get_mythreadid_s, which answers with a word its request does not have; two
\* of them follow the pointer they are given
ServeGet ==
  /\ Serving(GetTags)
  /\ \/ Answered /\ UNCHANGED kpc
     \/ request.tag \in {"GET_PROCESSID", "GET_PARENTPROCID"} /\ kpc' = "wild"
        /\ UNCHANGED ssivars
  /\ UNCHANGED <<mikabooqvars, current_thread, thread_count, iovars, asked, termvars>>

\* mutant of __create_thread_s: the thread is not counted
__create_thread_s_uncounted(proc) ==
  /\ thread_alloc(proc)
  /\ links' = thread_enqueue(links, Head(thread_h), readyq)
  /\ asked' = [asked EXCEPT ![Head(thread_h)] = NULL]
  /\ UNCHANGED thread_count

\* __create_thread_s(state, proc): it returns NULL, or the new thread
__create_thread_s(proc) ==
  /\ thread_alloc(proc)
  /\ links' = thread_enqueue(links, Head(thread_h), readyq)
  /\ thread_count' = thread_count + 1
  \* the program starts from the state it is given
  /\ asked' = [asked EXCEPT ![Head(thread_h)] = NULL]

create_thread_s ==
  /\ Serving({"CREATE_THREAD"})
  /\ Answered
  /\ LET proc == t_pcb[applicant] IN
     IF thread_alloc_fails(proc)
     THEN UNCHANGED <<links, threadvars, thread_h, p_threads, thread_count, asked>>
     ELSE __create_thread_s(proc)
  /\ UNCHANGED <<msgvars, procvars, runvars, iovars, termvars>>

create_process_s ==
  /\ Serving({"CREATE_PROCESS"})
  /\ Answered
  /\ LET parent == t_pcb[applicant] IN
     \/ /\ proc_alloc_fails(parent)
        /\ UNCHANGED <<links, threadvars, thread_h, p_threads, procvars,
                       thread_count, asked>>
     \/ /\ ~proc_alloc_fails(parent) /\ thread_alloc_fails(Head(process_h))
        /\ proc_alloc_and_delete
        /\ UNCHANGED <<links, threadvars, thread_h, p_threads, thread_count, asked>>
     \/ /\ ~proc_alloc_fails(parent) /\ ~thread_alloc_fails(Head(process_h))
        /\ proc_alloc(parent)
        /\ __create_thread_s(Head(process_h))
  /\ UNCHANGED <<msgvars, runvars, iovars, termvars>>

\* mutant of soft_block: the requester is not recorded
soft_block_unrecorded(t) ==
  /\ soft_block_count' = soft_block_count + 1
  /\ UNCHANGED soft_blocked_thread

\* the thread gets soft blocked, unless another one is
soft_block(t) ==
  /\ soft_block_count' = soft_block_count + 1
  /\ soft_blocked_thread' = IF soft_blocked_thread = NULL THEN t
                                                          ELSE soft_blocked_thread

\* do_io_s: the command goes to the terminal before the test that no thread
\* is waiting for it already
do_io_s ==
  /\ Serving({"DO_IO"})
  /\ IF request.arg = terminal0
     THEN soft_block(applicant) /\ tty' = "busy"
     ELSE UNCHANGED <<soft_block_count, soft_blocked_thread, tty>>
  /\ IF request.arg = terminal0 /\ soft_blocked_thread = NULL
     THEN Done /\ UNCHANGED kpc
     ELSE kpc' = "panic_io" /\ UNCHANGED ssivars
  /\ UNCHANGED <<mikabooqvars, current_thread, thread_count, is_idle, asked,
                 termvars>>

-----------------------------------------------------------------------------
\* __terminate_thread_s begins by freeing the messages of the thread
\* (mutant of StartTerminating first: the messages stay in the queue)
StartTerminating_full(t, msgq) == victim' = t /\ t_msgq' = msgq

StartTerminating(t, msgq) ==
  /\ victim' = t
  /\ t_msgq' = [msgq EXCEPT ![t] = <<>>]

\* the call of __terminate_process_s that serves a request
terminate_process_s ==
  /\ dying' = <<t_pcb[applicant]>>
  /\ victim' = NULL
  /\ ssi_pc' = "terminate"
  /\ UNCHANGED <<mikabooqvars, runvars, thread_count, ssi_msg, stale>>

ServeTerminateProcess ==
  /\ Serving({"TERMINATE_PROCESS"})
  /\ IF t_pcb[applicant] = NULL THEN WildAccess ELSE terminate_process_s
  /\ UNCHANGED <<iovars, asked>>

\* terminate_thread_s: the only thread of a process takes the process with it
terminate_thread_s ==
  /\ Serving({"TERMINATE_THREAD"})
  /\ IF \E p \in Proc : t_pcb[applicant] = p /\ p_threads[p] = <<applicant>>
     THEN terminate_process_s
     ELSE /\ StartTerminating(applicant, t_msgq)
          /\ message_h' = message_h + Len(t_msgq[applicant])
          /\ dying' = <<>>
          /\ ssi_pc' = "terminate"
          /\ UNCHANGED <<links, threadvars, thread_h, p_threads, procvars,
                         runvars, thread_count, ssi_msg, stale>>
  /\ UNCHANGED <<iovars, asked>>

\* __setmgr: a second call terminates the process of the applicant
mgr_of == [SETPGMMGR |-> "pgm_mgr", SETTLBMGR |-> "tlb_mgr", SETSYSMGR |-> "sys_mgr"]

\* mutant of already_set: the pointer is not looked at
never_set(p, k) == FALSE

already_set(p, k) == mgrs[p][k] # NULL

__setmgr ==
  /\ Serving(MgrTags)
  /\ LET p == t_pcb[applicant]
         k == mgr_of[request.tag]
     IN
     \/ /\ request.arg = NULL
        /\ Answered
        /\ UNCHANGED <<mikabooqvars, runvars, thread_count, termvars>>
     \/ /\ request.arg # NULL /\ p = NULL
        /\ WildAccess
     \/ /\ request.arg # NULL /\ p # NULL /\ already_set(p, k)
        /\ terminate_process_s
     \/ /\ request.arg # NULL /\ p # NULL /\ ~already_set(p, k)
        /\ mgrs' = [mgrs EXCEPT ![p][k] = request.arg]
        /\ Answered
        /\ UNCHANGED <<links, threadvars, msgvars, thread_h, p_threads, p_parent,
                       p_children, process_h, runvars, thread_count, termvars>>
  /\ UNCHANGED <<iovars, asked>>

-----------------------------------------------------------------------------
Terminating == Running(SSI) /\ ssi_pc = "terminate"
dying_proc == Last(dying)

\* clean_sys_msg: whose queue it looks into for a message of the thread that
\* it is about to terminate.  Two of its branches test the managers of the
\* process; both look into the queue of sys_mgr.
clean_sys_msg_queue(t) ==
  LET sender == t_wait4sender[t]
      mgr    == mgrs[t_pcb[t]]
  IN  CASE sender = SSI -> SSI
        [] sender # SSI /\ sender \in {mgr["sys_mgr"], mgr["pgm_mgr"]} -> mgr["sys_mgr"]
        [] OTHER -> NULL

\* mutant of clean_sys_msg: nothing is cleaned
clean_sys_msg_nothing(t) == t_msgq

clean_sys_msg(t) ==
  LET queue == clean_sys_msg_queue(t)
  IN  IF queue # NULL /\ Matching(queue, t) # {}
      THEN [t_msgq EXCEPT ![queue] =
              RemoveAt(@, CHOOSE i \in DOMAIN t_msgq[queue] : IsFirstMatch(i, queue, t))]
      ELSE t_msgq

\* the first loop of __terminate_process_s turns: it takes the first thread
\* of the process.  Only the outermost call knows the applicant.
PickThread ==
  /\ Terminating /\ victim = NULL /\ dying # <<>>
  /\ p_threads[dying_proc] # <<>>
  /\ LET t    == Head(p_threads[dying_proc])
         spared == Len(dying) = 1 /\ t = applicant
         msgq == IF ~spared /\ t_status[t] = T_STATUS_W4MSG
                 THEN clean_sys_msg(t) ELSE t_msgq
     IN  /\ StartTerminating(t, msgq)
         /\ message_h' = message_h + Len(msgq[t]) + IF msgq = t_msgq THEN 0 ELSE 1
  /\ UNCHANGED <<links, threadvars, thread_h, p_threads, procvars, runvars,
                 thread_count, iovars, asked, ssivars, dying, stale>>

\* the loop of __terminate_thread_s turns: the first thread that waits for
\* the victim is resumed, its msgrecv returning NULL
ResumeWaiter ==
  /\ Terminating /\ victim # NULL
  /\ \E t \in Tcb :
       /\ thread_qhead(links, t_wait4me(victim)) = t_sched(t)
       /\ resume_thread(t)
  /\ UNCHANGED <<msgvars, thread_h, p_threads, procvars, runvars, thread_count,
                 iovars, asked, ssivars, termvars>>

\* __terminate_thread_s ends, its two loops having made thread_free's checks
\* pass; when terminate_thread_s called it the service ends with it
FreeVictim ==
  /\ Terminating /\ victim # NULL
  /\ thread_free_ok(victim)
  /\ thread_free(victim)
  /\ thread_count' = thread_count - 1
  /\ asked' = [asked EXCEPT ![victim] = NULL]
  /\ stale' = (stale \/ t_status[victim] = T_STATUS_NONE)
  /\ victim' = NULL
  /\ IF dying = <<>> THEN Done ELSE UNCHANGED ssivars
  /\ UNCHANGED <<msgvars, procvars, runvars, iovars, dying>>

\* the second loop of __terminate_process_s calls it for the first child
PickChild ==
  /\ Terminating /\ victim = NULL /\ dying # <<>>
  /\ p_threads[dying_proc] = <<>> /\ p_children[dying_proc] # <<>>
  /\ dying' = Append(dying, Head(p_children[dying_proc]))
  /\ UNCHANGED <<mikabooqvars, runvars, thread_count, iovars, asked, ssivars,
                 victim, stale>>

\* __terminate_process_s deletes the process and returns
DeleteProcess ==
  /\ Terminating /\ victim = NULL /\ dying # <<>>
  /\ p_threads[dying_proc] = <<>> /\ p_children[dying_proc] = <<>>
  /\ proc_delete(dying_proc)
  /\ dying' = Front(dying)
  /\ IF Len(dying) = 1 THEN Done ELSE UNCHANGED ssivars
  /\ UNCHANGED <<links, threadvars, msgvars, thread_h, p_threads, runvars,
                 thread_count, iovars, asked, victim, stale>>

-----------------------------------------------------------------------------
InitServices == InitNucleus /\ dying = <<>> /\ victim = NULL /\ stale = FALSE

Service ==
  \/ SsiReceive \/ SsiReply
  \/ ServeGet \/ create_thread_s \/ create_process_s \/ do_io_s
  \/ ServeTerminateProcess \/ terminate_thread_s \/ __setmgr
  \/ PickThread \/ ResumeWaiter \/ FreeVictim \/ PickChild \/ DeleteProcess

TypeOKServices ==
  /\ TypeOKNucleus
  /\ dying \in Seq(Proc)
  /\ victim \in Tcb \cup {NULL}
  /\ stale \in BOOLEAN
=============================================================================
