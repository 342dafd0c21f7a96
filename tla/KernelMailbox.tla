--------------------------- MODULE KernelMailbox ----------------------------
(***************************************************************************)
(* The kernel implements the mailboxes of module Mailbox: its statuses and *)
(* queues, the lists a thread waits on, direct delivery and the turns of   *)
(* the terminating loops are seen through this mapping.                    *)
(***************************************************************************)
EXTENDS Kernel

\* the thread that the SSI is terminating
Closing == IF victim = NULL THEN {} ELSE {victim}

Mail == INSTANCE Mailbox WITH
  Thread  <- Thread,
  Nobody  <- NULL,
  Server  <- SSI,
  Value   <- Payload,
  alive   <- {t \in Thread : Live(t)},
  waiting <- {t \in Thread : t_status[t] = T_STATUS_W4MSG},
  wants   <- t_wait4sender,
  mbox    <- t_msgq,
  closing <- Closing,
  calling <- {t \in Tcb : asked[t] # NULL}

(* Every step of the kernel is a step of the mailboxes or none: messages    *)
(* from one thread arrive in the order they were sent, none is taken from   *)
(* the middle of a queue past one that matches, a stub gets the answer of   *)
(* the SSI and not another thread's message, direct delivery overtakes      *)
(* nothing, a thread dies only when nobody waits for it and a recycled      *)
(* descriptor inherits no message (send, recv, resume_thread and            *)
(* __terminate_thread_s against thread_free and thread_alloc).             *)
ImplementsMailbox == Mail!Spec

(* The same of every system, whatever it terminates and whenever it is       *)
(* preempted, up to the first time a free descriptor is freed again: a thread *)
(* killed inside a stub takes its call with it, and the late answer to it     *)
(* goes to a descriptor that is free, or is a message to the thread that has  *)
(* it by then (send and resume_thread against __terminate_thread_s).          *)
MailboxUntilStale == Mail!Init /\ [][stale' \/ Mail!Next]_(Mail!mailvars)
=============================================================================
