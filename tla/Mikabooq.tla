------------------------------ MODULE Mikabooq ------------------------------
(***************************************************************************)
(* mikabooq.c: the process, thread and message descriptors of the kernel   *)
(* and the operations on them.                                             *)
(*                                                                         *)
(* The scheduling lists - every list linked through t_sched - are modelled *)
(* at the level of the pointers (variable links), because a descriptor may *)
(* be on at most one of them and thread_free unlinks it from whatever its  *)
(* pointers say.  The lists linked through t_next, p_siblings and m_next   *)
(* are sequences: a descriptor never leaves one of those but in the call   *)
(* that puts it at the tail of another, so its pointers are never stale.   *)
(* For message descriptors, whose identity nothing depends on, the free    *)
(* list is its length.                                                     *)
(*                                                                         *)
(* The processor state (t_s), run_time and errno of a thread decide no     *)
(* step of the kernel, which only hands them back; they are abstracted     *)
(* away.                                                                   *)
(***************************************************************************)
EXTENDS ListX, Sequences, SequencesExt

CONSTANTS
  MAXPROC,    \* process descriptors, process[0] being the root
  MAXTHREAD,  \* thread descriptors
  MAXMSG,     \* message descriptors
  SSI         \* the descriptor of the system service thread (ssi.c, _SSI)

ASSUME MikabooqAssumption ==
  /\ MAXPROC \in Nat \ {0}  /\  MAXTHREAD \in Nat  /\  MAXMSG \in Nat
  /\ NULL \notin 1..MAXTHREAD  /\  NULL \notin 0..(MAXPROC - 1)
  /\ SSI \notin 1..MAXTHREAD   /\  SSI # NULL

Proc   == 0..(MAXPROC - 1)      \* process[]
root   == 0
Tcb    == 1..MAXTHREAD          \* thread[]
Thread == Tcb \cup {SSI}

\* pcb_t's three manager pointers
Mgr == {"pgm_mgr", "tlb_mgr", "sys_mgr"}

T_STATUS_NONE  == 0
T_STATUS_READY == 1
T_STATUS_W4MSG == 4

\* the list_heads the scheduling lists are made of
t_sched(t)   == <<"t_sched", t>>
t_wait4me(t) == <<"t_wait4me", t>>
readyq       == <<"readyq", NULL>>
blockedq     == <<"blockedq", NULL>>

Sentinel == { t_wait4me(t) : t \in Thread } \cup {readyq, blockedq}
Cell     == { t_sched(t) : t \in Thread } \cup Sentinel

\* no list_head is at address NULL
ASSUME CellAssumption == NULL \notin Cell

VARIABLES
  links,          \* the next and prev pointers of every cell
  t_pcb,          \* the process of each thread, NULL when the tcb is free
  t_status,
  t_wait4sender,
  t_msgq,         \* the pending messages of each thread, first one first
  message_h,      \* how many message descriptors are free
  thread_h,       \* the free thread descriptors
  p_parent,
  p_threads,      \* the threads of each process
  p_children,
  process_h,      \* the free process descriptors
  mgrs            \* pgm_mgr, tlb_mgr and sys_mgr of each process

threadvars == <<t_pcb, t_status, t_wait4sender>>
msgvars    == <<t_msgq, message_h>>
procvars   == <<p_parent, p_children, process_h, mgrs>>
mikabooqvars == <<links, threadvars, msgvars, thread_h, p_threads, procvars>>

-----------------------------------------------------------------------------
\* list_del on a list that is represented as a sequence without repetitions
unlink(s, e) ==
  IF \E i \in DOMAIN s : s[i] = e
  THEN RemoveAt(s, CHOOSE i \in DOMAIN s : s[i] = e)
  ELSE s

\* mutant of thread_enqueue: the list becomes a stack
thread_enqueue_head(m, t, queue) == list_add(m, t_sched(t), queue)

thread_enqueue(m, t, queue) == list_add_tail(m, t_sched(t), queue)
thread_outqueue(m, t)       == list_del(m, t_sched(t))
thread_qhead(m, queue)      == list_next(m, queue)

\* mutant of clean_mgr: the managers survive the process
clean_mgr_keeps(p) == mgrs

clean_mgr(p) == [mgrs EXCEPT ![p] = [k \in Mgr |-> NULL]]

\* thread_alloc(process): the head of the free list becomes a READY thread
\* of the process.  It returns NULL in the cases of thread_alloc_fails.
thread_alloc_fails(process) == process = NULL \/ thread_h = <<>>

thread_alloc(process) ==
  LET new == Head(thread_h) IN
  /\ thread_h'  = Tail(thread_h)
  /\ t_pcb'     = [t_pcb EXCEPT ![new] = process]
  /\ t_status'  = [t_status EXCEPT ![new] = T_STATUS_READY]
  /\ p_threads' = [p_threads EXCEPT ![process] = Append(@, new)]
  /\ UNCHANGED t_wait4sender

\* thread_free(old), past its two checks: the descriptor is cleaned and
\* unlinked through t_next and through t_sched, wherever these point, and
\* goes to the tail of the free list.
\* mutant of thread_free_ok: the waiting threads are not looked at
thread_free_ok_waiters(old) == t_msgq[old] = <<>>

thread_free_ok(old) ==
  t_msgq[old] = <<>> /\ list_empty(links, t_wait4me(old))

\* mutant of thread_free: t_sched stays linked
thread_free_linked(old) ==
  /\ t_pcb'         = [t_pcb EXCEPT ![old] = NULL]
  /\ t_status'      = [t_status EXCEPT ![old] = T_STATUS_NONE]
  /\ t_wait4sender' = [t_wait4sender EXCEPT ![old] = NULL]
  /\ p_threads'     = [p \in Proc |-> unlink(p_threads[p], old)]
  /\ thread_h'      = Append(unlink(thread_h, old), old)
  /\ UNCHANGED links

thread_free(old) ==
  /\ t_pcb'         = [t_pcb EXCEPT ![old] = NULL]
  /\ t_status'      = [t_status EXCEPT ![old] = T_STATUS_NONE]
  /\ t_wait4sender' = [t_wait4sender EXCEPT ![old] = NULL]
  /\ p_threads'     = [p \in Proc |-> unlink(p_threads[p], old)]
  /\ links'         = thread_outqueue(links, old)
  /\ thread_h'      = Append(unlink(thread_h, old), old)

\* proc_alloc(p): the head of the free list becomes the last child of p
proc_alloc_fails(p) == process_h = <<>> \/ p = NULL

proc_alloc(p) ==
  LET new == Head(process_h) IN
  /\ process_h'  = Tail(process_h)
  /\ p_parent'   = [p_parent EXCEPT ![new] = p]
  /\ p_children' = [p_children EXCEPT ![p] = Append(@, new)]
  /\ UNCHANGED mgrs

\* proc_alloc(p) followed by proc_delete of the process it returned, which
\* comes back to the tail of the free list
proc_alloc_and_delete ==
  /\ process_h' = Append(Tail(process_h), Head(process_h))
  /\ mgrs'      = clean_mgr(Head(process_h))
  /\ UNCHANGED <<p_parent, p_children>>

proc_delete_fails(p) ==
  p_parent[p] = NULL \/ p_children[p] # <<>> \/ p_threads[p] # <<>>

\* mutant of proc_delete: the parent keeps its child
proc_delete_keeps_child(p) ==
  IF proc_delete_fails(p)
  THEN UNCHANGED procvars
  ELSE /\ p_parent'  = [p_parent EXCEPT ![p] = NULL]
       /\ process_h' = Append(process_h, p)
       /\ mgrs'      = clean_mgr(p)
       /\ UNCHANGED p_children

proc_delete(p) ==
  IF proc_delete_fails(p)
  THEN UNCHANGED procvars
  ELSE /\ p_parent'   = [p_parent EXCEPT ![p] = NULL]
       /\ p_children' = [p_children EXCEPT ![p_parent[p]] = unlink(@, p)]
       /\ process_h'  = Append(process_h, p)
       /\ mgrs'       = clean_mgr(p)

-----------------------------------------------------------------------------
\* The positions of dest's queue that msgq_get may return for `sender`, NULL
\* meaning anybody, and the message it does return: the first of them.
\* (mutant of Matching first: the sender is not looked at)
Matching_anybody(dest, sender) == DOMAIN t_msgq[dest]

Matching(dest, sender) ==
  { i \in DOMAIN t_msgq[dest] :
      sender \in {NULL, t_msgq[dest][i].m_sender} }

IsFirstMatch(i, dest, sender) ==
  i \in Matching(dest, sender) /\ \A j \in Matching(dest, sender) : i <= j

\* mutant of msgq_add_fails: the free list is not looked at
msgq_add_fails_never == FALSE

\* msgq_add, which fails when no descriptor is free
msgq_add_fails == message_h = 0

msgq_add(sender, dest, value) ==
  /\ message_h' = message_h - 1
  /\ t_msgq' = [t_msgq EXCEPT
       ![dest] = Append(@, [m_sender |-> sender, m_value |-> value])]

\* msg_free of the i-th message of dest
msg_free(dest, i) ==
  /\ message_h' = message_h + 1
  /\ t_msgq' = [t_msgq EXCEPT ![dest] = RemoveAt(@, i)]

-----------------------------------------------------------------------------
\* proc_init: process[0] is the root, the others are free
proc_init ==
  /\ p_parent   = [p \in Proc |-> NULL]
  /\ p_threads  = [p \in Proc |-> <<>>]
  /\ p_children = [p \in Proc |-> <<>>]
  /\ process_h  = [i \in 1..(MAXPROC - 1) |-> i]
  /\ mgrs       = [p \in Proc |-> [k \in Mgr |-> NULL]]

\* thread_init.  _SSI is static storage until ssi_thread_init, but for its two
\* list heads, which that call initialises before anything can look at them.
thread_init ==
  /\ links         = init_list_heads(Cell, Sentinel)
  /\ t_pcb         = [t \in Thread |-> NULL]
  /\ t_status      = [t \in Thread |-> T_STATUS_NONE]
  /\ t_wait4sender = [t \in Thread |-> NULL]
  /\ t_msgq        = [t \in Thread |-> <<>>]
  /\ thread_h      = [i \in 1..MAXTHREAD |-> i]

\* msgq_init: every message descriptor is free
msgq_init == message_h = MAXMSG

InitMikabooq == proc_init /\ thread_init /\ msgq_init

TypeOKMikabooq ==
  /\ links \in [next : [Cell -> Cell \cup {NULL}], prev : [Cell -> Cell \cup {NULL}]]
  /\ t_pcb \in [Thread -> Proc \cup {NULL}]
  /\ t_status \in [Thread -> {T_STATUS_NONE, T_STATUS_READY, T_STATUS_W4MSG}]
  /\ t_wait4sender \in [Thread -> Thread \cup {NULL}]
  /\ message_h \in Nat
  /\ thread_h \in Seq(Tcb)
  /\ p_parent \in [Proc -> Proc \cup {NULL}]
  /\ p_threads \in [Proc -> Seq(Tcb)]
  /\ p_children \in [Proc -> Seq(Proc)]
  /\ process_h \in Seq(Proc)
  /\ mgrs \in [Proc -> [Mgr -> Thread \cup {NULL}]]
=============================================================================
