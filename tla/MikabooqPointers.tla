-------------------------- MODULE MikabooqPointers --------------------------
(***************************************************************************)
(* mikabooq.c on its pointers: the lists of processes, threads and         *)
(* messages, free or not, linked through p_siblings, t_next and m_next.    *)
(* It implements module Descriptors, whose sequences are what a walk along *)
(* these lists meets.  The lists linked through t_sched, which both modules *)
(* know by their pointers, never meet the others and have a variable of     *)
(* their own, links.  thread_init writes no t_sched (mikabooq.c:146): until *)
(* a thread is first enqueued its pointers are NULL, and what list_del      *)
(* stores through them lands in none of these cells.                        *)
(***************************************************************************)
EXTENDS ListX, Sequences, SequencesExt

CONSTANTS
  MAXPROC, MAXTHREAD, MAXMSG, SSI, Values,
  QueueNames  \* the kinds of scheduling queues that the caller keeps

ASSUME PointersAssumption ==
  /\ MAXPROC \in Nat \ {0}  /\  MAXTHREAD \in Nat  /\  MAXMSG \in Nat
  /\ NULL \notin 1..MAXTHREAD  /\  NULL \notin 0..(MAXPROC - 1)
  /\ SSI \notin 1..MAXTHREAD   /\  SSI # NULL
  /\ QueueNames \subseteq {"readyq", "blockedq", "t_wait4me"}

Proc == 0..(MAXPROC - 1)
Tcb  == 1..MAXTHREAD
Message == 1..MAXMSG
root == 0

\* the fields that link a descriptor, and the heads of the lists
p_siblings(p) == <<"p_siblings", p>>
t_next(t)     == <<"t_next", t>>
m_next(i)     == <<"m_next", i>>
threads_of(p)  == <<"p_threads", p>>
children_of(p) == <<"p_children", p>>
msgs_of(t)     == <<"t_msgq", t>>
free_threads   == <<"thread_h", NULL>>
free_messages  == <<"message_h", NULL>>
free_processes == p_siblings(root)     \* the root has no siblings

Links == { p_siblings(p) : p \in Proc \ {root} } \cup { t_next(t) : t \in Tcb } \cup
         { m_next(i) : i \in Message }
Heads == { threads_of(p) : p \in Proc } \cup { children_of(p) : p \in Proc } \cup
         { msgs_of(t) : t \in Tcb } \cup {free_threads, free_messages, free_processes}

\* the cells of the scheduling lists; of _SSI, which is no tcb of the table,
\* nothing is linked here
Thread == Tcb \cup {SSI}
t_sched(t)   == <<"t_sched", t>>
t_wait4me(t) == <<"t_wait4me", t>>
SchedHeads   == { t_wait4me(t) : t \in Thread } \cup {<<"readyq", NULL>>, <<"blockedq", NULL>>}
SchedCells   == { t_sched(t) : t \in Thread } \cup SchedHeads
SchedQueues  == { q \in SchedHeads : q[1] \in QueueNames /\ q[2] # SSI }

\* no list_head is at address NULL
ASSUME LinkAssumption == NULL \notin Links \cup Heads \cup SchedCells

\* the descriptor of a link
container_of(cell) == cell[2]

VARIABLES
  mem,        \* the next and prev pointers of the links and the heads
  links,      \* those of the scheduling lists
  p_parent,
  t_pcb,
  m_sender,
  m_value,
  last,       \* the last call, and what it returned
  queued,     \* what each scheduling queue should hold: enqueued and not taken off
  stale       \* a thread was freed on t_sched pointers of a queue it had left

pointervars == <<mem, links, p_parent, t_pcb, m_sender, m_value>>
history     == <<queued, stale>>

-----------------------------------------------------------------------------
\* the cells that list_for_each meets from a head until it is back; it is back
\* before it has met more cells than there are
list_for_each(m, head) ==
  LET from[n \in Nat] == [c \in Links \cup Heads |->
        IF n = 0 \/ c = head THEN <<>> ELSE <<c>> \o from[n - 1][m.next[c]]]
  IN  from[Cardinality(Links)][m.next[head]]

Cells(head) == list_for_each(mem, head)

\* list_for_each_entry: the descriptors of a list, from its head
List(head) == [i \in DOMAIN Cells(head) |-> container_of(Cells(head)[i])]

\* mutant of Moved: the descriptor is not deleted from its old list
Moved_undeleted(cell, head) == list_add_tail(mem, cell, head)

\* list_del, then list_add_tail
Moved(cell, head) == list_add_tail(list_del(mem, cell), cell, head)

-----------------------------------------------------------------------------
ProcAlloc(parent) ==
  LET space == list_next(mem, free_processes) IN
  IF space = NULL \/ parent = NULL
  THEN last' = <<"proc_alloc", NULL>> /\ UNCHANGED pointervars
  ELSE /\ mem' = Moved(space, children_of(parent))
       /\ p_parent' = [p_parent EXCEPT ![container_of(space)] = parent]
       /\ last' = <<"proc_alloc", container_of(space)>>
       /\ UNCHANGED <<links, t_pcb, m_sender, m_value>>

ProcDelete(old) ==
  IF \/ p_parent[old] = NULL
     \/ ~list_empty(mem, children_of(old)) \/ ~list_empty(mem, threads_of(old))
  THEN last' = <<"proc_delete", -1>> /\ UNCHANGED pointervars
  ELSE /\ mem' = Moved(p_siblings(old), free_processes)
       /\ p_parent' = [p_parent EXCEPT ![old] = NULL]
       /\ last' = <<"proc_delete", 0>>
       /\ UNCHANGED <<links, t_pcb, m_sender, m_value>>

ThreadAlloc(process) ==
  LET head == list_next(mem, free_threads) IN
  IF process = NULL \/ head = NULL
  THEN last' = <<"thread_alloc", NULL>> /\ UNCHANGED pointervars
  ELSE /\ mem' = Moved(head, threads_of(process))
       /\ t_pcb' = [t_pcb EXCEPT ![container_of(head)] = process]
       /\ last' = <<"thread_alloc", container_of(head)>>
       /\ UNCHANGED <<links, p_parent, m_sender, m_value>>

\* the thread is on none of the queues
OnNoQueue(t) == \A q \in SchedQueues : t \notin ToSet(queued[q])

\* t is taken off the queue it is on, if any
Dequeued(t) == [q \in SchedQueues |->
  IF \E i \in DOMAIN queued[q] : queued[q][i] = t
  THEN RemoveAt(queued[q], CHOOSE i \in DOMAIN queued[q] : queued[q][i] = t)
  ELSE queued[q]]

\* mutant of t_sched_deleted: t_sched stays linked
t_sched_kept(t) == links

t_sched_deleted(t) == list_del(links, t_sched(t))

\* thread_free deletes the thread from the lists of t_next and of t_sched,
\* wherever the pointers of the latter lead
ThreadFree(old) ==
  \/ /\ ~list_empty(mem, msgs_of(old)) /\ last' = <<"thread_free", -1>>
     /\ UNCHANGED <<pointervars, history>>
  \/ /\ list_empty(mem, msgs_of(old)) /\ ~list_empty(links, t_wait4me(old))
     /\ last' = <<"thread_free", -2>> /\ UNCHANGED <<pointervars, history>>
  \/ /\ list_empty(mem, msgs_of(old)) /\ list_empty(links, t_wait4me(old))
     /\ mem' = Moved(t_next(old), free_threads)
     /\ links' = t_sched_deleted(old)
     /\ t_pcb' = [t_pcb EXCEPT ![old] = NULL]
     /\ last' = <<"thread_free", 0>>
     /\ queued' = Dequeued(old)
     /\ stale' = (stale \/ (OnNoQueue(old) /\ links.next[t_sched(old)] # NULL))
     /\ UNCHANGED <<p_parent, m_sender, m_value>>

-----------------------------------------------------------------------------
\* mutant of thread_enqueue: the queue becomes a stack
thread_enqueue_head(t, queue) == list_add(links, t_sched(t), queue)

thread_enqueue(t, queue) == list_add_tail(links, t_sched(t), queue)

\* of a thread that is on no queue, as all that are enqueued in p1test and in
\* the kernel
ThreadEnqueue(t, queue) ==
  /\ OnNoQueue(t)
  /\ links'  = thread_enqueue(t, queue)
  /\ queued' = [queued EXCEPT ![queue] = Append(@, t)]
  /\ last'   = <<"thread_enqueue">>
  /\ UNCHANGED <<mem, p_parent, t_pcb, m_sender, m_value, stale>>

\* the list_head that is returned stands for the thread around it; after a
\* stale deletion it may lie in no thread at all
ThreadQhead(queue) ==
  /\ last' = <<"thread_qhead", queue, list_next(links, queue)>>
  /\ UNCHANGED <<pointervars, history>>

ThreadDequeue(queue) ==
  LET head == list_next(links, queue) IN
  /\ last' = <<"thread_dequeue", queue, head>>
  /\ IF head = NULL
     THEN UNCHANGED <<pointervars, history>>
     ELSE /\ links'  = list_del(links, head)
          /\ queued' = Dequeued(container_of(head))
          /\ UNCHANGED <<mem, p_parent, t_pcb, m_sender, m_value, stale>>

-----------------------------------------------------------------------------
\* the first free message descriptor
space_message == list_next(mem, free_messages)

\* msgq_add and msgq_add_head, which differ in where the message is linked
NewMessage(call, sender, value, linked) ==
  IF space_message = NULL
  THEN last' = <<call, -1>> /\ UNCHANGED pointervars
  ELSE /\ mem' = linked
       /\ m_sender' = [m_sender EXCEPT ![container_of(space_message)] = sender]
       /\ m_value'  = [m_value EXCEPT ![container_of(space_message)] = value]
       /\ last' = <<call, 0>>
       /\ UNCHANGED <<links, p_parent, t_pcb>>

MsgAdd(sender, dest, value) ==
  NewMessage("msgq_add", sender, value, Moved(space_message, msgs_of(dest)))

MsgAddHead(sender, dest, value) ==
  NewMessage("msgq_add_head", sender, value,
             list_add(list_del(mem, space_message), space_message, msgs_of(dest)))

\* the positions of the messages from sender, NULL meaning anybody
From(queue, sender) ==
  { k \in DOMAIN queue : sender \in {NULL, m_sender[queue[k]]} }

\* the message that msgq_get takes, if there is one
Found(queue, sender) ==
  { queue[k] : k \in {k \in From(queue, sender) : \A j \in From(queue, sender) : k <= j} }

MessageAt(i) == [m_sender |-> m_sender[i], m_value |-> m_value[i]]

msg_free(i) ==
  /\ mem' = Moved(m_next(i), free_messages)
  /\ m_sender' = [m_sender EXCEPT ![i] = NULL]
  /\ UNCHANGED <<links, p_parent, t_pcb, m_value>>

MsgGet(sender, dest) ==
  LET found == Found(List(msgs_of(dest)), sender) IN
  \/ found = {} /\ last' = <<"msgq_get", sender, -1>> /\ UNCHANGED pointervars
  \/ \E i \in found : last' = <<"msgq_get", sender, 0, MessageAt(i)>> /\ msg_free(i)

-----------------------------------------------------------------------------
\* the loops that link every cell of a table, first to last, into a free list
AllAddedTail(m, cells, head) ==
  LET after[i \in 0..Len(cells)] ==
        IF i = 0 THEN m ELSE list_add_tail(after[i - 1], cells[i], head)
  IN  after[Len(cells)]

AllAdded(m, cells, head) ==
  LET after[i \in 0..Len(cells)] ==
        IF i = 0 THEN m ELSE list_add(after[i - 1], cells[i], head)
  IN  after[Len(cells)]

ProcCells    == [i \in 1..(MAXPROC - 1) |-> p_siblings(i)]
ThreadCells  == [i \in Tcb |-> t_next(i)]
MessageCells == [i \in Message |-> m_next(i)]

\* proc_init, thread_init and msgq_init, which links the messages last first
PointersInit ==
  LET heads   == init_list_heads(Links \cup Heads, Heads)
      procs   == AllAddedTail(heads, ProcCells, free_processes)
      threads == AllAddedTail(procs, ThreadCells, free_threads)
  IN  /\ mem = AllAdded(threads, MessageCells, free_messages)
      /\ p_parent = [p \in Proc |-> NULL]
      /\ t_pcb    = [t \in Tcb |-> NULL]
      /\ m_sender = [i \in Message |-> NULL]
      /\ m_value  = [i \in Message |-> NULL]
      /\ links = init_list_heads(SchedCells, SchedHeads)
      /\ last = <<>>
      /\ queued = [q \in SchedQueues |-> <<>>]
      /\ stale = FALSE

InUse(p) == p = root \/ (p \in Proc /\ p_parent[p] # NULL)

\* the calls on the lists that a descriptor never leaves but for another
TableCalls ==
  \/ \E p \in {q \in Proc : InUse(q)} \cup {NULL} : ProcAlloc(p) \/ ThreadAlloc(p)
  \/ \E p \in Proc : ProcDelete(p)
  \/ \E s, d \in Tcb, v \in Values : MsgAdd(s, d, v) \/ MsgAddHead(s, d, v)
  \/ \E s \in Tcb \cup {NULL}, d \in Tcb : MsgGet(s, d)

\* the calls on the scheduling queues, of which p1test makes none after its
\* first stale thread_free
QueueCalls ==
  /\ ~stale
  /\ \E q \in SchedQueues :
       \/ \E t \in { t \in Tcb : t_pcb[t] # NULL } : ThreadEnqueue(t, q)
       \/ ThreadQhead(q) \/ ThreadDequeue(q)

PointersNext ==
  \/ TableCalls /\ UNCHANGED history
  \/ \E t \in Tcb : ThreadFree(t)
  \/ QueueCalls

allpointervars == <<pointervars, last, history>>

PointersSpec == PointersInit /\ [][PointersNext]_allpointervars

-----------------------------------------------------------------------------
Api == INSTANCE Descriptors WITH
  t_status      <- [t \in Thread |-> IF t \in Tcb /\ t_pcb[t] # NULL THEN 1 ELSE 0],
  t_wait4sender <- [t \in Thread |-> NULL],
  t_pcb         <- [t \in Thread |-> IF t \in Tcb THEN t_pcb[t] ELSE NULL],
  t_msgq        <- [t \in Thread |-> IF t \in Tcb
                      THEN LET q == List(msgs_of(t)) IN [i \in DOMAIN q |-> MessageAt(q[i])]
                      ELSE <<>>],
  message_h     <- Len(List(free_messages)),
  thread_h      <- List(free_threads),
  p_threads     <- [p \in Proc |-> List(threads_of(p))],
  p_children    <- [p \in Proc |-> List(children_of(p))],
  process_h     <- List(free_processes),
  mgrs          <- [p \in Proc |-> [k \in {"pgm_mgr", "tlb_mgr", "sys_mgr"} |-> NULL]]

(* The pointers implement the sequences: every call leaves the lists as its  *)
(* contract says, first in first out, whatever was called before, with the  *)
(* pools full or empty and with descriptors freed twice (mikabooq.h).       *)
ImplementsDescriptors == Api!Promise

(* Every descriptor is on one list, free or in use, never on two and never  *)
(* on none, and every list can be walked both ways (list_del and list_add). *)
OneListEach ==
  /\ \A c \in Links \cup Heads : mem.prev[mem.next[c]] = c /\ mem.next[mem.prev[c]] = c
  /\ \A c \in Links : Cardinality({h \in Heads : c \in ToSet(Cells(h))}) = 1

\* the queue holds these threads, first one first, both ways along its ring
Holds(queue, threads) ==
  LET cell(i) == IF i \in DOMAIN threads THEN t_sched(threads[i]) ELSE queue IN
  \A i \in 0..Len(threads) :
    links.next[cell(i)] = cell(i + 1) /\ links.prev[cell(i + 1)] = cell(i)

(* Until a thread is freed whose t_sched still points at a queue it has     *)
(* left, the scheduling queues hold the threads that were enqueued and not  *)
(* dequeued or freed since, in the order of the enqueues, whatever the order *)
(* of the calls (thread_enqueue, thread_dequeue, thread_free).              *)
QueuesUntilStale == ~stale => \A q \in SchedQueues : Holds(q, queued[q])
=============================================================================
