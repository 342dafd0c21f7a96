----------------------------- MODULE Descriptors ----------------------------
(***************************************************************************)
(* What mikabooq.h promises to whoever calls it, in terms of the sequences *)
(* of module Mikabooq: any sequence of the calls that tests/p1test.c makes. *)
(* A call that fails changes nothing.  The scheduling queues are pointers,  *)
(* here as in Mikabooq: thread_free may follow stale ones, and then what a  *)
(* queue holds is no sequence.                                              *)
(***************************************************************************)
EXTENDS Mikabooq

CONSTANT Values

VARIABLE last  \* the last call, and what it returned (of msgq_get also its sender)

descriptorvars == <<mikabooqvars, last>>

\* the processes that are in use
InUse(p) == p = root \/ p_parent[p] # NULL

procpart   == procvars
threadpart == <<links, threadvars, thread_h, p_threads>>

ProcAlloc(p) ==
  /\ \/ last' = <<"proc_alloc", NULL>> /\ proc_alloc_fails(p) /\ UNCHANGED procpart
     \/ /\ ~proc_alloc_fails(p) /\ last' = <<"proc_alloc", Head(process_h)>>
        /\ proc_alloc(p)
  /\ UNCHANGED <<threadpart, msgvars>>

ProcDelete(p) ==
  /\ last' = <<"proc_delete", IF proc_delete_fails(p) THEN -1 ELSE 0>>
  /\ proc_delete(p)
  /\ UNCHANGED <<threadpart, msgvars>>

ThreadAlloc(p) ==
  /\ \/ last' = <<"thread_alloc", NULL>> /\ thread_alloc_fails(p) /\ UNCHANGED threadpart
     \/ /\ ~thread_alloc_fails(p) /\ last' = <<"thread_alloc", Head(thread_h)>>
        /\ thread_alloc(p) /\ UNCHANGED links
  /\ UNCHANGED <<procpart, msgvars>>

\* of any descriptor, a free one included
ThreadFree(t) ==
  /\ \/ last' = <<"thread_free", 0>> /\ thread_free_ok(t) /\ thread_free(t)
     \/ /\ last' = <<"thread_free", IF t_msgq[t] # <<>> THEN -1 ELSE -2>>
        /\ ~thread_free_ok(t) /\ UNCHANGED threadpart
  /\ UNCHANGED <<procpart, msgvars>>

\* of any thread, on any queue
ThreadEnqueue(t, queue) ==
  /\ last' = <<"thread_enqueue">> /\ links' = thread_enqueue(links, t, queue)
  /\ UNCHANGED <<procpart, msgvars, threadvars, thread_h, p_threads>>

ThreadQhead(queue) ==
  /\ last' = <<"thread_qhead", queue, thread_qhead(links, queue)>>
  /\ UNCHANGED <<procpart, msgvars, threadpart>>

\* the head leaves the queue, which may be a head that belongs to no thread
ThreadDequeue(queue) ==
  LET head == thread_qhead(links, queue) IN
  /\ last'  = <<"thread_dequeue", queue, head>>
  /\ links' = IF head = NULL THEN links ELSE list_del(links, head)
  /\ UNCHANGED <<procpart, msgvars, threadvars, thread_h, p_threads>>

\* msgq_add_head
msgq_add_head(sender, dest, value) ==
  /\ message_h' = message_h - 1
  /\ t_msgq' = [t_msgq EXCEPT ![dest] = <<[m_sender |-> sender, m_value |-> value]>> \o @]

MsgAdd(sender, dest, value) ==
  /\ \/ last' = <<"msgq_add", -1>> /\ msgq_add_fails /\ UNCHANGED msgvars
     \/ /\ last' = <<"msgq_add", 0>>
        /\ ~msgq_add_fails /\ msgq_add(sender, dest, value)
  /\ UNCHANGED <<procpart, threadpart>>

MsgAddHead(sender, dest, value) ==
  /\ \/ last' = <<"msgq_add_head", -1>> /\ msgq_add_fails /\ UNCHANGED msgvars
     \/ /\ last' = <<"msgq_add_head", 0>>
        /\ ~msgq_add_fails /\ msgq_add_head(sender, dest, value)
  /\ UNCHANGED <<procpart, threadpart>>

\* msgq_get: a message from sender, or from anybody
MsgGet(sender, dest) ==
  /\ \/ last' = <<"msgq_get", sender, -1>> /\ Matching(dest, sender) = {} /\ UNCHANGED msgvars
     \/ \E i \in DOMAIN t_msgq[dest] :
          /\ last' = <<"msgq_get", sender, 0, t_msgq[dest][i]>>
          /\ IsFirstMatch(i, dest, sender) /\ msg_free(dest, i)
  /\ UNCHANGED <<procpart, threadpart>>

Calls ==
  \/ \E p \in {q \in Proc : InUse(q)} \cup {NULL} : ProcAlloc(p) \/ ThreadAlloc(p)
  \/ \E p \in Proc : ProcDelete(p)
  \/ \E t \in Tcb : ThreadFree(t)
  \/ \E q \in Sentinel :
       (\E t \in Tcb : ThreadEnqueue(t, q)) \/ ThreadQhead(q) \/ ThreadDequeue(q)
  \/ \E s, d \in Tcb, v \in Values : MsgAdd(s, d, v) \/ MsgAddHead(s, d, v)
  \/ \E s \in Tcb \cup {NULL}, d \in Tcb : MsgGet(s, d)

Promise == InitMikabooq /\ last = <<>> /\ [][Calls]_descriptorvars
=============================================================================
