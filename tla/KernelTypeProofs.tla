-------------------------- MODULE KernelTypeProofs --------------------------
(***************************************************************************)
(* The kernel keeps its types, for every value of the constants.           *)
(***************************************************************************)
EXTENDS Kernel, SequenceTheorems, WellFoundedInduction, TLAPS

\* a memory over the cells of `home`, and a home for each cell: the sentinel
\* of a list, which is its own home, or NULL
Memory(C) == [next : [C -> C \cup {NULL}], prev : [C -> C \cup {NULL}]]

-----------------------------------------------------------------------------
(* Sequences: what unlinking an element leaves.                             *)

\* removing an element leaves a sequence of elements it already had
LEMMA RemoveAtType ==
  ASSUME NEW S, NEW s \in Seq(S), NEW i \in DOMAIN s
  PROVE  /\ RemoveAt(s, i) \in Seq(S)
         /\ \A j \in DOMAIN RemoveAt(s, i) :
              \E k \in DOMAIN s : RemoveAt(s, i)[j] = s[k]
<1> DEFINE a == SubSeq(s, 1, i - 1)
           b == SubSeq(s, i + 1, Len(s))
<1>1. i \in 1..Len(s) /\ Len(s) \in Nat
  OBVIOUS
<1>2. /\ a \in Seq(S) /\ b \in Seq(S)
      /\ Len(a) = i - 1 /\ Len(b) = Len(s) - i
      /\ \A j \in 1..Len(a) : a[j] = s[j]
      /\ \A j \in 1..Len(b) : b[j] = s[i + j]
  <2>1. \A k \in 1..Len(s) : s[k] \in S
    OBVIOUS
  <2>2. /\ a \in Seq(S)
        /\ Len(a) = i - 1
        /\ \A j \in 1..Len(a) : a[j] = s[j]
    BY <1>1, <2>1, SubSeqProperties
  <2>3. /\ b \in Seq(S)
        /\ Len(b) = Len(s) - i
        /\ \A j \in 1..Len(b) : b[j] = s[i + j]
    BY <1>1, <2>1, SubSeqProperties
  <2> QED BY <2>2, <2>3
<1>3. RemoveAt(s, i) = a \o b
  BY DEF RemoveAt
<1> HIDE DEF a, b
<1>4. /\ a \o b \in Seq(S)
      /\ Len(a \o b) = Len(a) + Len(b)
      /\ \A j \in 1..Len(a \o b) :
           (a \o b)[j] = IF j <= Len(a) THEN a[j] ELSE b[j - Len(a)]
  <2>1. Len(a \o b) = Len(a) + Len(b) /\ a \o b \in Seq(S)
    BY <1>2, ConcatProperties
  <2>2. \A j \in 1..(Len(a) + Len(b)) : (a \o b)[j] = IF j <= Len(a) THEN a[j] ELSE b[j - Len(a)]
    BY <1>2, ConcatProperties
  <2> QED BY <2>1, <2>2
<1>5. ASSUME NEW j \in 1..Len(a \o b)
      PROVE  \E k \in DOMAIN s : (a \o b)[j] = s[k]
  <2>1. CASE j <= Len(a)
    <3>1. j \in 1..Len(a) /\ j \in DOMAIN s
      BY <2>1, <1>1, <1>2
    <3>2. (a \o b)[j] = s[j]
      BY <3>1, <2>1, <1>2, <1>4
    <3> QED BY <3>1, <3>2
  <2>2. CASE ~(j <= Len(a))
    <3> DEFINE k == i + (j - Len(a))
    <3>1. j - Len(a) \in 1..Len(b) /\ k \in DOMAIN s
      <4>1. j \in Int /\ Len(a) \in Int /\ Len(b) \in Int /\ Len(s) \in Int
        BY <1>1, <1>2, <1>4
      <4>2. j <= Len(a) + Len(b) /\ j > Len(a)
        BY <2>2, <1>4, <4>1
      <4>3. Len(a) = i - 1 /\ Len(b) = Len(s) - i /\ i \in Int /\ DOMAIN s = 1..Len(s)
        BY <1>1, <1>2
      <4>4. j - Len(a) \in 1..Len(b)
        BY <4>1, <4>2
      <4> QED BY <4>1, <4>2, <4>3, <4>4
    <3>2. (a \o b)[j] = b[j - Len(a)]
      BY <2>2, <1>4
    <3>3. b[j - Len(a)] = s[k]
      BY <3>1, <1>2
    <3> QED BY <3>1, <3>2, <3>3
  <2> QED BY <2>1, <2>2
<1>6. DOMAIN (a \o b) = 1..Len(a \o b)
  BY <1>4
<1>7. RemoveAt(s, i) \in Seq(S)
  BY <1>3, <1>4, Zenon
<1>8. ASSUME NEW j \in DOMAIN RemoveAt(s, i)
      PROVE  \E k \in DOMAIN s : RemoveAt(s, i)[j] = s[k]
  <2>1. j \in 1..Len(a \o b)
    BY <1>3, <1>6, Zenon
  <2>2. PICK k \in DOMAIN s : (a \o b)[j] = s[k]
    BY <1>5, <2>1, Zenon
  <2> QED BY <1>3, <2>2, Zenon
<1> QED BY <1>7, <1>8

\* list_del on a list that is a sequence leaves a sequence of the same type
LEMMA UnlinkType ==
  ASSUME NEW S, NEW s \in Seq(S), NEW e
  PROVE  unlink(s, e) \in Seq(S)
<1>1. CASE \E i \in DOMAIN s : s[i] = e
  <2>1. (CHOOSE i \in DOMAIN s : s[i] = e) \in DOMAIN s
    BY <1>1
  <2> QED BY <1>1, <2>1, RemoveAtType DEF unlink
<1>2. CASE ~ \E i \in DOMAIN s : s[i] = e
  BY <1>2 DEF unlink
<1> QED BY <1>1, <1>2

\* the head and the tail of a non-empty list
LEMMA HeadTailType ==
  ASSUME NEW S, NEW s \in Seq(S), s # <<>>
  PROVE  Head(s) \in S /\ Tail(s) \in Seq(S)
  OBVIOUS

\* the last element of a non-empty sequence, and the rest
LEMMA FrontLastType ==
  ASSUME NEW S, NEW s \in Seq(S), s # <<>>
  PROVE  Last(s) \in S /\ Front(s) \in Seq(S)
<1>1. Len(s) \in 1..Len(s) /\ Len(s) - 1 \in Nat
  OBVIOUS
<1> QED BY <1>1 DEF Last, Front

-----------------------------------------------------------------------------
(* Type correctness.  The variables that the message-passing fragments      *)
(* change are taken together, so that send, recv and their parts are looked *)
(* into once.                                                               *)

ThreadTypes ==
  /\ links \in Memory(Cell)
  /\ t_pcb \in [Thread -> Proc \cup {NULL}]
  /\ t_status \in [Thread -> {T_STATUS_NONE, T_STATUS_READY, T_STATUS_W4MSG}]
  /\ t_wait4sender \in [Thread -> Thread \cup {NULL}]

MsgTypes ==
  /\ message_h \in Nat
  /\ t_msgq \in [Thread -> Seq(Message)]
  /\ t_msgq[SSI] \in Seq(RequestMessage)

ProcTypes ==
  /\ p_parent \in [Proc -> Proc \cup {NULL}]
  /\ p_children \in [Proc -> Seq(Proc)]
  /\ process_h \in Seq(Proc)
  /\ mgrs \in [Proc -> [Mgr -> Thread \cup {NULL}]]

ListTypes ==
  /\ thread_h \in Seq(Tcb)
  /\ p_threads \in [Proc -> Seq(Tcb)]

RunTypes ==
  /\ current_thread \in Thread \cup {NULL}
  /\ kpc \in {"boot", "scheduler", "thread", "idle", "passup", "handler"} \cup
             {"halt", "panic_deadlock", "panic_idle", "panic_ack", "panic_io",
              "panic_ssi", "panic", "wild"}
  /\ thread_count \in Int
  /\ asked \in [Tcb -> Request \cup {NULL}]

IOTypes ==
  /\ soft_block_count \in Nat
  /\ is_idle \in {0, 1}
  /\ soft_blocked_thread \in Tcb \cup {NULL}
  /\ tty \in {"ready", "busy", "done"}

SsiTypes ==
  /\ ssi_pc \in {"recv", "serve", "reply", "terminate"}
  /\ ssi_msg \in RequestMessage \cup {NULL}

TermTypes ==
  /\ dying \in Seq(Proc)
  /\ victim \in Tcb \cup {NULL}
  /\ stale \in BOOLEAN

\* the type invariant, split by what the operations change together
LEMMA TypeOKParts ==
  /\ TypeOK <=> /\ ThreadTypes /\ MsgTypes /\ ProcTypes /\ ListTypes
                /\ RunTypes /\ IOTypes /\ SsiTypes /\ TermTypes
  /\ TypeOK' <=> /\ ThreadTypes' /\ MsgTypes' /\ ProcTypes' /\ ListTypes'
                 /\ RunTypes' /\ IOTypes' /\ SsiTypes' /\ TermTypes'
  BY DEF TypeOK, TypeOKServices, TypeOKNucleus, TypeOKMikabooq, Memory,
         ThreadTypes, MsgTypes, ProcTypes, ListTypes, RunTypes, IOTypes,
         SsiTypes, TermTypes

\* what the assumptions on the constants say of threads, processes and cells
LEMMA TcbFacts ==
  /\ SSI \notin Tcb /\ NULL \notin Tcb /\ NULL \notin Proc /\ NULL # SSI
  /\ NULL \notin Thread
  /\ Tcb \subseteq Thread /\ SSI \in Thread /\ root \in Proc
  /\ NULL \notin Cell
  /\ \A t \in Thread : t_sched(t) \in Cell /\ t_wait4me(t) \in Cell
  /\ readyq \in Cell /\ blockedq \in Cell
  BY MikabooqAssumption, CellAssumption
     DEF Tcb, Proc, Thread, root, Cell, Sentinel

\* thread_enqueue yields a memory
LEMMA EnqueueType ==
  ASSUME NEW m \in Memory(Cell), NEW t \in Thread, NEW q \in Cell
  PROVE  thread_enqueue(m, t, q) \in Memory(Cell)
<1>1. t_sched(t) \in Cell
  BY TcbFacts
<1> QED BY <1>1 DEF thread_enqueue, list_add_tail, __list_add, Memory

\* thread_outqueue yields a memory
LEMMA OutqueueType ==
  ASSUME NEW m \in Memory(Cell), NEW t \in Thread
  PROVE  thread_outqueue(m, t) \in Memory(Cell)
<1>1. t_sched(t) \in Cell
  BY TcbFacts
<1> QED BY <1>1 DEF thread_outqueue, list_del, __list_del, Memory

\* msg_free keeps the message types
LEMMA MsgFreeType ==
  ASSUME MsgTypes, NEW t \in Thread, NEW i \in DOMAIN t_msgq[t], msg_free(t, i)
  PROVE  MsgTypes'
<1>1. /\ t_msgq[t] \in Seq(Message)
      /\ t = SSI => t_msgq[t] \in Seq(RequestMessage)
  BY DEF MsgTypes
<1>2. /\ RemoveAt(t_msgq[t], i) \in Seq(Message)
      /\ t = SSI => RemoveAt(t_msgq[t], i) \in Seq(RequestMessage)
  BY <1>1, RemoveAtType
<1> QED BY <1>2, TcbFacts DEF MsgTypes, msg_free

\* msgq_add, with a descriptor to give, keeps the message types
LEMMA MsgAddType ==
  ASSUME MsgTypes, ~msgq_add_fails,
         NEW dest \in Thread, NEW sender \in Thread, NEW value \in Payload,
         dest = SSI => sender \in Tcb /\ value \in Request,
         msgq_add(sender, dest, value)
  PROVE  MsgTypes'
<1> DEFINE msg == [m_sender |-> sender, m_value |-> value]
<1>1. msg \in Message /\ (dest = SSI => msg \in RequestMessage)
  BY DEF Message, RequestMessage
<1> HIDE DEF msg
<1>2. /\ t_msgq[dest] \in Seq(Message)
      /\ dest = SSI => t_msgq[dest] \in Seq(RequestMessage)
  BY DEF MsgTypes
<1>3. /\ Append(t_msgq[dest], msg) \in Seq(Message)
      /\ dest = SSI => Append(t_msgq[dest], msg) \in Seq(RequestMessage)
  BY <1>1, <1>2
<1>4. t_msgq' = [t_msgq EXCEPT ![dest] = Append(@, msg)] /\ message_h' = message_h - 1
  BY DEF msgq_add, msg
<1> QED BY <1>3, <1>4, TcbFacts DEF MsgTypes, msgq_add_fails

\* resume_thread keeps the thread types
LEMMA ResumeType ==
  ASSUME ThreadTypes, NEW t \in Thread, resume_thread(t)
  PROVE  ThreadTypes'
<1>1. links' \in Memory(Cell)
  BY EnqueueType, OutqueueType, TcbFacts DEF resume_thread, ThreadTypes
<1> QED BY <1>1 DEF ThreadTypes, resume_thread

\* send keeps the types, whichever way it goes
LEMMA SendType ==
  ASSUME ThreadTypes, MsgTypes,
         NEW dest \in Thread, NEW sender \in Thread, NEW value \in Payload,
         dest = SSI => sender \in Tcb /\ value \in Request,
         send(dest, sender, value)
  PROVE  ThreadTypes' /\ MsgTypes'
<1>1. CASE resume_thread(dest) /\ UNCHANGED msgvars
  BY <1>1, ResumeType DEF MsgTypes, msgvars
<1>2. CASE /\ ~Expects(dest, sender) /\ ~send_fails(dest, sender)
           /\ msgq_add(sender, dest, value)
           /\ UNCHANGED <<links, threadvars>>
  BY <1>2, MsgAddType DEF send_fails, ThreadTypes, threadvars
<1>3. CASE UNCHANGED <<links, threadvars, msgvars>>
  BY <1>3 DEF ThreadTypes, MsgTypes, threadvars, msgvars
<1> QED BY <1>1, <1>2, <1>3 DEF send

\* a recv that blocks keeps the types
LEMMA RecvBlocksType ==
  ASSUME ThreadTypes, MsgTypes, NEW t \in Thread, NEW sender \in Thread \cup {NULL},
         recv_blocks(t, sender)
  PROVE  ThreadTypes' /\ MsgTypes' /\ kpc' = "scheduler" /\ UNCHANGED current_thread
<1>1. links' \in Memory(Cell)
  BY EnqueueType, TcbFacts DEF recv_blocks, ThreadTypes
<1> QED BY <1>1 DEF recv_blocks, ThreadTypes, MsgTypes, msgvars

\* a recv that takes a message keeps the types
LEMMA RecvTakesType ==
  ASSUME ThreadTypes, MsgTypes, NEW t \in Thread, NEW sender,
         NEW i \in DOMAIN t_msgq[t], recv_takes(t, sender, i)
  PROVE  ThreadTypes' /\ MsgTypes' /\ UNCHANGED runvars
  BY MsgFreeType DEF recv_takes, ThreadTypes, threadvars

\* thread_alloc keeps the types and returns a descriptor
LEMMA ThreadAllocType ==
  ASSUME ThreadTypes, ListTypes, NEW process \in Proc,
         ~thread_alloc_fails(process), thread_alloc(process),
         links' \in Memory(Cell)
  PROVE  ThreadTypes' /\ ListTypes' /\ Head(thread_h) \in Tcb
<1> DEFINE new == Head(thread_h)
<1>1. thread_h # <<>> /\ thread_h \in Seq(Tcb)
  BY DEF thread_alloc_fails, ListTypes
<1>2. new \in Tcb /\ Tail(thread_h) \in Seq(Tcb)
  BY <1>1, HeadTailType
<1>3. Append(p_threads[process], new) \in Seq(Tcb)
  BY <1>2 DEF ListTypes
<1>4. p_threads' \in [Proc -> Seq(Tcb)] /\ thread_h' \in Seq(Tcb)
  BY <1>2, <1>3 DEF ListTypes, thread_alloc
<1> HIDE DEF new
<1>5. /\ t_pcb' = [t_pcb EXCEPT ![new] = process]
      /\ t_status' = [t_status EXCEPT ![new] = T_STATUS_READY]
      /\ UNCHANGED t_wait4sender
  BY DEF thread_alloc, new
<1>6. ThreadTypes'
  BY <1>5 DEF ThreadTypes
<1> QED BY <1>2, <1>4, <1>6 DEF ListTypes, new

\* thread_free keeps the types
LEMMA ThreadFreeType ==
  ASSUME ThreadTypes, ListTypes, NEW old \in Tcb, thread_free(old)
  PROVE  ThreadTypes' /\ ListTypes'
<1>1. old \in Thread
  BY TcbFacts
<1>2. links' \in Memory(Cell)
  BY <1>1, OutqueueType DEF thread_free, ThreadTypes
<1>3. /\ \A p \in Proc : unlink(p_threads[p], old) \in Seq(Tcb)
      /\ Append(unlink(thread_h, old), old) \in Seq(Tcb)
  BY UnlinkType DEF ListTypes
<1>4. ListTypes'
  BY <1>3 DEF thread_free, ListTypes
<1>5. ThreadTypes'
  BY <1>2 DEF thread_free, ThreadTypes
<1> QED BY <1>4, <1>5

\* clean_mgr keeps the type of the managers
LEMMA CleanMgrType ==
  ASSUME ProcTypes, NEW p \in Proc
  PROVE  clean_mgr(p) \in [Proc -> [Mgr -> Thread \cup {NULL}]]
  BY DEF clean_mgr, ProcTypes

\* proc_alloc keeps the types and returns a descriptor
LEMMA ProcAllocType ==
  ASSUME ProcTypes, NEW p \in Proc, process_h # <<>>,
         proc_alloc(p) \/ proc_alloc_and_delete
  PROVE  ProcTypes' /\ Head(process_h) \in Proc
<1> DEFINE new == Head(process_h)
<1>1. new \in Proc /\ Tail(process_h) \in Seq(Proc)
  BY HeadTailType DEF ProcTypes
<1>2. /\ Append(p_children[p], new) \in Seq(Proc)
      /\ Append(Tail(process_h), new) \in Seq(Proc)
  BY <1>1 DEF ProcTypes
<1> HIDE DEF new
<1>3. CASE /\ process_h'  = Tail(process_h)
           /\ p_parent'   = [p_parent EXCEPT ![new] = p]
           /\ p_children' = [p_children EXCEPT ![p] = Append(@, new)]
           /\ UNCHANGED mgrs
  BY <1>1, <1>2, <1>3 DEF ProcTypes
<1>4. CASE /\ process_h' = Append(Tail(process_h), new)
           /\ mgrs'      = clean_mgr(new)
           /\ UNCHANGED <<p_parent, p_children>>
  BY <1>1, <1>2, <1>4, CleanMgrType DEF ProcTypes
<1>5. ProcTypes'
  BY <1>3, <1>4 DEF proc_alloc, proc_alloc_and_delete, new
<1> QED BY <1>1, <1>5 DEF new

\* proc_delete keeps the types, whether it succeeds or fails
LEMMA ProcDeleteType ==
  ASSUME ProcTypes, NEW p \in Proc, proc_delete(p)
  PROVE  ProcTypes'
<1>1. CASE proc_delete_fails(p)
  BY <1>1 DEF proc_delete, ProcTypes, procvars
<1>2. CASE ~proc_delete_fails(p)
  <2>1. p_parent[p] \in Proc
    BY <1>2 DEF proc_delete_fails, ProcTypes
  <2>2. /\ unlink(p_children[p_parent[p]], p) \in Seq(Proc)
        /\ Append(process_h, p) \in Seq(Proc)
    BY <2>1, UnlinkType DEF ProcTypes
  <2>3. p_parent' \in [Proc -> Proc \cup {NULL}]
    BY <1>2 DEF proc_delete, ProcTypes
  <2>4. p_children' \in [Proc -> Seq(Proc)]
    BY <1>2, <2>1, <2>2 DEF proc_delete, ProcTypes
  <2>5. process_h' \in Seq(Proc)
    BY <1>2, <2>2 DEF proc_delete
  <2>6. mgrs' \in [Proc -> [Mgr -> Thread \cup {NULL}]]
    BY <1>2, CleanMgrType DEF proc_delete
  <2> QED
    BY <2>3, <2>4, <2>5, <2>6 DEF ProcTypes
<1> QED BY <1>1, <1>2

\* a request may be sent, and so may its answer
LEMMA RequestFacts ==
  ASSUME NEW r \in Request
  PROVE  /\ r \in Payload
         /\ r.tag \in Requests /\ [reply |-> r.tag] \in Payload
         /\ r.tag \in MgrTags => r.arg \in Thread \cup {NULL}
<1>1. r.tag \in Requests
  BY DEF Request
<1>2. r.tag \in MgrTags => r.arg \in Thread \cup {NULL}
  <2>1. CASE r \in [tag : Requests \cap PlainTags, arg : {NULL}]
    BY <2>1
  <2>2. CASE r \in [tag : Requests \cap MgrTags, arg : Tcb \cup {NULL}]
    BY <2>2 DEF Thread
  <2>3. CASE r \in [tag : Requests \cap {"DO_IO"}, arg : Devices]
    <3>1. r.tag = "DO_IO"
      BY <2>3
    <3> QED BY <3>1 DEF MgrTags
  <2> QED BY <2>1, <2>2, <2>3 DEF Request
<1> QED BY <1>1, <1>2 DEF Payload, Reply

-----------------------------------------------------------------------------
(* Type correctness and ControlOK are inductive together: which thread or   *)
(* request an action works on is a matter of where the processor is.        *)

TInv == TypeOK /\ ControlOK

\* the kernel starts in the invariant
LEMMA TInvInit == Init => TInv
<1> SUFFICES ASSUME Init PROVE TInv
  OBVIOUS
<1> USE DEF Init, InitServices, InitNucleus, InitMikabooq, proc_init,
          thread_init, msgq_init
<1>1. links \in Memory(Cell)
  BY TcbFacts DEF Memory, init_list_heads
<1>2. thread_h \in Seq(Tcb)
  BY MikabooqAssumption DEF Tcb
<1>3. process_h \in Seq(Proc)
  BY MikabooqAssumption DEF Proc
<1>4. ThreadTypes /\ ListTypes
  BY <1>1, <1>2, TcbFacts DEF ThreadTypes, ListTypes
<1>5. MsgTypes
  BY TcbFacts, MikabooqAssumption DEF MsgTypes
<1>6. p_parent \in [Proc -> Proc \cup {NULL}] /\ p_children \in [Proc -> Seq(Proc)]
  OBVIOUS
<1>7. mgrs \in [Proc -> [Mgr -> Thread \cup {NULL}]]
  OBVIOUS
<1>8. ProcTypes
  BY <1>3, <1>6, <1>7 DEF ProcTypes
<1>9. asked \in [Tcb -> Request \cup {NULL}]
  OBVIOUS
<1>10. RunTypes
  BY <1>9 DEF RunTypes
<1>11. IOTypes /\ SsiTypes /\ TermTypes
  <2>1. IOTypes
    BY DEF IOTypes
  <2>2. SsiTypes
    BY DEF SsiTypes
  <2>3. TermTypes
    <3>1. dying \in Seq(Proc)
      OBVIOUS
    <3>2. victim \in Tcb \cup {NULL}
      OBVIOUS
    <3>3. stale \in BOOLEAN
      OBVIOUS
    <3> QED BY <3>1, <3>2, <3>3 DEF TermTypes
  <2> QED BY <2>1, <2>2, <2>3
<1>12. ControlOK
  BY TcbFacts DEF ControlOK, Live
<1> QED BY <1>4, <1>5, <1>8, <1>10, <1>11, <1>12, TypeOKParts DEF TInv

\* a part of the type invariant whose variables do not change is kept
LEMMA Keep ==
  /\ ThreadTypes /\ UNCHANGED <<links, threadvars>> => ThreadTypes'
  /\ MsgTypes /\ UNCHANGED msgvars => MsgTypes'
  /\ ProcTypes /\ UNCHANGED procvars => ProcTypes'
  /\ ListTypes /\ UNCHANGED <<thread_h, p_threads>> => ListTypes'
  /\ RunTypes /\ UNCHANGED <<runvars, thread_count, asked>> => RunTypes'
  /\ IOTypes /\ UNCHANGED iovars => IOTypes'
  /\ SsiTypes /\ UNCHANGED ssivars => SsiTypes'
  /\ TermTypes /\ UNCHANGED termvars => TermTypes'
<1>1. ThreadTypes /\ UNCHANGED <<links, threadvars>> => ThreadTypes'
  BY DEF ThreadTypes, threadvars
<1>2. MsgTypes /\ UNCHANGED msgvars => MsgTypes'
  BY DEF MsgTypes, msgvars
<1>3. ProcTypes /\ UNCHANGED procvars => ProcTypes'
  BY DEF ProcTypes, procvars
<1>4. ListTypes /\ UNCHANGED <<thread_h, p_threads>> => ListTypes'
  BY DEF ListTypes
<1>5. RunTypes /\ UNCHANGED <<runvars, thread_count, asked>> => RunTypes'
  BY DEF RunTypes, runvars
<1>6. IOTypes /\ UNCHANGED iovars => IOTypes'
  BY DEF IOTypes, iovars
<1>7. SsiTypes /\ UNCHANGED ssivars => SsiTypes'
  BY DEF SsiTypes, ssivars
<1>8. TermTypes /\ UNCHANGED termvars => TermTypes'
  BY DEF TermTypes, termvars
<1> QED BY <1>1, <1>2, <1>3, <1>4, <1>5, <1>6, <1>7, <1>8

\* the processor loads a thread, or has none to load
LEMMA BootTInv ==
  ASSUME TInv, Boot, UNCHANGED termvars
  PROVE  TInv'
<1> USE TypeOKParts, TcbFacts DEF only_the_SSI_is_left
<1>1. CASE LoadSSI
  <2>1. ThreadTypes'
    BY <1>1, EnqueueType DEF TInv, LoadSSI, init_and_load, ThreadTypes
  <2>2. RunTypes'
    BY <1>1 DEF TInv, LoadSSI, init_and_load, RunTypes, runvars
  <2>3. TypeOK'
    BY <1>1, <2>1, <2>2, Keep DEF TInv, LoadSSI
  <2>4. thread_count' = 1 /\ t_status'[SSI] = T_STATUS_READY
    BY <1>1 DEF TInv, LoadSSI, init_and_load, ThreadTypes
  <2>5. ControlOK'
    BY <1>1, <2>4 DEF TInv, LoadSSI, ControlOK, Live, runvars, iovars, ssivars,
       T_STATUS_READY, T_STATUS_NONE
  <2> QED BY <2>3, <2>5 DEF TInv
<1>2. CASE LoadThread
  <2>1. /\ thread_h # <<>> /\ Head(thread_h) \in Tcb
    BY <1>2, HeadTailType DEF TInv, LoadThread, thread_alloc_fails, ListTypes
  <2>2. links' \in Memory(Cell)
    BY <1>2, <2>1, EnqueueType DEF TInv, LoadThread, init_and_load, ThreadTypes
  <2>3. ThreadTypes' /\ ListTypes'
    BY <1>2, <2>2, ThreadAllocType DEF TInv, LoadThread
  <2>4. RunTypes'
    BY <1>2 DEF TInv, LoadThread, init_and_load, RunTypes
  <2>5. TypeOK'
    BY <1>2, <2>3, <2>4, Keep DEF TInv, LoadThread
  <2>6. t_status'[SSI] = t_status[SSI]
    BY <1>2, <2>1 DEF TInv, LoadThread, thread_alloc, ThreadTypes
  <2>7. /\ kpc = "boot" /\ kpc' \in {"boot", "scheduler"}
        /\ thread_count \in Int /\ thread_count >= 1
        /\ thread_count' = thread_count + 1
        /\ UNCHANGED <<current_thread, iovars, ssivars>>
    BY <1>2, NucleusAssumption DEF TInv, LoadThread, init_and_load
  <2>8. ControlOK'
    BY <2>6, <2>7 DEF TInv, ControlOK, Live, iovars, ssivars
  <2> QED BY <2>5, <2>8 DEF TInv
<1> QED BY <1>1, <1>2 DEF Boot

\* scheduler() keeps the invariant
LEMMA SchedulerTInv ==
  ASSUME TInv, Scheduler, UNCHANGED termvars
  PROVE  TInv'
<1> USE TypeOKParts, TcbFacts DEF only_the_SSI_is_left
<1>1. CASE Dispatch
  <2>1. PICK t \in Thread : /\ thread_qhead(links, readyq) = t_sched(t)
                            /\ links' = thread_outqueue(links, t)
                            /\ current_thread' = t
    BY <1>1 DEF Dispatch
  <2>2. ThreadTypes'
    BY <1>1, <2>1, OutqueueType DEF TInv, Dispatch, ThreadTypes, threadvars
  <2>3. RunTypes'
    BY <1>1, <2>1 DEF TInv, Dispatch, RunTypes
  <2>4. TypeOK'
    BY <1>1, <2>2, <2>3, Keep DEF TInv, Dispatch
  <2>5. ~list_empty(links, readyq)
    BY <2>1 DEF thread_qhead, list_next
  <2>6. ControlOK'
    BY <1>1, <2>1, <2>5 DEF TInv, Dispatch, ControlOK, Live, iovars, ssivars
  <2> QED BY <2>4, <2>6 DEF TInv
<1>2. CASE empty_readyq_h
  <2>1. IOTypes'
    BY <1>2 DEF TInv, empty_readyq_h, IOTypes
  <2>2. RunTypes'
    BY <1>2 DEF TInv, empty_readyq_h, RunTypes
  <2>3. TypeOK'
    BY <1>2, <2>1, <2>2, Keep DEF TInv, empty_readyq_h, mikabooqvars
  <2>4. ControlOK'
    BY <1>2 DEF TInv, empty_readyq_h, ControlOK, Live, mikabooqvars, threadvars, ssivars
  <2> QED BY <2>3, <2>4 DEF TInv
<1> QED BY <1>1, <1>2 DEF Scheduler

\* the interrupt handlers keep the invariant
LEMMA InterruptTInv ==
  ASSUME TInv, Interrupt, UNCHANGED termvars
  PROVE  TInv'
<1> USE TypeOKParts, TcbFacts DEF only_the_SSI_is_left
<1>1. CASE interval_timer_h
  <2>1. kpc # "idle" => current_thread \in Thread
    BY <1>1 DEF TInv, interval_timer_h, InterruptsEnabled, ControlOK, RunTypes
  <2>2. ThreadTypes'
    BY <1>1, <2>1, EnqueueType DEF TInv, interval_timer_h, ThreadTypes, threadvars
  <2>3. RunTypes'
    BY <1>1 DEF TInv, interval_timer_h, RunTypes
  <2>4. TypeOK'
    BY <1>1, <2>2, <2>3, Keep DEF TInv, interval_timer_h
  <2>5. ControlOK'
    BY <1>1 DEF TInv, interval_timer_h, InterruptsEnabled, ControlOK, Live, iovars,
                ssivars
  <2> QED BY <2>4, <2>5 DEF TInv
<1>2. CASE TerminalDone
  <2>1. IOTypes'
    BY <1>2 DEF TInv, TerminalDone, IOTypes
  <2>2. TypeOK'
    BY <1>2, <2>1, Keep DEF TInv, TerminalDone, mikabooqvars
  <2>3. ControlOK'
    BY <1>2 DEF TInv, TerminalDone, ControlOK, Live, mikabooqvars, threadvars,
                runvars, ssivars
  <2> QED BY <2>2, <2>3 DEF TInv
<1>3. CASE acknowledge
  <2> DEFINE t == soft_blocked_thread
             answer == [reply |-> "DO_IO"]
  <2>1. t \in Tcb
    BY <1>3 DEF TInv, acknowledge, ControlOK, IOTypes
  <2>2. answer \in Payload
    BY <1>3 DEF TInv, acknowledge, ControlOK, Payload, Reply
  <2>3. ThreadTypes' /\ MsgTypes'
    BY <1>3, <2>1, <2>2, SendType DEF TInv, acknowledge
  <2>4. RunTypes'
    BY <1>3, <2>1 DEF TInv, acknowledge, StubReturns, RunTypes
  <2>5. IOTypes'
    BY <1>3, <2>1 DEF TInv, acknowledge, IOTypes
  <2>6. TypeOK'
    BY <1>3, <2>3, <2>4, <2>5, Keep DEF TInv, acknowledge
  <2>7. send_fails(t, SSI) => UNCHANGED links
    BY <1>3 DEF acknowledge, send, send_fails, Expects, T_STATUS_NONE, T_STATUS_W4MSG
  <2>8. kpc \in {"thread", "idle"} /\ (kpc = "idle" <=> is_idle = 1)
    BY <1>3 DEF TInv, acknowledge, InterruptsEnabled, ControlOK
  <2>9. ControlOK'
    BY <1>3, <2>1, <2>7, <2>8 DEF TInv, acknowledge, ControlOK, IOTypes, ssivars
  <2> QED BY <2>6, <2>9 DEF TInv
<1> QED BY <1>1, <1>2, <1>3 DEF Interrupt

\* the system calls of a program keep the invariant
LEMMA ProgramTInv ==
  ASSUME TInv, NEW t \in Tcb, Program(t), UNCHANGED termvars
  PROVE  TInv'
<1> USE TypeOKParts, TcbFacts DEF only_the_SSI_is_left
<1>0. kpc = "thread" /\ is_idle # 1 /\ t \in Thread
  BY DEF TInv, Program, Send, Recv, Ask, AwaitReply, Running, ControlOK
<1>1. ASSUME NEW dest \in Tcb, NEW value \in Values, Send(t, dest, value)
      PROVE  TInv'
  <2>1. value \in Payload
    BY DEF Payload
  <2>2. ThreadTypes' /\ MsgTypes'
    BY <1>0, <1>1, <2>1, SendType DEF TInv, Send
  <2>3. TypeOK'
    BY <1>1, <2>2, Keep DEF TInv, Send
  <2>4. ControlOK'
    BY <1>0, <1>1 DEF TInv, Send, ControlOK, runvars, iovars, ssivars
  <2> QED BY <2>3, <2>4 DEF TInv
<1>2. ASSUME NEW sender \in Tcb \cup {NULL}, Recv(t, sender)
      PROVE  TInv'
  <2>1. CASE recv_blocks(t, sender)
    <3>1. ThreadTypes' /\ MsgTypes' /\ kpc' = "scheduler" /\ UNCHANGED current_thread
      BY <1>0, <2>1, RecvBlocksType DEF TInv
    <3>2. RunTypes'
      BY <1>2, <3>1 DEF TInv, Recv, RunTypes
    <3>3. TypeOK'
      BY <1>2, <3>1, <3>2, Keep DEF TInv, Recv
    <3>4. ControlOK'
      BY <1>0, <1>2, <3>1 DEF TInv, Recv, ControlOK, iovars, ssivars
    <3> QED BY <3>3, <3>4 DEF TInv
  <2>2. ASSUME NEW i \in DOMAIN t_msgq[t], recv_takes(t, sender, i)
        PROVE  TInv'
    <3>1. ThreadTypes' /\ MsgTypes' /\ UNCHANGED runvars
      BY <1>0, <2>2, RecvTakesType DEF TInv
    <3>2. TypeOK'
      BY <1>2, <3>1, Keep DEF TInv, Recv
    <3>3. ControlOK'
      BY <1>0, <1>2, <3>1 DEF TInv, Recv, ControlOK, runvars, iovars, ssivars
    <3> QED BY <3>2, <3>3 DEF TInv
  <2> QED BY <1>2, <2>1, <2>2 DEF Recv
<1>3. ASSUME NEW req \in Request, Ask(t, req)
      PROVE  TInv'
  <2>1. req \in Payload
    BY RequestFacts
  <2>2. ThreadTypes' /\ MsgTypes'
    BY <1>0, <1>3, <2>1, SendType DEF TInv, Ask
  <2>3. RunTypes'
    BY <1>3 DEF TInv, Ask, RunTypes, runvars
  <2>4. [m_sender |-> t, m_value |-> req] \in RequestMessage
    BY DEF RequestMessage
  <2>5. SsiTypes'
    BY <1>3, <2>4, Keep DEF TInv, Ask, SsiReturns, SsiTypes
  <2>6. TypeOK'
    BY <1>3, <2>2, <2>3, <2>5, Keep DEF TInv, Ask
  <2>7. ControlOK'
    BY <1>0, <1>3, <2>4 DEF TInv, Ask, ControlOK, SsiReturns, runvars, iovars, ssivars
  <2> QED BY <2>6, <2>7 DEF TInv
<1>4. CASE AwaitReply(t)
  <2>1. CASE recv_blocks(t, SSI) /\ UNCHANGED asked
    <3>1. ThreadTypes' /\ MsgTypes' /\ kpc' = "scheduler" /\ UNCHANGED current_thread
      BY <1>0, <2>1, RecvBlocksType DEF TInv
    <3>2. RunTypes'
      BY <1>4, <2>1, <3>1 DEF TInv, AwaitReply, RunTypes
    <3>3. TypeOK'
      BY <1>4, <3>1, <3>2, Keep DEF TInv, AwaitReply
    <3>4. ControlOK'
      BY <1>0, <1>4, <3>1 DEF TInv, AwaitReply, ControlOK, iovars, ssivars
    <3> QED BY <3>3, <3>4 DEF TInv
  <2>2. ASSUME NEW i \in DOMAIN t_msgq[t], recv_takes(t, SSI, i),
               asked' = [asked EXCEPT ![t] = NULL]
        PROVE  TInv'
    <3>1. ThreadTypes' /\ MsgTypes' /\ UNCHANGED runvars
      BY <1>0, <2>2, RecvTakesType DEF TInv
    <3>2. RunTypes'
      BY <1>4, <2>2, <3>1 DEF TInv, AwaitReply, RunTypes, runvars
    <3>3. TypeOK'
      BY <1>4, <3>1, <3>2, Keep DEF TInv, AwaitReply
    <3>4. ControlOK'
      BY <1>0, <1>4, <3>1 DEF TInv, AwaitReply, ControlOK, runvars, iovars, ssivars
    <3> QED BY <3>3, <3>4 DEF TInv
  <2> QED BY <1>4, <2>1, <2>2 DEF AwaitReply
<1> QED BY <1>1, <1>2, <1>3, <1>4 DEF Program

-----------------------------------------------------------------------------
(* The SSI.  No service runs but when the SSI holds a request, so that the  *)
(* first lemma says what every service may use and the second what is left  *)
(* of ControlOK after it.                                                   *)

\* the SSI serves a program's request
LEMMA ServedFacts ==
  ASSUME TInv, Running(SSI), ssi_pc # "recv"
  PROVE  /\ ssi_msg \in RequestMessage /\ applicant \in Tcb /\ request \in Request
         /\ applicant \in Thread
         /\ t_pcb[applicant] \in Proc \cup {NULL}
<1>1. ssi_msg \in RequestMessage
  BY DEF TInv, ControlOK
<1> QED
  BY <1>1, TypeOKParts, TcbFacts
     DEF TInv, applicant, request, RequestMessage, ThreadTypes

\* what a step of the SSI must not do to keep ControlOK
LEMMA SsiKeepsControl ==
  ASSUME TInv, Running(SSI),
         kpc' \in {"thread", "scheduler", "panic_io", "wild"},
         UNCHANGED <<current_thread, is_idle>>,
         tty' # "ready" => soft_blocked_thread' # NULL /\ "DO_IO" \in Requests,
         ssi_pc' # "recv" => ssi_msg' \in RequestMessage
  PROVE  ControlOK'
  BY DEF TInv, ControlOK, Running

\* the msgrecv of the SSI keeps the invariant
LEMMA SsiReceiveTInv ==
  ASSUME TInv, SsiReceive
  PROVE  TInv'
<1> USE TypeOKParts, TcbFacts
<1>0. /\ tty' # "ready" => soft_blocked_thread' # NULL /\ "DO_IO" \in Requests
      /\ UNCHANGED is_idle /\ Running(SSI)
  BY DEF TInv, ControlOK, SsiReceive, iovars
<1>1. CASE recv_blocks(SSI, NULL) /\ UNCHANGED ssivars
  <2>1. ThreadTypes' /\ MsgTypes' /\ kpc' = "scheduler" /\ UNCHANGED current_thread
    BY <1>1, RecvBlocksType DEF TInv
  <2>2. RunTypes'
    BY <2>1 DEF TInv, SsiReceive, RunTypes
  <2>3. TypeOK'
    BY <1>1, <2>1, <2>2, Keep DEF TInv, SsiReceive
  <2>4. ControlOK'
    BY <1>0, <1>1, <2>1, SsiKeepsControl DEF SsiReceive, ssivars
  <2> QED BY <2>3, <2>4 DEF TInv
<1>2. ASSUME NEW i \in DOMAIN t_msgq[SSI], recv_takes(SSI, NULL, i),
             ssi_pc' = "serve", ssi_msg' = t_msgq[SSI][i]
      PROVE  TInv'
  <2>1. ThreadTypes' /\ MsgTypes' /\ UNCHANGED runvars
    BY <1>2, RecvTakesType DEF TInv
  <2>2. ssi_msg' \in RequestMessage
    BY <1>2 DEF TInv, MsgTypes
  <2>3. SsiTypes'
    BY <1>2, <2>2 DEF SsiTypes
  <2>4. TypeOK'
    BY <2>1, <2>3, Keep DEF TInv, SsiReceive
  <2>5. ControlOK'
    BY <1>0, <2>1, <2>2, SsiKeepsControl DEF SsiReceive, runvars, Running
  <2> QED BY <2>4, <2>5 DEF TInv
<1> QED BY <1>1, <1>2 DEF SsiReceive

\* the msgsend of the SSI keeps the invariant
LEMMA SsiReplyTInv ==
  ASSUME TInv, SsiReply
  PROVE  TInv'
<1> USE TypeOKParts, TcbFacts
<1> DEFINE answer == [reply |-> request.tag]
<1>1. Running(SSI) /\ applicant \in Tcb /\ request \in Request
  BY ServedFacts DEF SsiReply
<1>2. answer \in Payload
  BY <1>1, RequestFacts
<1>3. ThreadTypes' /\ MsgTypes'
  <2>1. send(applicant, SSI, answer)
    BY DEF SsiReply
  <2> HIDE DEF answer
  <2> QED BY <1>1, <1>2, <2>1, SendType DEF TInv
<1>4. RunTypes'
  BY <1>1 DEF TInv, SsiReply, StubReturns, RunTypes, runvars
<1>5. SsiTypes'
  BY DEF SsiReply, Done, SsiTypes
<1>6. TypeOK'
  BY <1>3, <1>4, <1>5, Keep DEF TInv, SsiReply
<1>7. ControlOK'
  BY <1>1, SsiKeepsControl
     DEF TInv, ControlOK, SsiReply, Done, runvars, iovars, Running
<1> QED BY <1>6, <1>7 DEF TInv

\* __create_thread_s keeps the types
LEMMA CreateThreadType ==
  ASSUME TInv, NEW proc \in Proc, ~thread_alloc_fails(proc), __create_thread_s(proc),
         UNCHANGED runvars
  PROVE  ThreadTypes' /\ ListTypes' /\ RunTypes'
<1> USE TypeOKParts, TcbFacts
<1>1. /\ thread_h # <<>> /\ Head(thread_h) \in Tcb
  BY HeadTailType DEF TInv, thread_alloc_fails, ListTypes
<1>2. links' \in Memory(Cell)
  BY <1>1, EnqueueType DEF TInv, __create_thread_s, ThreadTypes
<1>3. ThreadTypes' /\ ListTypes'
  BY <1>2, ThreadAllocType DEF TInv, __create_thread_s
<1>4. RunTypes'
  BY <1>1 DEF TInv, __create_thread_s, RunTypes, runvars
<1> QED BY <1>3, <1>4

\* the services that answer, or panic, in one action
LEMMA AnswerTInv ==
  ASSUME TInv, ServeGet \/ create_thread_s \/ create_process_s \/ do_io_s
  PROVE  TInv'
<1> USE TypeOKParts, TcbFacts
<1>0. /\ Running(SSI) /\ ssi_pc = "serve"
      /\ ssi_msg \in RequestMessage /\ applicant \in Tcb /\ request \in Request
      /\ t_pcb[applicant] \in Proc \cup {NULL}
      /\ tty # "ready" => soft_blocked_thread # NULL /\ "DO_IO" \in Requests
  <2>1. Running(SSI) /\ ssi_pc = "serve"
    BY DEF ServeGet, create_thread_s, create_process_s, do_io_s, Serving
  <2> QED BY <2>1, ServedFacts DEF TInv, ControlOK
<1>1. ASSUME Answered, UNCHANGED runvars, UNCHANGED iovars
      PROVE  SsiTypes' /\ ControlOK'
  <2>1. SsiTypes'
    BY <1>0, <1>1 DEF Answered, SsiTypes
  <2>2. ControlOK'
    BY <1>0, <1>1, SsiKeepsControl DEF Answered, runvars, iovars, Running
  <2> QED BY <2>1, <2>2
<1>2. CASE ServeGet
  <2>1. SsiTypes' /\ (ssi_pc' # "recv" => ssi_msg' \in RequestMessage)
    BY <1>0, <1>2 DEF TInv, ServeGet, Answered, SsiTypes, ssivars
  <2>2. RunTypes' /\ kpc' \in {"thread", "wild"}
    BY <1>0, <1>2 DEF TInv, ServeGet, RunTypes, Running
  <2>3. TypeOK'
    BY <1>2, <2>1, <2>2, Keep DEF TInv, ServeGet, mikabooqvars
  <2>4. ControlOK'
    BY <1>0, <1>2, <2>1, <2>2, SsiKeepsControl DEF ServeGet, iovars
  <2> QED BY <2>3, <2>4 DEF TInv
<1>3. CASE create_thread_s
  <2> DEFINE proc == t_pcb[applicant]
  <2>1. CASE thread_alloc_fails(proc)
    <3>1. UNCHANGED <<links, threadvars, thread_h, p_threads, thread_count, asked>>
      BY <1>3, <2>1 DEF create_thread_s
    <3> QED BY <1>1, <1>3, <3>1, Keep DEF TInv, create_thread_s
  <2>2. CASE ~thread_alloc_fails(proc)
    <3>1. proc \in Proc /\ __create_thread_s(proc) /\ UNCHANGED runvars
      BY <1>0, <1>3, <2>2 DEF create_thread_s, thread_alloc_fails
    <3>2. ThreadTypes' /\ ListTypes' /\ RunTypes'
      BY <2>2, <3>1, CreateThreadType
    <3> QED BY <1>1, <1>3, <3>2, Keep DEF TInv, create_thread_s
  <2> QED BY <2>1, <2>2
<1>4. CASE create_process_s
  <2> DEFINE parent == t_pcb[applicant]
  <2>1. CASE UNCHANGED <<links, threadvars, thread_h, p_threads, procvars,
                         thread_count, asked>>
    BY <1>1, <1>4, <2>1, Keep DEF TInv, create_process_s
  <2>2. CASE /\ ~proc_alloc_fails(parent) /\ proc_alloc_and_delete
             /\ UNCHANGED <<links, threadvars, thread_h, p_threads,
                            thread_count, asked>>
    <3>1. parent \in Proc /\ process_h # <<>>
      BY <1>0, <2>2 DEF proc_alloc_fails
    <3>2. ProcTypes'
      BY <2>2, <3>1, ProcAllocType DEF TInv
    <3> QED BY <1>1, <1>4, <2>2, <3>2, Keep DEF TInv, create_process_s
  <2>3. CASE /\ ~proc_alloc_fails(parent)
             /\ ~thread_alloc_fails(Head(process_h))
             /\ proc_alloc(parent)
             /\ __create_thread_s(Head(process_h))
    <3>1. parent \in Proc /\ process_h # <<>>
      BY <1>0, <2>3 DEF proc_alloc_fails
    <3>2. ProcTypes' /\ Head(process_h) \in Proc
      BY <2>3, <3>1, ProcAllocType DEF TInv
    <3>3. UNCHANGED runvars
      BY <1>4 DEF create_process_s
    <3>4. ThreadTypes' /\ ListTypes' /\ RunTypes'
      BY <2>3, <3>2, <3>3, CreateThreadType
    <3> QED BY <1>1, <1>4, <3>2, <3>4, Keep DEF TInv, create_process_s
  <2> QED BY <1>4, <2>1, <2>2, <2>3 DEF create_process_s
<1>5. CASE do_io_s
  <2>1. request.tag = "DO_IO" /\ "DO_IO" \in Requests
    BY <1>0, <1>5, RequestFacts DEF do_io_s, Serving
  <2>2. IOTypes'
    BY <1>0, <1>5 DEF TInv, do_io_s, soft_block, IOTypes
  <2>3. RunTypes'
    BY <1>5 DEF TInv, do_io_s, RunTypes
  <2>4. SsiTypes'
    BY <1>5 DEF TInv, do_io_s, Done, ssivars, SsiTypes
  <2>5. TypeOK'
    BY <1>5, <2>2, <2>3, <2>4, Keep DEF TInv, do_io_s, mikabooqvars
  <2>6. tty' # "ready" => soft_blocked_thread' # NULL
    BY <1>0, <1>5 DEF TInv, do_io_s, soft_block, IOTypes
  <2>7. kpc' \in {"thread", "panic_io"}
    BY <1>0, <1>5 DEF do_io_s, Running
  <2>8. ssi_pc' # "recv" => ssi_msg' \in RequestMessage
    BY <1>0, <1>5 DEF do_io_s, Done, ssivars
  <2>9. ControlOK'
    BY <1>0, <1>5, <2>1, <2>6, <2>7, <2>8, SsiKeepsControl DEF do_io_s
  <2> QED BY <2>5, <2>9 DEF TInv
<1> QED BY <1>2, <1>3, <1>4, <1>5

\* a non-empty set of naturals has a least element
LEMMA LeastNatural ==
  ASSUME NEW T \in SUBSET Nat, T # {}
  PROVE  \E i \in T : \A j \in T : i <= j
<1> DEFINE R == OpToRel(<, Nat)
<1>1. IsWellFoundedOn(R, Nat)
  BY NatLessThanWellFounded
<1>2. \A x, y \in Nat : x < y => <<x, y>> \in R
  BY DEF OpToRel
<1> HIDE DEF R
<1>3. PICK i \in T : \A j \in T : ~ (<<j, i>> \in R)
  BY <1>1, WFMin
<1>4. \A j \in T : ~(j < i)
  BY <1>2, <1>3
<1>5. \A j \in T : i <= j
  BY <1>4
<1> QED BY <1>5

\* msgq_get returns a message when there is one to return
LEMMA FirstMatchExists ==
  ASSUME MsgTypes, NEW dest \in Thread, NEW sender, Matching(dest, sender) # {}
  PROVE  \E i \in DOMAIN t_msgq[dest] : IsFirstMatch(i, dest, sender)
<1>1. t_msgq[dest] \in Seq(Message)
  BY DEF MsgTypes
<1>2. DOMAIN t_msgq[dest] \subseteq Nat
  BY <1>1
<1>3. Matching(dest, sender) \subseteq DOMAIN t_msgq[dest]
  BY DEF Matching
<1> QED BY <1>2, <1>3, LeastNatural DEF IsFirstMatch

\* clean_sys_msg keeps the types of the queues
LEMMA CleanType ==
  ASSUME MsgTypes, NEW t
  PROVE  /\ clean_sys_msg(t) \in [Thread -> Seq(Message)]
         /\ clean_sys_msg(t)[SSI] \in Seq(RequestMessage)
<1> USE TcbFacts
<1> DEFINE queue == clean_sys_msg_queue(t)
           first == CHOOSE i \in DOMAIN t_msgq[queue] : IsFirstMatch(i, queue, t)
           cleaned == [t_msgq EXCEPT ![queue] = RemoveAt(@, first)]
<1>1. CASE queue \in Thread /\ Matching(queue, t) # {}
  <2>1. first \in DOMAIN t_msgq[queue]
    BY <1>1, FirstMatchExists
  <2>2. /\ t_msgq[queue] \in Seq(Message)
        /\ queue = SSI => t_msgq[queue] \in Seq(RequestMessage)
    BY <1>1 DEF MsgTypes
  <2>3. /\ RemoveAt(t_msgq[queue], first) \in Seq(Message)
        /\ queue = SSI => RemoveAt(t_msgq[queue], first) \in Seq(RequestMessage)
    BY <2>1, <2>2, RemoveAtType
  <2>4. clean_sys_msg(t) = cleaned
    BY <1>1 DEF clean_sys_msg
  <2> HIDE DEF queue, first
  <2> QED BY <1>1, <2>3, <2>4 DEF MsgTypes, cleaned
<1>2. CASE queue \notin Thread
  <2>1. clean_sys_msg(t) = t_msgq \/ clean_sys_msg(t) = cleaned
    BY DEF clean_sys_msg
  <2> HIDE DEF queue, first
  <2>2. cleaned = t_msgq
    BY <1>2 DEF MsgTypes
  <2> QED BY <2>1, <2>2 DEF MsgTypes
<1>3. CASE Matching(queue, t) = {}
  BY <1>3 DEF clean_sys_msg, MsgTypes
<1> QED BY <1>1, <1>2, <1>3

\* terminate_process_s begins: the type of what it assigns
LEMMA BeginTerminationTInv ==
  ASSUME TInv, Running(SSI), ssi_pc = "serve",
         t_pcb[applicant] \in Proc, terminate_process_s, UNCHANGED <<iovars, asked>>
  PROVE  TInv'
<1> USE TypeOKParts
<1>1. TermTypes'
  BY DEF TInv, terminate_process_s, TermTypes
<1>2. ssi_msg \in RequestMessage
  BY ServedFacts
<1>3. SsiTypes'
  BY <1>2 DEF terminate_process_s, SsiTypes
<1>4. TypeOK'
  BY <1>1, <1>3, Keep DEF TInv, terminate_process_s, mikabooqvars
<1>5. ControlOK'
  BY <1>2, SsiKeepsControl
     DEF TInv, ControlOK, terminate_process_s, iovars, runvars, Running
<1> QED BY <1>4, <1>5 DEF TInv

\* a call through a NULL process pointer
LEMMA WildTInv ==
  ASSUME TInv, Running(SSI), ssi_pc = "serve", WildAccess, UNCHANGED <<iovars, asked>>
  PROVE  TInv'
<1> USE TypeOKParts
<1>1. RunTypes'
  BY DEF TInv, WildAccess, RunTypes
<1>2. TypeOK'
  BY <1>1, Keep DEF TInv, WildAccess, mikabooqvars
<1>3. ControlOK'
  BY ServedFacts, SsiKeepsControl DEF TInv, ControlOK, WildAccess, iovars, ssivars
<1> QED BY <1>2, <1>3 DEF TInv

\* freeing the messages of a thread keeps the types
LEMMA StartTerminatingType ==
  ASSUME TInv, NEW t \in Tcb, NEW msgq, StartTerminating(t, msgq),
         msgq \in [Thread -> Seq(Message)], msgq[SSI] \in Seq(RequestMessage),
         NEW extra \in Nat, message_h' = message_h + Len(msgq[t]) + extra
  PROVE  MsgTypes' /\ victim' \in Tcb
<1> USE TypeOKParts, TcbFacts
<1>1. msgq[t] \in Seq(Message) /\ message_h \in Nat
  BY DEF TInv, MsgTypes
<1>2. Len(msgq[t]) \in Nat
  BY <1>1
<1>3. message_h' \in Nat
  BY <1>1, <1>2
<1>4. t_msgq' \in [Thread -> Seq(Message)]
  BY DEF StartTerminating
<1>5. t_msgq'[SSI] \in Seq(RequestMessage)
  BY DEF StartTerminating
<1> QED BY <1>3, <1>4, <1>5 DEF MsgTypes, StartTerminating

\* the beginning of a termination keeps the invariant
LEMMA ServeTerminationTInv ==
  ASSUME TInv, ServeTerminateProcess \/ terminate_thread_s \/ __setmgr
  PROVE  TInv'
<1> USE TypeOKParts, TcbFacts
<1>0. /\ Running(SSI) /\ ssi_pc = "serve"
      /\ ssi_msg \in RequestMessage /\ applicant \in Tcb /\ request \in Request
      /\ t_pcb[applicant] \in Proc \cup {NULL}
      /\ UNCHANGED <<iovars, asked>>
  <2>1. Running(SSI) /\ ssi_pc = "serve"
    BY DEF ServeTerminateProcess, terminate_thread_s, __setmgr, Serving
  <2> QED BY <2>1, ServedFacts DEF ServeTerminateProcess, terminate_thread_s, __setmgr
<1>1. CASE ServeTerminateProcess
  BY <1>0, <1>1, WildTInv, BeginTerminationTInv DEF ServeTerminateProcess
<1>2. CASE terminate_thread_s
  <2>1. CASE \E p \in Proc : t_pcb[applicant] = p /\ p_threads[p] = <<applicant>>
    BY <1>0, <1>2, <2>1, BeginTerminationTInv DEF terminate_thread_s
  <2>2. CASE ~ \E p \in Proc : t_pcb[applicant] = p /\ p_threads[p] = <<applicant>>
    <3>1. /\ StartTerminating(applicant, t_msgq)
          /\ message_h' = message_h + Len(t_msgq[applicant])
          /\ dying' = <<>>
          /\ ssi_pc' = "terminate"
          /\ UNCHANGED <<links, threadvars, thread_h, p_threads, procvars,
                         runvars, thread_count, ssi_msg, stale>>
      BY <1>2, <2>2 DEF terminate_thread_s
    <3>2. t_msgq \in [Thread -> Seq(Message)] /\ t_msgq[SSI] \in Seq(RequestMessage)
      BY DEF TInv, MsgTypes
    <3>3. Len(t_msgq[applicant]) \in Nat /\ message_h \in Nat
      BY <1>0, <3>2 DEF TInv, MsgTypes
    <3>4. message_h' = message_h + Len(t_msgq[applicant]) + 0
      BY <3>1, <3>3
    <3>5. MsgTypes' /\ victim' \in Tcb
      BY <1>0, <3>1, <3>2, <3>4, StartTerminatingType
    <3>6. TermTypes'
      BY <3>1, <3>5 DEF TInv, TermTypes
    <3>7. SsiTypes'
      BY <1>0, <3>1 DEF SsiTypes
    <3>8. TypeOK'
      BY <1>0, <3>1, <3>5, <3>6, <3>7, Keep DEF TInv
    <3>9. ControlOK'
      BY <1>0, <3>1, SsiKeepsControl DEF TInv, ControlOK, runvars, iovars, Running
    <3> QED BY <3>8, <3>9 DEF TInv
  <2> QED BY <2>1, <2>2
<1>3. CASE __setmgr
  <2> DEFINE p == t_pcb[applicant]
             k == mgr_of[request.tag]
  <2>0. request.tag \in MgrTags
    BY <1>3 DEF __setmgr, Serving
  <2>1. ASSUME Answered, UNCHANGED <<runvars, iovars>>
        PROVE  SsiTypes' /\ ControlOK'
    <3>1. SsiTypes'
      BY <1>0, <2>1 DEF Answered, SsiTypes
    <3>2. ControlOK'
      BY <1>0, <2>1, SsiKeepsControl
         DEF TInv, ControlOK, Answered, runvars, iovars, Running
    <3> QED BY <3>1, <3>2
  <2>2. CASE Answered /\ UNCHANGED <<mikabooqvars, runvars, thread_count, termvars>>
    BY <1>0, <2>1, <2>2, Keep DEF TInv, mikabooqvars
  <2>3. CASE WildAccess
    BY <1>0, <2>3, WildTInv
  <2>4. CASE p # NULL /\ terminate_process_s
    BY <1>0, <2>4, BeginTerminationTInv
  <2>5. CASE /\ request.arg # NULL /\ p # NULL
             /\ mgrs' = [mgrs EXCEPT ![p][k] = request.arg]
             /\ Answered
             /\ UNCHANGED <<links, threadvars, msgvars, thread_h, p_threads, p_parent,
                            p_children, process_h, runvars, thread_count, termvars>>
    <3>1. request.arg \in Thread /\ p \in Proc
      BY <1>0, <2>0, <2>5, RequestFacts
    <3>2. mgrs \in [Proc -> [Mgr -> Thread \cup {NULL}]]
      BY DEF TInv, ProcTypes
    <3> HIDE DEF p, k
    <3>3. mgrs' \in [Proc -> [Mgr -> Thread \cup {NULL}]]
      <4> DEFINE arg == request.arg
      <4>1. arg \in Thread /\ mgrs' = [mgrs EXCEPT ![p][k] = arg]
        BY <2>5, <3>1
      <4> HIDE DEF arg
      <4> QED BY <3>1, <3>2, <4>1
    <3>4. ProcTypes'
      BY <2>5, <3>3 DEF TInv, ProcTypes
    <3> QED BY <1>0, <2>1, <2>5, <3>4, Keep DEF TInv
  <2> QED BY <1>3, <2>2, <2>3, <2>4, <2>5 DEF __setmgr
<1> QED BY <1>1, <1>2, <1>3

\* the turns of the two loops
LEMMA TerminateTInv ==
  ASSUME TInv, PickThread \/ ResumeWaiter \/ FreeVictim \/ PickChild \/ DeleteProcess
  PROVE  TInv'
<1> USE TypeOKParts, TcbFacts
<1>0. /\ Running(SSI) /\ ssi_pc = "terminate" /\ ssi_msg \in RequestMessage
      /\ UNCHANGED <<iovars, runvars>>
      /\ tty # "ready" => soft_blocked_thread # NULL /\ "DO_IO" \in Requests
  <2>1. Terminating /\ UNCHANGED <<iovars, runvars>>
    BY DEF PickThread, ResumeWaiter, FreeVictim, PickChild, DeleteProcess
  <2> QED BY <2>1, ServedFacts DEF TInv, ControlOK, Terminating
<1>1. ASSUME UNCHANGED ssivars \/ Done
      PROVE  ControlOK' /\ SsiTypes'
  <2>1. SsiTypes'
    BY <1>0, <1>1 DEF ssivars, Done, SsiTypes
  <2>2. ControlOK'
    BY <1>0, <1>1, SsiKeepsControl DEF ssivars, Done, iovars, runvars, Running
  <2> QED BY <2>1, <2>2
<1>2. CASE PickThread
  <2> DEFINE t == Head(p_threads[dying_proc])
             spared == Len(dying) = 1 /\ t = applicant
             msgq == IF ~spared /\ t_status[t] = T_STATUS_W4MSG
                     THEN clean_sys_msg(t) ELSE t_msgq
             extra == IF msgq = t_msgq THEN 0 ELSE 1
  <2>1. dying_proc \in Proc
    BY <1>2, FrontLastType DEF TInv, TermTypes, PickThread, dying_proc
  <2>2. t \in Tcb
    BY <1>2, <2>1, HeadTailType DEF TInv, ListTypes, PickThread
  <2>3. /\ msgq \in [Thread -> Seq(Message)]
        /\ msgq[SSI] \in Seq(RequestMessage)
    BY CleanType DEF TInv, MsgTypes
  <2>4. /\ StartTerminating(t, msgq)
        /\ message_h' = message_h + Len(msgq[t]) + extra
    BY <1>2 DEF PickThread
  <2>5. extra \in Nat
    OBVIOUS
  <2> HIDE DEF t, msgq, extra
  <2>6. MsgTypes' /\ victim' \in Tcb
    BY <2>2, <2>3, <2>4, <2>5, StartTerminatingType
  <2>7. TermTypes'
    BY <1>2, <2>6 DEF TInv, PickThread, TermTypes
  <2> QED BY <1>1, <1>2, <2>6, <2>7, Keep DEF TInv, PickThread
<1>3. CASE ResumeWaiter
  <2>1. PICK t \in Tcb : resume_thread(t)
    BY <1>3 DEF ResumeWaiter
  <2>2. ThreadTypes'
    BY <2>1, ResumeType DEF TInv
  <2> QED BY <1>1, <1>3, <2>2, Keep DEF TInv, ResumeWaiter
<1>4. CASE FreeVictim
  <2>1. victim \in Tcb
    BY <1>4 DEF TInv, TermTypes, FreeVictim
  <2>2. ThreadTypes' /\ ListTypes'
    BY <1>4, <2>1, ThreadFreeType DEF TInv, FreeVictim
  <2>3. RunTypes'
    BY <1>4, <2>1 DEF TInv, FreeVictim, RunTypes, runvars
  <2>4. stale' \in BOOLEAN
    BY <1>4 DEF FreeVictim
  <2>5. TermTypes'
    BY <1>4, <2>4 DEF TInv, FreeVictim, TermTypes
  <2> QED BY <1>1, <1>4, <2>2, <2>3, <2>5, Keep DEF TInv, FreeVictim
<1>5. CASE PickChild
  <2>1. dying_proc \in Proc /\ dying \in Seq(Proc)
    BY <1>5, FrontLastType DEF TInv, TermTypes, PickChild, dying_proc
  <2>2. Head(p_children[dying_proc]) \in Proc
    BY <1>5, <2>1, HeadTailType DEF TInv, ProcTypes, PickChild
  <2>3. dying' \in Seq(Proc)
    BY <1>5, <2>1, <2>2 DEF PickChild
  <2>4. TermTypes'
    BY <1>5, <2>3 DEF TInv, PickChild, TermTypes
  <2> QED BY <1>1, <1>5, <2>4, Keep DEF TInv, PickChild, mikabooqvars
<1>6. CASE DeleteProcess
  <2>1. dying_proc \in Proc /\ Front(dying) \in Seq(Proc)
    BY <1>6, FrontLastType DEF TInv, TermTypes, DeleteProcess, dying_proc
  <2>2. ProcTypes'
    BY <1>6, <2>1, ProcDeleteType DEF TInv, DeleteProcess
  <2>3. TermTypes'
    BY <1>6, <2>1 DEF TInv, DeleteProcess, TermTypes
  <2> QED BY <1>1, <1>6, <2>2, <2>3, Keep DEF TInv, DeleteProcess
<1> QED BY <1>2, <1>3, <1>4, <1>5, <1>6

\* every step of the kernel keeps the invariant
LEMMA TInvStep == TInv /\ [Next]_vars => TInv'
<1> SUFFICES ASSUME TInv, [Next]_vars PROVE TInv'
  OBVIOUS
<1>1. CASE (Boot \/ Scheduler \/ Interrupt) /\ UNCHANGED termvars
  BY <1>1, BootTInv, SchedulerTInv, InterruptTInv
<1>2. CASE (\E t \in Tcb : Program(t)) /\ UNCHANGED termvars
  BY <1>2, ProgramTInv
<1>3. CASE Service
  BY <1>3, SsiReceiveTInv, SsiReplyTInv, AnswerTInv, ServeTerminationTInv,
     TerminateTInv DEF Service
<1>4. CASE Stopped \/ UNCHANGED vars
  <2>1. UNCHANGED vars
    BY <1>4 DEF Stopped
  <2>2. UNCHANGED <<mikabooqvars, runvars, thread_count, iovars, asked, ssivars, termvars>>
    BY <2>1 DEF vars, nucleusvars
  <2>3. TypeOK'
    BY <2>2, TypeOKParts, Keep DEF TInv, mikabooqvars
  <2>4. ControlOK'
    BY <2>2 DEF TInv, ControlOK, Live, only_the_SSI_is_left, mikabooqvars,
       threadvars, runvars, iovars, ssivars
  <2> QED BY <2>3, <2>4 DEF TInv
<1> QED BY <1>1, <1>2, <1>3, <1>4 DEF Next

\* TypeOK and ControlOK hold in every reachable state: where the processor
\* is (scheduler.c), what the SSI serves (ssi.c) and what the terminal waits for
\* (do_io.c) always agree
THEOREM InvariantTInv == Spec => []TInv
  BY TInvInit, TInvStep, PTL DEF Spec

(* Every variable of the kernel keeps its type: in particular the SSI never  *)
(* holds anything but a request of a program (ssi.c), counters such as       *)
(* message_h never go below zero (msgq_add, msg_free), and no pointer of a   *)
(* scheduling list leads outside the list heads of the kernel.               *)
THEOREM TypeCorrect == Spec => []TypeOK
  BY InvariantTInv, PTL DEF TInv

(* Where the processor is and what the kernel then works on always agree:    *)
(* the processor idles only with an empty ready queue and a command pending  *)
(* (empty_readyq_h), and while the terminal works or interrupts there is a   *)
(* thread that acknowledge can answer (do_io_s).                             *)
THEOREM ControlIsSound == Spec => []ControlOK
  BY InvariantTInv, PTL DEF TInv
=============================================================================
