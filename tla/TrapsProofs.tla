---------------------------- MODULE TrapsProofs -----------------------------
(***************************************************************************)
(* The kernel with programs that trap: its types, its message descriptors, *)
(* its wake-ups, its managers, its process tree, its lists, its requests   *)
(* and its end, for every value of the constants.  A step of the kernel    *)
(* proper is one the earlier modules prove about; what is left are the     *)
(* steps of the trap handlers.                                             *)
(***************************************************************************)
EXTENDS Traps, KernelRequestProofs

-----------------------------------------------------------------------------
(* Types.  What send, called by a handler, is given: a thread that trapped   *)
(* and a manager that a SET...MGR request named.                             *)

MgrsAreTcbs == \A p \in Proc, k \in Mgr : mgrs[p][k] \in Tcb \cup {NULL}
InHandler   == kpc \in {"passup", "handler"}

TrapTInv == /\ TInv /\ trapped \in [Tcb -> Fate] /\ MgrsAreTcbs
            /\ InHandler => current_thread \in Tcb

\* while a handler runs, and when one starts, the kernel proper is not running
LEMMA KernelOutsideHandlers == Next => ~InHandler /\ ~InHandler'
<1> SUFFICES ASSUME Next PROVE ~InHandler /\ ~InHandler'
  OBVIOUS
<1> USE DEF InHandler
<1>1. CASE Boot
  BY <1>1 DEF Boot, LoadSSI, LoadThread, runvars
<1>2. CASE Scheduler
  BY <1>2 DEF Scheduler, Dispatch, empty_readyq_h
<1>3. CASE Interrupt
  BY <1>3 DEF Interrupt, interval_timer_h, TerminalDone, acknowledge,
     InterruptsEnabled, runvars
<1>4. ASSUME NEW t \in Tcb, Program(t) PROVE ~InHandler /\ ~InHandler'
  BY <1>4 DEF Program, Send, Recv, Ask, AwaitReply, recv_blocks, recv_takes, Running, runvars
<1>5. CASE SsiReceive \/ SsiReply
  BY <1>5 DEF SsiReceive, SsiReply, recv_blocks, recv_takes, Running, runvars
<1>6. CASE ServeGet \/ create_thread_s \/ create_process_s \/ do_io_s
  BY <1>6 DEF ServeGet, create_thread_s, create_process_s, do_io_s, Serving, Running, runvars
<1>7. CASE ServeTerminateProcess \/ terminate_thread_s \/ __setmgr
  BY <1>7 DEF ServeTerminateProcess, terminate_thread_s, __setmgr, terminate_process_s,
     WildAccess, Serving, Running, runvars
<1>8. CASE PickThread \/ ResumeWaiter \/ FreeVictim \/ PickChild \/ DeleteProcess
  BY <1>8 DEF PickThread, ResumeWaiter, FreeVictim, PickChild, DeleteProcess,
     Terminating, Running, runvars
<1>9. CASE Stopped
  BY <1>9 DEF Stopped, Halted, vars, nucleusvars, runvars
<1> QED BY <1>1, <1>2, <1>3, <1>4, <1>5, <1>6, <1>7, <1>8, <1>9 DEF Next, Service

\* the kernel registers as a manager only what a request names
LEMMA KernelKeepsMgrs == TInv /\ MgrsAreTcbs /\ [Next]_vars => MgrsAreTcbs'
<1> SUFFICES ASSUME TInv, MgrsAreTcbs, [Next]_vars PROVE MgrsAreTcbs'
  OBVIOUS
<1> USE TypeOKParts, TcbFacts DEF TInv
<1>1. CASE UNCHANGED mgrs
  BY <1>1 DEF MgrsAreTcbs
<1>2. ASSUME NEW p \in Proc, mgrs' = clean_mgr(p) PROVE MgrsAreTcbs'
  BY <1>2 DEF MgrsAreTcbs, clean_mgr, ProcTypes
<1>3. CASE create_process_s
  <2>1. CASE process_h # <<>> /\ proc_alloc_and_delete
    <3>1. Head(process_h) \in Proc
      BY <2>1 DEF ProcTypes
    <3> QED BY <1>2, <2>1, <3>1 DEF proc_alloc_and_delete
  <2>2. CASE UNCHANGED mgrs
    BY <1>1, <2>2
  <2> QED BY <1>3, <2>1, <2>2 DEF create_process_s, proc_alloc, proc_alloc_fails, procvars
<1>4. CASE __setmgr
  <2> DEFINE p == t_pcb[applicant]
             k == mgr_of[request.tag]
  <2>1. \/ UNCHANGED mgrs
        \/ p # NULL /\ request.arg # NULL /\ mgrs' = [mgrs EXCEPT ![p][k] = request.arg]
    BY <1>4 DEF __setmgr, WildAccess, terminate_process_s, mikabooqvars, procvars
  <2>2. applicant \in Thread /\ request \in Request /\ request.tag \in MgrTags
    BY <1>4, ServedFacts DEF __setmgr, Serving
  <2>3. request.arg \in Tcb \cup {NULL}
    <3>1. request.tag \notin PlainTags \cup {"DO_IO"}
      BY <2>2 DEF MgrTags, PlainTags, GetTags
    <3> QED BY <2>2, <3>1 DEF Request
  <2>4. p # NULL => p \in Proc
    BY <2>2 DEF ThreadTypes
  <2> HIDE DEF p, k
  <2>5. CASE p # NULL /\ mgrs' = [mgrs EXCEPT ![p][k] = request.arg]
    BY <2>3, <2>4, <2>5 DEF MgrsAreTcbs, ProcTypes
  <2> QED BY <1>1, <2>1, <2>5
<1>5. CASE DeleteProcess
  <2>1. dying_proc \in Proc /\ proc_delete(dying_proc)
    BY <1>5, FrontLastElements DEF DeleteProcess, TermTypes, dying_proc
  <2> QED BY <1>1, <1>2, <2>1 DEF proc_delete, procvars
<1>6. \/ create_process_s \/ __setmgr \/ DeleteProcess
      \/ UNCHANGED procvars
  BY DEF Next, Boot, LoadSSI, LoadThread, Scheduler, Dispatch, empty_readyq_h, Interrupt,
     interval_timer_h, TerminalDone, acknowledge, Program, Send, Recv, Ask, AwaitReply,
     Service, SsiReceive, SsiReply, ServeGet, create_thread_s, do_io_s,
     ServeTerminateProcess, WildAccess, terminate_process_s, terminate_thread_s,
     PickThread, ResumeWaiter, FreeVictim, PickChild, Stopped, vars, nucleusvars,
     mikabooqvars
<1> QED BY <1>1, <1>3, <1>4, <1>5, <1>6 DEF procvars

\* what a trap does, whichever it is
Stubs == {"TERMINATE_PROCESS", "TERMINATE_THREAD"}
PassesUp(t, mgr, payload) ==
  Running(t) /\ asked[t] = NULL /\ PassUp(t, mgr, payload)
Asks(t, tag) == Running(t) /\ asked[t] = NULL /\ HandlerAsk(t, tag)

LEMMA TrapCases ==
  ASSUME TrapTInv, Trap
  PROVE  \/ \E t \in Tcb, mgr \in Tcb, payload \in {"t_s", "args"} :
              PassesUp(t, mgr, payload)
         \/ \E t \in Tcb, tag \in Stubs : Asks(t, tag)
<1> USE TypeOKParts DEF TrapTInv, TInv
<1>1. PICK t \in Tcb : syscall_other(t) \/ \E k \in {"pgm_mgr", "tlb_mgr"} : __trap_h(t, k)
  BY DEF Trap
<1>2. Running(t) /\ asked[t] = NULL /\ t_pcb[t] \in Proc
  BY <1>1, TcbFacts DEF syscall_other, __trap_h, Traps, ThreadTypes
<1>3. \A k \in Mgr : mgr_for(t, k) # NULL => mgr_for(t, k) \in Tcb
  BY <1>2 DEF mgr_for, MgrsAreTcbs
<1>4. CASE syscall_other(t)
  BY <1>2, <1>3, <1>4 DEF syscall_other, PassesUp, Asks, Mgr, Stubs
<1>5. CASE \E k \in {"pgm_mgr", "tlb_mgr"} : __trap_h(t, k)
  BY <1>2, <1>3, <1>5 DEF __trap_h, PassesUp, Asks, Mgr, Stubs
<1> QED BY <1>1, <1>4, <1>5

\* the request a handler sends is one the SSI knows
LEMMA StubIsRequest ==
  ASSUME NEW tag \in Stubs, tag \in Requests
  PROVE  [tag |-> tag, arg |-> NULL] \in Request
  BY DEF Request, Stubs, PlainTags

\* a handler that leaves everything but the lists, the messages and the
\* processor alone keeps where the processor is
LEMMA HandlerControl ==
  ASSUME ControlOK, kpc \in {"thread", "passup", "handler"},
         kpc' \in {"passup", "handler", "scheduler", "panic_ssi", "panic"},
         UNCHANGED <<thread_count, iovars>>,
         ssi_pc' # "recv" => ssi_msg' \in RequestMessage
  PROVE  ControlOK'
  BY DEF ControlOK, iovars

\* the handler's send to the manager
LEMMA PassUpTypes ==
  ASSUME TrapTInv, NEW t \in Tcb, NEW mgr \in Tcb, NEW payload \in {"t_s", "args"},
         PassesUp(t, mgr, payload)
  PROVE  TrapTInv'
<1> USE TypeOKParts, TcbFacts DEF TrapTInv, TInv, PassesUp, PassUp
<1>1. [passup |-> payload] \in Payload
  BY DEF Payload, Passup
<1>2. ThreadTypes' /\ MsgTypes'
  BY <1>1, SendType
<1>3. ProcTypes' /\ ListTypes' /\ IOTypes' /\ SsiTypes' /\ TermTypes' /\ MgrsAreTcbs'
  BY Keep DEF MgrsAreTcbs, procvars
<1>4. RunTypes'
  BY DEF RunTypes
<1>5. ControlOK'
  <2>1. ssi_pc' # "recv" => ssi_msg' \in RequestMessage
    BY DEF ControlOK, ssivars
  <2> QED BY <2>1, HandlerControl DEF Running
<1>6. trapped' \in [Tcb -> Fate] /\ current_thread' \in Tcb
  BY DEF Fate, Running
<1> QED BY <1>2, <1>3, <1>4, <1>5, <1>6

\* the handler's request
LEMMA AskTypes ==
  ASSUME TrapTInv, NEW t \in Tcb, NEW tag \in Stubs, Asks(t, tag)
  PROVE  TrapTInv'
<1> USE TypeOKParts, TcbFacts DEF TrapTInv, TInv, Asks, HandlerAsk
<1> DEFINE req == [tag |-> tag, arg |-> NULL]
<1>1. req \in Request /\ req \in Payload
  BY StubIsRequest, RequestFacts
<1>2. /\ send(SSI, t, req) /\ SsiReturns(t, req)
      /\ asked' = [asked EXCEPT ![t] = req]
  OBVIOUS
<1> HIDE DEF req
<1>3. ThreadTypes' /\ MsgTypes'
  BY <1>1, <1>2, SendType
<1>4. ProcTypes' /\ ListTypes' /\ IOTypes' /\ TermTypes' /\ MgrsAreTcbs'
  BY Keep DEF MgrsAreTcbs, procvars
<1>5. RunTypes'
  BY <1>1, <1>2 DEF RunTypes
<1>6. SsiTypes' /\ (ssi_pc' # "recv" => ssi_msg' \in RequestMessage)
  <2>1. CASE UNCHANGED ssivars
    BY <2>1 DEF SsiTypes, ssivars, ControlOK
  <2>2. CASE ssi_pc' = "serve" /\ ssi_msg' = [m_sender |-> t, m_value |-> req]
    BY <1>1, <2>2 DEF SsiTypes, RequestMessage
  <2> QED BY <1>2, <2>1, <2>2 DEF SsiReturns
<1>7. ControlOK'
  BY <1>6, HandlerControl DEF Running
<1>8. trapped' \in [Tcb -> Fate] /\ current_thread' \in Tcb
  BY DEF Fate, Running
<1> QED BY <1>3, <1>4, <1>5, <1>6, <1>7, <1>8

\* the handler blocks the thread or goes on, the SSI finds another request
LEMMA HandlerTypes ==
  ASSUME TrapTInv, Handler \/ Overwritten
  PROVE  TrapTInv'
<1> USE TypeOKParts, TcbFacts DEF TrapTInv, TInv
<1>1. CASE Block
  <2>1. ProcTypes' /\ ListTypes' /\ IOTypes' /\ SsiTypes' /\ TermTypes' /\ MsgTypes'
    BY <1>1, Keep DEF Block
  <2>2. ThreadTypes'
    <3>1. current_thread \in Thread /\ links \in Memory(Cell)
      BY <1>1 DEF Block, InHandler, ThreadTypes
    <3>2. links' \in Memory(Cell)
      BY <1>1, <3>1, EnqueueType DEF Block
    <3> QED BY <1>1, <3>2 DEF Block, ThreadTypes, threadvars
  <2>3. RunTypes' /\ MgrsAreTcbs' /\ trapped' \in [Tcb -> Fate] /\ ~InHandler'
    BY <1>1 DEF Block, RunTypes, MgrsAreTcbs, procvars, InHandler
  <2>4. ControlOK'
    BY <1>1, HandlerControl DEF Block, ControlOK, ssivars
  <2> QED BY <2>1, <2>2, <2>3, <2>4
<1>2. CASE HandlerAwait
  <2>1. ProcTypes' /\ ListTypes' /\ IOTypes' /\ SsiTypes' /\ TermTypes'
    BY <1>2, Keep DEF HandlerAwait
  <2>2. ThreadTypes' /\ MsgTypes' /\ kpc' = "scheduler" /\ UNCHANGED current_thread
    <3>1. current_thread \in Thread /\ recv_blocks(current_thread, SSI)
      BY <1>2 DEF HandlerAwait, InHandler
    <3> QED BY <3>1, RecvBlocksType
  <2>3. RunTypes' /\ MgrsAreTcbs' /\ trapped' \in [Tcb -> Fate] /\ ~InHandler'
    BY <1>2, <2>2 DEF HandlerAwait, RunTypes, MgrsAreTcbs, procvars, InHandler
  <2>4. ControlOK'
    BY <1>2, <2>2, HandlerControl DEF HandlerAwait, ControlOK, ssivars
  <2> QED BY <2>1, <2>2, <2>3, <2>4
<1>3. CASE UnknownRequest
  <2>1. /\ ThreadTypes' /\ MsgTypes' /\ ProcTypes' /\ ListTypes' /\ IOTypes'
        /\ SsiTypes' /\ TermTypes'
    BY <1>3, Keep DEF UnknownRequest, mikabooqvars
  <2>2. RunTypes' /\ MgrsAreTcbs' /\ trapped' \in [Tcb -> Fate] /\ ~InHandler'
    BY <1>3 DEF UnknownRequest, RunTypes, MgrsAreTcbs, mikabooqvars, procvars, InHandler
  <2>3. ControlOK'
    BY <1>3, HandlerControl DEF UnknownRequest, ControlOK, ssivars, Running
  <2> QED BY <2>1, <2>2, <2>3
<1>4. CASE HandlerReturns
  <2>1. /\ ThreadTypes' /\ MsgTypes' /\ ProcTypes' /\ ListTypes' /\ IOTypes'
        /\ SsiTypes' /\ TermTypes'
    BY <1>4, Keep DEF HandlerReturns, mikabooqvars
  <2>2. RunTypes' /\ MgrsAreTcbs' /\ trapped' \in [Tcb -> Fate] /\ ~InHandler'
    BY <1>4 DEF HandlerReturns, RunTypes, MgrsAreTcbs, mikabooqvars, procvars, InHandler
  <2>3. ControlOK'
    BY <1>4, HandlerControl DEF HandlerReturns, HandlerResumed, ControlOK, ssivars
  <2> QED BY <2>1, <2>2, <2>3
<1>5. CASE OtherRequest
  <2>1. PICK req \in Request :
          /\ ssi_msg' = [ssi_msg EXCEPT !.m_value = req]
          /\ asked' = [asked EXCEPT ![applicant] = req]
    BY <1>5 DEF OtherRequest
  <2>2. applicant \in Tcb /\ ssi_msg \in RequestMessage
    BY <1>5, ServedFacts DEF OtherRequest
  <2>3. ssi_msg' \in RequestMessage
    BY <2>1, <2>2 DEF RequestMessage
  <2>4. /\ ThreadTypes' /\ MsgTypes' /\ ProcTypes' /\ ListTypes' /\ IOTypes' /\ TermTypes'
    BY <1>5, Keep DEF OtherRequest, mikabooqvars
  <2>5. SsiTypes' /\ RunTypes'
    BY <1>5, <2>1, <2>2, <2>3 DEF OtherRequest, SsiTypes, RunTypes, runvars
  <2>6. MgrsAreTcbs' /\ trapped' \in [Tcb -> Fate] /\ ~InHandler'
    BY <1>5 DEF OtherRequest, Running, Fate, MgrsAreTcbs, mikabooqvars, procvars, runvars,
       InHandler
  <2>7. ControlOK'
    BY <1>5, <2>3 DEF OtherRequest, ControlOK, mikabooqvars, threadvars, runvars, iovars,
       Running, Live, only_the_SSI_is_left
  <2> QED BY <2>4, <2>5, <2>6, <2>7
<1> QED BY <1>1, <1>2, <1>3, <1>4, <1>5 DEF Handler, Overwritten

\* the steps of the kernel and of the handlers
LEMMA TrapTStep == TrapTInv /\ [TrapNext]_trapvars => TrapTInv'
<1> SUFFICES ASSUME TrapTInv, [TrapNext]_trapvars PROVE TrapTInv'
  OBVIOUS
<1>1. CASE (Next /\ ForgetTheDead) \/ UNCHANGED trapvars
  <2>1. TInv /\ [Next]_vars /\ MgrsAreTcbs
    BY <1>1 DEF trapvars, TrapTInv
  <2>2. TInv' /\ MgrsAreTcbs'
    BY <2>1, TInvStep, KernelKeepsMgrs
  <2>3. trapped' \in [Tcb -> Fate]
    BY <1>1 DEF ForgetTheDead, trapvars, TrapTInv, Fate
  <2>4. InHandler' => current_thread' \in Tcb
    BY <1>1, KernelOutsideHandlers DEF trapvars, vars, nucleusvars, runvars, InHandler, TrapTInv
  <2> QED BY <2>2, <2>3, <2>4 DEF TrapTInv
<1>2. CASE Trap
  BY <1>2, TrapCases, PassUpTypes, AskTypes
<1>3. CASE Handler \/ Overwritten
  BY <1>3, HandlerTypes
<1> QED BY <1>1, <1>2, <1>3 DEF TrapNext

LEMMA TrapTInit == TrapInit => TrapTInv
<1> SUFFICES ASSUME TrapInit PROVE TrapTInv
  OBVIOUS
<1>1. TInv
  BY TInvInit DEF TrapInit
<1>2. MgrsAreTcbs /\ ~InHandler
  BY DEF TrapInit, Init, InitServices, InitNucleus, InitMikabooq, proc_init,
     MgrsAreTcbs, InHandler
<1>3. trapped \in [Tcb -> Fate]
  BY DEF TrapInit, Fate
<1> QED BY <1>1, <1>2, <1>3 DEF TrapTInv

LEMMA InvariantTrapTInv == TrapSpec => []TrapTInv
  BY TrapTInit, TrapTStep, PTL DEF TrapSpec

(* Whatever traps, and whoever is terminated while its manager has not       *)
(* answered, every variable keeps its type: a handler sends only to a thread *)
(* descriptor that a SET...MGR request named, in the name of the thread that *)
(* trapped, and the SSI is sent nothing but requests (trap.c, syscall.c).    *)
THEOREM TrapsKeepTypes == TrapSpec => []TrapTypeOK
<1>1. TrapTInv => TrapTypeOK
  BY DEF TrapTInv, TInv, TrapTypeOK
<1> QED BY <1>1, InvariantTrapTInv, PTL

-----------------------------------------------------------------------------
(* The steps of the handlers, as the kernel's properties see them.           *)

\* one sends, ...
HandlerSends ==
  /\ kpc = "thread" /\ kpc' # "boot"
  /\ \E t \in Tcb, dest \in Thread, value \in Payload : send(dest, t, value)
\* ... or receives, ...
HandlerReceives ==
  /\ kpc # "boot" /\ kpc' # "boot"
  /\ \E t \in Tcb : kpc = "handler" /\ t = current_thread /\ recv_blocks(t, SSI)
\* ... or sends and receives nothing
HandlerIsQuiet ==
  /\ kpc # "boot" /\ kpc' # "boot"
  /\ UNCHANGED <<threadvars, msgvars>>

\* none of them changes the tree of processes, or happens while the SSI does
LEMMA HandlerSteps ==
  ASSUME TrapTInv, Trap \/ Handler \/ Overwritten
  PROVE  /\ HandlerSends \/ HandlerReceives \/ HandlerIsQuiet
         /\ UNCHANGED <<t_pcb, thread_h, p_threads, procvars, termvars, thread_count>>
         /\ TermShape => ssi_pc # "terminate" /\ ssi_pc' # "terminate"
         /\ kpc' \in {"passup", "handler", "scheduler", "thread", "panic_ssi", "panic"}
<1> USE TypeOKParts, TcbFacts DEF TrapTInv, TInv
<1>1. \A dest, sender, value : send(dest, sender, value) => UNCHANGED t_pcb
  BY DEF send, resume_thread, threadvars
<1>2. CASE \E t \in Tcb, mgr \in Tcb, payload \in {"t_s", "args"} : PassesUp(t, mgr, payload)
  <2>1. PICK t \in Tcb, mgr \in Tcb, payload \in {"t_s", "args"} : PassesUp(t, mgr, payload)
    BY <1>2
  <2>2. [passup |-> payload] \in Payload
    BY DEF Payload, Passup
  <2>3. HandlerSends
    BY <2>1, <2>2 DEF PassesUp, PassUp, HandlerSends, Running
  <2> QED
    BY <1>1, <2>1, <2>3 DEF PassesUp, PassUp, Running, TermShape, ssivars, termvars
<1>3. CASE \E t \in Tcb, tag \in Stubs : Asks(t, tag)
  <2>1. PICK t \in Tcb, tag \in Stubs : Asks(t, tag)
    BY <1>3
  <2>2. [tag |-> tag, arg |-> NULL] \in Payload
    BY <2>1, StubIsRequest, RequestFacts DEF Asks, HandlerAsk
  <2>3. HandlerSends
    BY <2>1, <2>2 DEF Asks, HandlerAsk, HandlerSends, Running
  <2>4. ssi_pc' \in {ssi_pc, "serve"}
    BY <2>1 DEF Asks, HandlerAsk, SsiReturns, ssivars
  <2>5. t_pcb' = t_pcb
    BY <1>1, <2>1 DEF Asks, HandlerAsk
  <2> QED
    BY <2>1, <2>3, <2>4, <2>5 DEF Asks, HandlerAsk, Running, TermShape, termvars
<1>4. CASE Block
  BY <1>4 DEF Block, HandlerIsQuiet, threadvars, termvars, ssivars, TermShape, Running
<1>5. CASE HandlerAwait
  BY <1>5 DEF HandlerAwait, HandlerReceives, InHandler, recv_blocks, ssivars, TermShape,
     Running
<1>6. CASE UnknownRequest
  BY <1>6 DEF UnknownRequest, HandlerIsQuiet, mikabooqvars, threadvars, ssivars,
     Running, procvars
<1>7. CASE OtherRequest
  BY <1>7 DEF OtherRequest, HandlerIsQuiet, mikabooqvars, threadvars, runvars,
     Running, procvars, TermShape
<1>8. CASE HandlerReturns
  <2>1. current_thread \in Tcb
    BY <1>8 DEF HandlerReturns, HandlerResumed
  <2> QED
    BY <1>8, <2>1 DEF HandlerReturns, HandlerResumed, HandlerIsQuiet, mikabooqvars,
       threadvars, ssivars, procvars, TermShape, Running
<1> QED BY <1>2, <1>3, <1>4, <1>5, <1>6, <1>7, <1>8, TrapCases DEF Handler, Overwritten

\* no step loses a wake-up
LEMMA TrapWakeStep == TrapTInv /\ NoLostWakeup /\ [TrapNext]_trapvars => NoLostWakeup'
<1> SUFFICES ASSUME TrapTInv, NoLostWakeup, [TrapNext]_trapvars PROVE NoLostWakeup'
  OBVIOUS
<1>1. TInv /\ TypeOK
  BY DEF TrapTInv, TInv
<1>2. CASE [Next]_vars
  BY <1>1, <1>2, NoLostWakeupStep
<1>3. CASE HandlerSends
  BY <1>1, <1>3, TcbFacts, SendKeepsWaits DEF HandlerSends
<1>4. CASE HandlerReceives
  BY <1>1, <1>4, TcbFacts, RecvKeepsWaits DEF HandlerReceives
<1>5. CASE HandlerIsQuiet
  BY <1>1, <1>5, QuietKeepsWaits DEF HandlerIsQuiet, NoNewWait, threadvars, msgvars
<1> QED BY <1>2, <1>3, <1>4, <1>5, HandlerSteps DEF TrapNext, trapvars

LEMMA TrapWakeInit == TrapInit => NoLostWakeup
  BY DEF TrapInit, Init, InitServices, InitNucleus, InitMikabooq, thread_init,
     NoLostWakeup, T_STATUS_NONE, T_STATUS_W4MSG

(* A thread that waits for a message has none that its recv would take, also *)
(* when it is a manager that a trap handler sends to, or the SSI that one    *)
(* asks to terminate the thread that trapped (send and recv, called from     *)
(* trap.c and syscall_other).                                                *)
THEOREM TrapsLoseNoWakeup == TrapSpec => []NoLostWakeup
  BY TrapWakeStep, TrapWakeInit, InvariantTrapTInv, PTL DEF TrapSpec

\* no step loses a message descriptor
LEMMA TrapMsgStep == TrapTInv /\ TrapTInv' /\ MsgInv /\ [TrapNext]_trapvars => MsgInv'
<1> SUFFICES ASSUME TrapTInv, TrapTInv', MsgInv, [TrapNext]_trapvars PROVE MsgInv'
  OBVIOUS
<1>1. TInv /\ TInv' /\ TypeOK /\ TypeOK'
  BY DEF TrapTInv, TInv
<1>2. CASE [Next]_vars
  BY <1>1, <1>2, MsgStep
<1>3. CASE HandlerSends
  BY <1>1, <1>3, SendConserves DEF HandlerSends
<1>4. CASE HandlerReceives
  BY <1>1, <1>4, TcbFacts, RecvConserves DEF HandlerReceives
<1>5. CASE HandlerIsQuiet
  <2>1. LivesOrEmpty /\ UNCHANGED msgvars
    BY <1>5 DEF HandlerIsQuiet, LivesOrEmpty, Live, threadvars
  <2> QED BY <2>1, QuietConserves
<1> QED BY <1>2, <1>3, <1>4, <1>5, HandlerSteps DEF TrapNext, trapvars

LEMMA MsgInvConserves == MsgInv => MessagesConserved
<1>1. Slots(t_msgq) = Queued
  BY DEF Slots, Queued
<1> QED BY <1>1 DEF MsgInv, Conserved, DeadHoldNothing, MessagesConserved

(* No message descriptor is lost or freed twice, and none is held by a free  *)
(* thread descriptor, whatever is passed up, to whichever manager, alive or  *)
(* dead, and whatever is terminated meanwhile (trap.c ignores the result of  *)
(* its send).                                                                *)
THEOREM TrapsConserveMessages == TrapSpec => []MessagesConserved
<1>1. TrapInit => MsgInv
  BY MsgInit DEF TrapInit
<1> QED BY <1>1, TrapMsgStep, MsgInvConserves, InvariantTrapTInv, PTL DEF TrapSpec

\* no handler changes the tree of processes, which the kernel keeps
LEMMA TrapTreeStep == TrapTInv /\ TreeInv /\ [TrapNext]_trapvars => TreeInv'
<1> SUFFICES ASSUME TrapTInv, TreeInv, [TrapNext]_trapvars PROVE TreeInv'
  OBVIOUS
<1>1. CASE [Next]_vars
  BY <1>1, TreeStep DEF TrapTInv
<1>2. CASE Trap \/ Handler \/ Overwritten
  <2>1. UNCHANGED treevars /\ UNCHANGED <<dying, victim>>
    BY <1>2, HandlerSteps DEF treevars, procvars, termvars
  <2>2. ssi_pc # "terminate" /\ ssi_pc' # "terminate"
    BY <1>2, HandlerSteps DEF TreeInv
  <2> QED BY <2>1, <2>2, QuietTree
<1> QED BY <1>1, <1>2 DEF TrapNext, trapvars

LEMMA InvariantTrapTree == TrapSpec => []TreeInv
<1>1. TrapInit => TreeInv
  BY TreeInit DEF TrapInit
<1> QED BY <1>1, TrapTreeStep, InvariantTrapTInv, PTL DEF TrapSpec

\* nor does a handler write a manager
LEMMA TrapManagersStep ==
  TrapTInv /\ TreeInv /\ FreeProcessHasNoManager /\ [TrapNext]_trapvars
    => FreeProcessHasNoManager' /\ ManagersStay
<1> SUFFICES ASSUME TrapTInv, TreeInv, FreeProcessHasNoManager, [TrapNext]_trapvars
             PROVE  FreeProcessHasNoManager' /\ ManagersStay
  OBVIOUS
<1>1. CASE [Next]_vars
  BY <1>1, ManagersStep DEF TrapTInv
<1>2. CASE Trap \/ Handler \/ Overwritten
  <2>1. UNCHANGED procvars
    BY <1>2, HandlerSteps
  <2> QED BY <2>1, QuietManagers DEF procvars, Allocated
<1> QED BY <1>1, <1>2 DEF TrapNext, trapvars

LEMMA TrapManagersInit == TrapInit => FreeProcessHasNoManager
  BY DEF TrapInit, Init, InitServices, InitNucleus, InitMikabooq, proc_init,
     FreeProcessHasNoManager

(* Neither a trap nor the termination of who registered it replaces the      *)
(* manager of a process, and no process starts with one: the handlers read   *)
(* mgrs and never write it (trap.c against __setmgr and clean_mgr).          *)
THEOREM TrapsFindFixedManagers == TrapSpec => []FreeProcessHasNoManager /\ ManagersFixed
<1>1. TrapTInv /\ TreeInv /\ FreeProcessHasNoManager /\ [TrapNext]_trapvars
        => [\A p \in Proc, k \in Mgr :
              mgrs[p][k] # NULL => mgrs'[p][k] = mgrs[p][k] \/ ~Allocated(p)']_vars
  BY TrapManagersStep DEF ManagersStay
<1> QED
  BY <1>1, TrapManagersInit, TrapManagersStep, InvariantTrapTInv, InvariantTrapTree, PTL
     DEF TrapSpec, ManagersFixed

-----------------------------------------------------------------------------
(* The scheduling lists.  A handler parks on blockedq the thread whose trap  *)
(* it has passed up, which leaves the processor then and never runs again.   *)

\* P are the threads that a handler has parked
ParkedAre(P) ==
  \A t \in Tcb : t \in P <=> PassedUp(t) /\ ~(kpc = "passup" /\ t = current_thread)

\* a handler runs in the name of a ready thread
HandlerReady ==
  InHandler => /\ t_status[current_thread] = T_STATUS_READY
               /\ kpc = "passup" => PassedUp(current_thread) /\ asked[current_thread] = NULL

TrapLinked == HandlerReady /\ \E P \in SUBSET Tcb : ParkedAre(P) /\ LinkedWith(P)

\* the kernel proper leaves a thread parked until it terminates it
LEMMA KernelTrapLinked ==
  ASSUME TInv, TInv', NEW P \in SUBSET Tcb, ParkedAre(P), LinkedWith(P), ~stale',
         (Next /\ ForgetTheDead) \/ UNCHANGED trapvars, HandlerReady
  PROVE  TrapLinked'
<1>1. [Next]_vars
  BY DEF trapvars
<1>2. PICK Q \in SUBSET Tcb : Q = {t \in P : Live(t)'}
  OBVIOUS
<1>3. LinkedWith(Q)'
  BY <1>1, <1>2, LinkedWithStep
<1>4. CASE UNCHANGED trapvars
  <2>1. UNCHANGED <<kpc, current_thread, t_status, asked, trapped>>
    BY <1>4 DEF trapvars, vars, nucleusvars, mikabooqvars, threadvars, runvars
  <2>2. \A t \in P : Live(t)'
    BY <2>1 DEF LinkedWith, Parked, Live, T_STATUS_NONE, T_STATUS_READY
  <2>3. ParkedAre(Q)' /\ HandlerReady'
    BY <1>2, <2>1, <2>2 DEF ParkedAre, PassedUp, HandlerReady, InHandler
  <2> QED BY <1>3, <2>3 DEF TrapLinked
<1>5. CASE Next /\ ForgetTheDead
  <2>1. ~InHandler /\ ~InHandler'
    BY <1>5, KernelOutsideHandlers
  <2>2. \A t \in Tcb : t \in P <=> PassedUp(t)
    BY <2>1 DEF ParkedAre, InHandler
  <2>3. \A t \in Tcb : PassedUp(t)' <=> PassedUp(t) /\ Live(t)'
    BY <1>5 DEF ForgetTheDead, PassedUp
  <2>4. ParkedAre(Q)' /\ HandlerReady'
    BY <1>2, <2>1, <2>2, <2>3 DEF ParkedAre, InHandler, HandlerReady
  <2> QED BY <1>3, <2>4 DEF TrapLinked
<1> QED BY <1>4, <1>5

\* a handler parks a thread only after it has sent in its name, and sends
\* without taking the processor from it
LEMMA HandlerTrapLinked ==
  ASSUME TrapTInv, TrapTInv', NEW P \in SUBSET Tcb, ParkedAre(P), LinkedWith(P),
         Trap \/ Handler \/ Overwritten, HandlerReady
  PROVE  TrapLinked'
<1> USE TypeOKParts, TcbFacts DEF TrapTInv, TInv
<1>1. ASSUME NEW t \in Tcb, NEW mgr \in Tcb, NEW payload \in {"t_s", "args"},
             PassesUp(t, mgr, payload)
      PROVE  TrapLinked'
  <2>1. /\ Running(t) /\ send(mgr, t, [passup |-> payload]) /\ UNCHANGED thread_h
        /\ CpuKept /\ t_status[t] = T_STATUS_READY /\ asked'[t] = NULL
        /\ kpc' = "passup" /\ current_thread' = t
        /\ trapped' = [trapped EXCEPT ![t] = "passed_up"]
    BY <1>1 DEF PassesUp, PassUp, CpuKept, Running, LinkedWith, CurrentReady
  <2>2. LinkedWith(P)'
    BY <2>1, SendLinked
  <2>3. t_status'[t] = T_STATUS_READY
    BY <2>1 DEF send, resume_thread, threadvars, ThreadTypes
  <2>4. t \notin P
    BY <2>1 DEF LinkedWith, Parked, OnCpu, Running
  <2>5. ParkedAre(P)'
    BY <2>1, <2>4 DEF ParkedAre, PassedUp, Running
  <2>6. HandlerReady'
    BY <2>1, <2>3 DEF HandlerReady, PassedUp
  <2> QED BY <2>2, <2>5, <2>6 DEF TrapLinked
<1>2. ASSUME NEW t \in Tcb, NEW tag \in Stubs, Asks(t, tag)
      PROVE  TrapLinked'
  <2>1. /\ Running(t) /\ UNCHANGED thread_h
        /\ send(SSI, t, [tag |-> tag, arg |-> NULL])
        /\ CpuKept /\ t_status[t] = T_STATUS_READY
        /\ kpc' = "handler" /\ current_thread' = t
        /\ trapped' = [trapped EXCEPT ![t] = "dying"]
    BY <1>2 DEF Asks, HandlerAsk, CpuKept, Running, LinkedWith, CurrentReady
  <2>2. LinkedWith(P)'
    BY <2>1, SendLinked
  <2>3. t_status'[t] = T_STATUS_READY
    BY <2>1 DEF send, resume_thread, threadvars, ThreadTypes
  <2>4. t \notin P
    BY <2>1 DEF LinkedWith, Parked, OnCpu, Running
  <2>5. ParkedAre(P)'
    BY <2>1, <2>4 DEF ParkedAre, PassedUp, Running
  <2>6. HandlerReady'
    BY <2>1, <2>3 DEF HandlerReady
  <2> QED BY <2>2, <2>5, <2>6 DEF TrapLinked
<1>3. CASE Block
  <2>1. PICK t \in Tcb : t = current_thread
    BY <1>3 DEF Block, InHandler
  <2>2. PICK Q \in SUBSET Tcb : Q = P \cup {t}
    OBVIOUS
  <2>3. /\ kpc = "passup" /\ kpc' = "scheduler" /\ t_status[t] = T_STATUS_READY
        /\ PassedUp(t)
        /\ links' = thread_enqueue(links, t, blockedq)
        /\ UNCHANGED <<current_thread, thread_h, t_status, t_wait4sender, trapped>>
    BY <1>3, <2>1 DEF Block, HandlerReady, InHandler, threadvars
  <2>4. QueueOf(Q, t)' = blockedq
    BY <2>2 DEF QueueOf
  <2>5. LinkedWith(Q)'
    BY <2>1, <2>2, <2>3, <2>4, LeavesCpuLinked DEF T_STATUS_NONE, T_STATUS_READY
  <2>6. ParkedAre(Q)'
    BY <2>1, <2>2, <2>3 DEF ParkedAre, PassedUp
  <2>7. HandlerReady'
    BY <2>3 DEF HandlerReady, InHandler
  <2> QED BY <2>5, <2>6, <2>7 DEF TrapLinked
<1>4. CASE HandlerAwait
  <2>1. PICK t \in Tcb : t = current_thread
    BY <1>4 DEF HandlerAwait, InHandler
  <2>2. /\ kpc = "handler" /\ t_status[t] = T_STATUS_READY /\ recv_blocks(t, SSI)
        /\ UNCHANGED <<thread_h, trapped>> /\ kpc' = "scheduler"
    BY <1>4, <2>1 DEF HandlerAwait, HandlerReady, InHandler, recv_blocks
  <2>3. LinkedWith(P)'
    BY <2>1, <2>2, BlocksLinked
  <2>4. ParkedAre(P)' /\ HandlerReady'
    BY <2>2 DEF ParkedAre, PassedUp, HandlerReady, InHandler
  <2> QED BY <2>3, <2>4 DEF TrapLinked
<1>5. CASE Overwritten \/ HandlerReturns
  <2>1. /\ CpuKept /\ kpc = "thread" /\ kpc' \in {"thread", "panic_ssi", "panic"}
        /\ UNCHANGED <<links, threadvars, thread_h>>
    BY <1>5 DEF Overwritten, UnknownRequest, OtherRequest, HandlerReturns, HandlerResumed,
       CpuKept, Running, mikabooqvars, runvars
  <2>2. LinkedWith(P)'
    BY <2>1, QuietLinked DEF threadvars
  <2>3. \A t \in Tcb : PassedUp(t)' <=> PassedUp(t)
    <3>1. CASE UNCHANGED trapped
      BY <3>1 DEF PassedUp
    <3>2. CASE /\ trapped[applicant] = "dying"
               /\ trapped' = [trapped EXCEPT ![applicant] = "misread"]
      BY <3>2 DEF PassedUp
    <3> QED
      BY <1>5, <3>1, <3>2 DEF Overwritten, UnknownRequest, OtherRequest, HandlerReturns
  <2>4. ParkedAre(P)' /\ HandlerReady'
    BY <2>1, <2>3 DEF ParkedAre, HandlerReady, InHandler
  <2> QED BY <2>2, <2>4 DEF TrapLinked
<1> QED BY <1>1, <1>2, <1>3, <1>4, <1>5, TrapCases DEF Handler

\* the threads that a handler parked are those that are passed up and wait
LEMMA LinkedTraps == TrapLinked => TrapListsOK
<1> SUFFICES ASSUME NEW P \in SUBSET Tcb, ParkedAre(P), LinkedWith(P)
             PROVE  TrapListsOK
  BY DEF TrapLinked
<1>1. \A t \in Tcb : Blocked(t) <=> t \in P
  BY DEF ParkedAre, LinkedWith, Parked, Blocked, OnCpu
<1>2. \A t : Blocked(t) <=> t \in P
  BY <1>1 DEF Blocked, PassedUp
<1>3. TrapHome = HomeOf(P)
  BY <1>2 DEF TrapHome, HomeOf, Home, QueueOf
<1> QED BY <1>3 DEF LinkedWith, TrapListsOK

LEMMA TrapLinkedInit == TrapInit => TrapLinked
<1> SUFFICES ASSUME TrapInit PROVE TrapLinked
  OBVIOUS
<1>1. LinkedWith({})
  BY KernelInitLinked, NobodyParked DEF TrapInit
<1>2. ParkedAre({}) /\ HandlerReady
  BY DEF TrapInit, Init, InitServices, InitNucleus, ParkedAre, PassedUp, HandlerReady,
     InHandler
<1> QED BY <1>1, <1>2 DEF TrapLinked

LEMMA TrapLinkedStep ==
  TrapTInv /\ TrapTInv' /\ (stale \/ TrapLinked) /\ [TrapNext]_trapvars
    => (stale \/ TrapLinked)'
<1> SUFFICES ASSUME TrapTInv, TrapTInv', stale \/ TrapLinked, [TrapNext]_trapvars, ~stale'
             PROVE  TrapLinked'
  OBVIOUS
<1>1. ~stale
  <2>1. CASE [Next]_vars
    BY <2>1, StaleStays
  <2>2. CASE Trap \/ Handler \/ Overwritten
    BY <2>2, HandlerSteps DEF termvars
  <2> QED BY <2>1, <2>2 DEF TrapNext, trapvars
<1>2. HandlerReady
  BY <1>1 DEF TrapLinked
<1>3. PICK P \in SUBSET Tcb : ParkedAre(P) /\ LinkedWith(P)
  BY <1>1 DEF TrapLinked
<1> QED BY <1>2, <1>3, KernelTrapLinked, HandlerTrapLinked DEF TrapNext, TrapTInv

LEMMA InvariantTrapLinked == TrapSpec => [](stale \/ TrapLinked)
  BY TrapLinkedStep, TrapLinkedInit, InvariantTrapTInv, PTL DEF TrapSpec

(* A thread whose trap was passed up stays on blockedq, READY as it was,     *)
(* until it is terminated there, and every other thread is on the list its   *)
(* state says, until a free descriptor is freed again: unlinking a thread    *)
(* without looking where it is keeps every list (__trap_h and syscall_other  *)
(* against thread_free and resume_thread).                                   *)
THEOREM TrapsKeepListsUntilStale == TrapSpec => [](stale \/ TrapListsOK)
  BY InvariantTrapLinked, LinkedTraps, PTL

-----------------------------------------------------------------------------
(* The counter of threads, and the end of the system.                        *)

\* a handler neither starts nor ends a thread
LEMMA HandlerLives ==
  ASSUME TrapTInv, Trap \/ Handler \/ Overwritten
  PROVE  /\ SsiLive => SsiLive'
         /\ HandlerReady => NobodyBorn
<1> USE TypeOKParts, TcbFacts DEF TrapTInv, TInv
<1> USE DEF Live, T_STATUS_NONE, T_STATUS_READY, T_STATUS_W4MSG
<1>1. UNCHANGED <<t_pcb, thread_count>>
  BY HandlerSteps
<1>2. CASE HandlerSends
  <2>1. \A u \in Thread :
          \/ t_status'[u] = t_status[u]
          \/ t_status[u] = T_STATUS_W4MSG /\ t_status'[u] = T_STATUS_READY
    BY <1>2 DEF HandlerSends, send, Expects, resume_thread, threadvars, ThreadTypes
  <2> QED BY <1>1, <1>2, <2>1 DEF NobodyBorn, SsiLive, HandlerSends
<1>3. CASE HandlerReceives
  <2>1. PICK t \in Tcb : kpc = "handler" /\ t = current_thread /\ recv_blocks(t, SSI)
    BY <1>3 DEF HandlerReceives
  <2>2. t_status' = [t_status EXCEPT ![t] = T_STATUS_W4MSG]
    BY <2>1 DEF recv_blocks
  <2>3. HandlerReady => t_status[t] = T_STATUS_READY
    BY <2>1 DEF HandlerReady, InHandler
  <2> QED BY <1>1, <2>1, <2>2, <2>3 DEF NobodyBorn, SsiLive, ThreadTypes
<1>4. CASE HandlerIsQuiet
  BY <1>1, <1>4 DEF HandlerIsQuiet, NobodyBorn, SsiLive, threadvars
<1> QED BY <1>2, <1>3, <1>4, HandlerSteps

\* the kernel proper ends as it does without traps, but for the parked threads
LEMMA TrapEndStep ==
  ASSUME TInv, TInv', NEW P \in SUBSET Tcb, ParkedAre(P), LinkedWith(P), SsiLive, Counted,
         TrapEndIsHonest, (Next /\ ForgetTheDead) \/ UNCHANGED trapvars
  PROVE  TrapEndIsHonest'
<1>1. [Next]_vars
  BY DEF trapvars
<1>2. \A t \in Tcb : PassedUp(t) /\ Live(t)' => PassedUp(t)'
  BY DEF ForgetTheDead, trapvars, PassedUp
<1>3. CASE empty_readyq_h
  <2>1. /\ kpc' = "halt" => \A t \in Tcb : ~Live(t)'
        /\ \A t \in Thread \ P : Live(t)' => t_status'[t] = T_STATUS_W4MSG
    BY <1>3, EndStep
  <2>2. \A t \in P : PassedUp(t)
    BY DEF ParkedAre
  <2> QED BY <1>2, <2>1, <2>2 DEF TrapEndIsHonest
<1>4. CASE UNCHANGED <<kpc, t_status>>
  BY <1>2, <1>4 DEF TrapEndIsHonest, Live, PassedUp
<1>5. CASE kpc' \notin {"halt", "panic_deadlock"}
  BY <1>5 DEF TrapEndIsHonest
<1> QED BY <1>1, <1>3, <1>4, <1>5, OnlyTheSchedulerEnds

\* the counter and the SSI, which no step loses
TrapCounted == SsiLive /\ (stale \/ Counted)

LEMMA TrapCountStep ==
  ASSUME TrapTInv, TrapTInv', stale \/ TrapLinked, TrapCounted, [TrapNext]_trapvars
  PROVE  TrapCounted'
<1>1. CASE Trap \/ Handler \/ Overwritten
  <2>1. UNCHANGED stale /\ SsiLive'
    BY <1>1, HandlerSteps, HandlerLives DEF termvars, TrapCounted
  <2>2. ASSUME ~stale PROVE Counted'
    BY <1>1, <2>2, HandlerLives, CountStep DEF TrapCounted, TrapLinked
  <2> QED BY <2>1, <2>2 DEF TrapCounted
<1>2. CASE [Next]_vars
  <2>1. TInv /\ TInv'
    BY DEF TrapTInv
  <2>2. SsiLive'
    BY <1>2, <2>1, SsiLiveStep DEF TrapCounted
  <2>3. ASSUME ~stale' PROVE Counted'
    <3>1. ~stale
      BY <1>2, <2>3, StaleStays
    <3>2. PICK P \in SUBSET Tcb : LinkedWith(P)
      BY <3>1 DEF TrapLinked
    <3> QED BY <1>2, <2>1, <2>3, <3>1, <3>2, Lives, CountStep DEF TrapCounted
  <2> QED BY <2>2, <2>3 DEF TrapCounted
<1> QED BY <1>1, <1>2 DEF TrapNext, trapvars

LEMMA TrapCountInit == TrapInit => TrapCounted
  BY SoundInit DEF TrapInit, SoundInv, TrapCounted

LEMMA InvariantTrapCount == TrapSpec => []TrapCounted
  BY TrapCountStep, TrapCountInit, InvariantTrapTInv, InvariantTrapLinked, PTL DEF TrapSpec

(* Until a free descriptor is freed again, thread_count counts the threads   *)
(* and the process tree agrees with its pointers and its free lists, also    *)
(* when a thread is terminated while its manager has not answered or by a    *)
(* stub that a handler runs in its name (trap.c and syscall_other against    *)
(* __terminate_thread_s and __terminate_process_s).                          *)
THEOREM TrapsCountUntilStale == TrapSpec => [](stale \/ (ThreadCountExact /\ TreeOK))
<1>1. TreeInv /\ TrapCounted => stale \/ (ThreadCountExact /\ TreeOK)
  BY TreeSound DEF TrapCounted, Counted
<1> QED BY <1>1, InvariantTrapTree, InvariantTrapCount, PTL

TrapSound == TrapCounted /\ (stale \/ TrapEndIsHonest)

LEMMA TrapSoundStep ==
  ASSUME TrapTInv, TrapTInv', stale \/ TrapLinked, TrapSound, [TrapNext]_trapvars
  PROVE  TrapSound'
<1>1. TrapCounted'
  BY TrapCountStep DEF TrapSound
<1>2. CASE Trap \/ Handler \/ Overwritten
  <2>1. kpc' \notin {"halt", "panic_deadlock"}
    BY <1>2, HandlerSteps
  <2> QED BY <1>1, <2>1 DEF TrapSound, TrapEndIsHonest
<1>3. CASE (Next /\ ForgetTheDead) \/ UNCHANGED trapvars
  <2>1. TInv /\ TInv' /\ [Next]_vars
    BY <1>3 DEF TrapTInv, trapvars
  <2>2. ASSUME ~stale' PROVE TrapEndIsHonest'
    <3>1. ~stale
      BY <2>1, <2>2, StaleStays
    <3>2. PICK P \in SUBSET Tcb : ParkedAre(P) /\ LinkedWith(P)
      BY <3>1 DEF TrapLinked
    <3> QED BY <1>3, <2>1, <3>1, <3>2, TrapEndStep DEF TrapSound, TrapCounted
  <2> QED BY <1>1, <2>2 DEF TrapSound
<1> QED BY <1>2, <1>3 DEF TrapNext

LEMMA InvariantTrapSound == TrapSpec => []TrapSound
<1>1. TrapInit => TrapSound
  <2> SUFFICES ASSUME TrapInit PROVE TrapSound
    OBVIOUS
  <2>1. TrapCounted /\ kpc = "boot"
    BY TrapCountInit DEF TrapInit, Init, InitServices, InitNucleus
  <2> QED BY <2>1 DEF TrapSound, TrapEndIsHonest
<1> QED
  BY <1>1, TrapSoundStep, InvariantTrapTInv, InvariantTrapLinked, PTL DEF TrapSpec

(* Until a free descriptor is freed again: a deadlock is declared only when  *)
(* every thread waits for a message or for its manager, and a halt only when *)
(* no program is left, whoever is passed up or terminated meanwhile          *)
(* (empty_readyq_h and __terminate_thread_s against the handlers, which park *)
(* a thread without counting it).                                            *)
THEOREM TrapsEndHonestlyUntilStale == TrapSpec => [](stale \/ TrapEndIsHonest)
  BY InvariantTrapSound, PTL DEF TrapSound

-----------------------------------------------------------------------------
(* The requests.  A handler asks the SSI in the name of the thread that      *)
(* trapped as a stub does, and passes up none that is inside a stub.         *)

LEMMA HandlerReq ==
  ASSUME TrapTInv, TrapLinked, TreeInv, ReqInv, Trap \/ Handler \/ Overwritten
  PROVE  ReqInv'
<1> USE TypeOKParts, TcbFacts DEF TrapTInv, TInv
<1>1. ~stale' /\ Terminates'
  BY HandlerSteps DEF termvars, TreeInv, Terminates, ReqInv
<1>2. PICK P \in SUBSET Tcb : LinkedWith(P)
  BY DEF TrapLinked
<1>3. ASSUME NEW t \in Tcb, NEW mgr \in Tcb, NEW payload \in {"t_s", "args"},
             PassesUp(t, mgr, payload), NEW u \in Tcb
      PROVE  Tracked(u)' /\ Waits(u)'
  <2>1. [passup |-> payload] \in Payload
    BY DEF Payload, Passup
  <2>2. /\ send(mgr, t, [passup |-> payload]) /\ RunsOn
        /\ UNCHANGED <<asked, soft_blocked_thread, ssivars>>
    BY <1>3 DEF PassesUp, PassUp, RunsOn, iovars
  <2> QED BY <2>1, <2>2, SendTracked
<1>4. ASSUME NEW t \in Tcb, NEW tag \in Stubs, Asks(t, tag), NEW u \in Tcb
      PROVE  Tracked(u)' /\ Waits(u)'
  <2>1. PICK req \in Request : req = [tag |-> tag, arg |-> NULL]
    BY <1>4, StubIsRequest DEF Asks, HandlerAsk
  <2>2. /\ asked[t] = NULL /\ OnCpu(t) /\ t_status[t] = T_STATUS_READY /\ RunsOn
        /\ send(SSI, t, req) /\ SsiReturns(t, req) /\ asked' = [asked EXCEPT ![t] = req]
        /\ UNCHANGED soft_blocked_thread
    BY <1>2, <1>4, <2>1 DEF Asks, HandlerAsk, Running, OnCpu, RunsOn, iovars, LinkedWith,
       CurrentReady
  <2> QED BY <2>2, AskTracked
<1>5. ASSUME HandlerAwait, NEW u \in Tcb PROVE Tracked(u)' /\ Waits(u)'
  <2>1. PICK t \in Tcb : t = current_thread
    BY <1>5 DEF HandlerAwait, InHandler
  <2>2. /\ OnCpu(t) /\ recv_blocks(t, SSI)
        /\ UNCHANGED <<asked, soft_blocked_thread, ssivars>>
    BY <1>5, <2>1 DEF HandlerAwait, OnCpu, iovars
  <2> QED BY <2>2, BlockTracked
<1>6. ASSUME Block \/ UnknownRequest \/ HandlerReturns, NEW u \in Tcb
      PROVE  Tracked(u)' /\ Waits(u)'
  <2>1. Tracked(u) /\ Waits(u)
    BY DEF ReqInv
  <2>2. UNCHANGED <<t_msgq, asked, soft_blocked_thread, ssivars, t_status, t_wait4sender>>
    BY <1>6 DEF Block, UnknownRequest, HandlerReturns, mikabooqvars, msgvars, threadvars,
       iovars
  <2>3. asked[u] # NULL => ~OnCpu(u) \/ OnCpu(u)'
    BY <1>6 DEF Block, UnknownRequest, HandlerReturns, HandlerResumed, Running, OnCpu,
       TrapLinked, HandlerReady, InHandler
  <2>4. Tracked(u)'
    BY <2>1, <2>2, QuietPlaces
  <2>5. CASE asked[u] = NULL
    BY <2>2, <2>4, <2>5 DEF Waits
  <2>6. CASE asked[u] # NULL
    BY <2>1, <2>2, <2>3, <2>4, <2>6, StillWaits
  <2> QED BY <2>5, <2>6
<1>7. ASSUME OtherRequest, NEW u \in Tcb PROVE Tracked(u)' /\ Waits(u)'
  <2>1. PICK req \in Request :
          /\ ssi_msg' = [ssi_msg EXCEPT !.m_value = req]
          /\ asked' = [asked EXCEPT ![applicant] = req]
    BY <1>7 DEF OtherRequest
  <2>2. /\ Running(SSI) /\ ssi_pc = "serve" /\ ~OnCpu(u)
        /\ UNCHANGED <<t_msgq, soft_blocked_thread, ssi_pc, t_status, t_wait4sender>>
    BY <1>7 DEF OtherRequest, mikabooqvars, msgvars, threadvars, iovars, Running, OnCpu
  <2>3. /\ At(applicant, "served") /\ applicant \in Tcb /\ ssi_msg \in RequestMessage
        /\ asked[applicant] # NULL
    BY <2>2, ServedRequest, ServedFacts, RequestFacts DEF At
  <2>4. applicant' = applicant /\ request' = req /\ asked'[applicant] = req
    BY <2>1, <2>3 DEF applicant, request, RequestMessage, RunTypes
  <2>5. Tracked(u) /\ Waits(u)
    BY DEF ReqInv
  <2>6. CASE u = applicant
    <3>1. At(u, "served")'
      <4>1. req # NULL
        BY RequestAssumption
      <4> QED BY <2>2, <2>3, <2>4, <2>6, <4>1 DEF At, InService, applicant
    <3>2. Waits(u)'
      BY <2>2, <2>3, <2>5, <2>6 DEF Waits, Live, OnCpu
    <3> QED BY <3>1, <3>2 DEF Tracked, Places
  <2>7. CASE u # applicant
    <3>1. asked'[u] = asked[u] /\ ~InService(u) /\ ~InService(u)'
      BY <2>1, <2>3, <2>4, <2>7 DEF RunTypes, InService, applicant
    <3> QED BY <2>2, <2>5, <3>1, StillAt, StillWaits DEF Kept
  <2> QED BY <2>6, <2>7
<1>8. \A u \in Tcb : Tracked(u)' /\ Waits(u)'
  BY <1>3, <1>4, <1>5, <1>6, <1>7, TrapCases DEF Handler, Overwritten
<1> QED BY <1>1, <1>8 DEF ReqInv

LEMMA InvariantTrapReq ==
  ASSUME Orderly
  PROVE  TrapSpec => [](~stale /\ TrapLinked /\ TrapSound /\ ReqInv)
<1>1. /\ TrapTInv /\ (stale \/ TrapLinked) /\ TreeInv /\ TrapSound /\ ReqInv
      /\ [TrapNext]_trapvars
      => ReqInv'
  <2> SUFFICES ASSUME TrapTInv, stale \/ TrapLinked, TreeInv, TrapSound, ReqInv,
                      [TrapNext]_trapvars
               PROVE  ReqInv'
    OBVIOUS
  <2>1. TrapLinked /\ Belongs /\ TInv
    BY DEF ReqInv, TrapSound, TrapCounted, Counted, TrapTInv
  <2>2. CASE [Next]_vars
    <3>1. PICK P \in SUBSET Tcb : LinkedWith(P)
      BY <2>1 DEF TrapLinked
    <3> QED BY <2>1, <2>2, <3>1, ReqStep
  <2>3. CASE Trap \/ Handler \/ Overwritten
    BY <2>1, <2>3, HandlerReq
  <2> QED BY <2>2, <2>3 DEF TrapNext, trapvars
<1>2. TrapInit => ReqInv
  BY ReqInit DEF TrapInit
<1>3. ReqInv /\ (stale \/ TrapLinked) => ~stale /\ TrapLinked
  BY DEF ReqInv
<1> QED
  BY <1>1, <1>2, <1>3, InvariantTrapTInv, InvariantTrapLinked, InvariantTrapTree,
     InvariantTrapSound, PTL DEF TrapSpec

(* In a system that serves no dead thread (Orderly; its programs trap in the *)
(* second kind only, the first having neither managers nor terminations) the *)
(* lists stay sound for ever: also a thread that is terminated while parked  *)
(* on blockedq leaves it whole (thread_free).                                *)
THEOREM TrapsKeepLists ==
  ASSUME Orderly
  PROVE  TrapSpec => []TrapListsOK
  BY InvariantTrapReq, LinkedTraps, PTL

(* Such a system halts only when no program is left, and declares a deadlock *)
(* only when every thread waits for a message or for its manager             *)
(* (empty_readyq_h).                                                         *)
THEOREM TrapsEndHonestly ==
  ASSUME Orderly
  PROVE  TrapSpec => []TrapEndIsHonest
<1>1. ~stale /\ TrapSound => TrapEndIsHonest
  BY DEF TrapSound
<1> QED BY <1>1, InvariantTrapReq, PTL

(* What the SSI has of a thread is the one request that it waits on, also    *)
(* when a handler has made it in the name of the thread: a trap finds its    *)
(* thread outside every stub, and a thread that is passed up asks nothing    *)
(* any more (trap.c, syscall_other, the stubs of nucleus.h).  Of a request   *)
(* that was overwritten on a handler's stack this is said as the SSI reads   *)
(* it (OtherRequest): it is answered once, to the thread that trapped.       *)
THEOREM TrapsKeepRequests ==
  ASSUME Orderly
  PROVE  TrapSpec => []RequestIntegrity
  BY InvariantTrapReq, ReqIntegrity, PTL
-----------------------------------------------------------------------------
(* The mailboxes.  A handler sends, calls the server or waits in the name of *)
(* the thread that trapped, as that thread could do itself.                  *)

\* a handler's send finds its thread alive and outside every call; that of a
\* stub's message starts one
LEMMA HandlerSendMail ==
  ASSUME TypeOK, NoLostWakeup, MailInv, CurrentReady,
         NEW t \in Tcb, NEW d \in Thread, NEW value \in Payload,
         Running(t), asked[t] = NULL, send(d, t, value), UNCHANGED victim,
         \/ d # SSI /\ UNCHANGED asked
         \/ d = SSI /\ value # NULL /\ asked' = [asked EXCEPT ![t] = value]
  PROVE  MailStep
<1> USE TypeOKParts, TcbFacts
<1>1. /\ t_status[t] = T_STATUS_READY /\ Live(t) /\ t \in Thread /\ t \notin Calling
  BY DEF Running, CurrentReady, Live, T_STATUS_READY, T_STATUS_NONE, Calling
<1>2. CASE d # SSI /\ UNCHANGED asked
  <2>1. Calling' = Calling /\ (Expects(d, t) => d \notin Calling)
    BY <1>2 DEF Calling, MailInv, Awaits, Expects
  <2> QED BY <1>1, <1>2, <2>1, SendMail
<1>3. CASE d = SSI /\ value # NULL /\ asked' = [asked EXCEPT ![t] = value]
  <2>1. Calling' = Calling \cup {t} /\ SSI \notin Calling
    BY <1>3 DEF Calling, RunTypes
  <2> QED BY <1>1, <1>3, <2>1, SendMail
<1> QED BY <1>2, <1>3

\* what the handlers do with messages
LEMMA HandlerMail ==
  ASSUME TrapTInv, NoLostWakeup, MailInv, HandlerReady, CurrentReady,
         Trap \/ Handler \/ Overwritten
  PROVE  MailStep
<1> USE TypeOKParts, TcbFacts DEF TrapTInv, TInv
<1>1. UNCHANGED victim
  BY HandlerSteps DEF termvars
<1>2. ASSUME NEW t \in Tcb, NEW mgr \in Tcb, NEW payload \in {"t_s", "args"},
             PassesUp(t, mgr, payload)
      PROVE  MailStep
  <2>1. PICK value \in Payload : value = [passup |-> payload]
    BY DEF Payload, Passup
  <2>2. /\ Running(t) /\ asked[t] = NULL /\ send(mgr, t, value)
        /\ mgr \in Thread /\ mgr # SSI /\ UNCHANGED asked
    BY <1>2, <2>1 DEF PassesUp, PassUp
  <2> QED BY <1>1, <2>2, HandlerSendMail
<1>3. ASSUME NEW t \in Tcb, NEW tag \in Stubs, Asks(t, tag)
      PROVE  MailStep
  <2>1. PICK req \in Request : req = [tag |-> tag, arg |-> NULL]
    BY <1>3, StubIsRequest DEF Asks, HandlerAsk
  <2>2. /\ Running(t) /\ asked[t] = NULL /\ send(SSI, t, req)
        /\ asked' = [asked EXCEPT ![t] = req]
    BY <1>3, <2>1 DEF Asks, HandlerAsk
  <2>3. req \in Payload /\ req # NULL /\ SSI \in Thread
    BY RequestAssumption, RequestFacts
  <2> QED BY <1>1, <2>2, <2>3, HandlerSendMail
<1>4. CASE HandlerAwait
  <2>1. PICK t \in Tcb : t = current_thread
    BY <1>4 DEF HandlerAwait, InHandler
  <2>2. /\ recv_blocks(t, SSI) /\ t_status[t] = T_STATUS_READY /\ Calling' = Calling
    BY <1>4, <2>1 DEF HandlerAwait, HandlerReady, InHandler, Calling
  <2> QED BY <1>1, <2>2, RecvMail
<1>5. CASE Block \/ UnknownRequest \/ HandlerReturns
  BY <1>1, <1>5, QuietMail DEF Block, UnknownRequest, HandlerReturns, mikabooqvars,
     threadvars, msgvars
<1>6. CASE OtherRequest
  <2>1. asked[applicant] # NULL /\ applicant \in Tcb
    BY <1>6, ServedFacts, RequestAssumption DEF OtherRequest
  <2>2. Calling' = Calling
    BY <1>6, <2>1, RequestAssumption DEF OtherRequest, Calling, RunTypes
  <2>3. UNCHANGED <<t_status, t_wait4sender, t_msgq>>
    BY <1>6 DEF OtherRequest, mikabooqvars, threadvars, msgvars
  <2>4. UNCHANGED Mail!mailvars
    BY <1>1, <2>2, <2>3 DEF Mail!mailvars, Live, Closing, Calling
  <2> QED BY <2>4 DEF MailStep
<1> QED BY <1>2, <1>3, <1>4, <1>5, <1>6, TrapCases DEF Handler, Overwritten

\* a call that a handler makes, or that goes on while one runs
LEMMA HandlerAwaits ==
  ASSUME TrapTInv, HandlerReady, CurrentReady, AllAwait, Trap \/ Handler \/ Overwritten
  PROVE  AllAwait'
<1> USE TypeOKParts, TcbFacts DEF TrapTInv, TInv
<1> SUFFICES ASSUME NEW u \in Tcb PROVE Awaits(u)'
  BY DEF AllAwait
<1>0. Awaits(u) /\ u \in Thread /\ u # SSI
  BY DEF AllAwait
<1>1. ASSUME NEW t \in Tcb, NEW mgr \in Tcb, NEW payload \in {"t_s", "args"},
             PassesUp(t, mgr, payload)
      PROVE  Awaits(u)'
  <2>1. send(mgr, t, [passup |-> payload]) /\ UNCHANGED asked
    BY <1>1 DEF PassesUp, PassUp
  <2> QED BY <1>0, <2>1, SendAwaits, StillAwaits
<1>2. ASSUME NEW t \in Tcb, NEW tag \in Stubs, Asks(t, tag)
      PROVE  Awaits(u)'
  <2>1. PICK req \in Request : req = [tag |-> tag, arg |-> NULL]
    BY <1>2, StubIsRequest DEF Asks, HandlerAsk
  <2>2. /\ send(SSI, t, req) /\ asked' = [asked EXCEPT ![t] = req]
        /\ t_status[t] = T_STATUS_READY
    BY <1>2, <2>1 DEF Asks, HandlerAsk, Running, CurrentReady
  <2>3. t_status'[u] = t_status[u] /\ t_wait4sender'[u] = t_wait4sender[u]
    BY <1>0, <2>2 DEF send, resume_thread, threadvars, ThreadTypes
  <2>4. CASE u = t
    BY <2>2, <2>3, <2>4 DEF Awaits, Live, T_STATUS_NONE, T_STATUS_READY, T_STATUS_W4MSG
  <2>5. CASE u # t
    BY <1>0, <2>2, <2>3, <2>5, StillAwaits DEF RunTypes
  <2> QED BY <2>4, <2>5
<1>3. CASE HandlerAwait
  <2>1. PICK t \in Tcb : t = current_thread
    BY <1>3 DEF HandlerAwait, InHandler
  <2>2. /\ t_status' = [t_status EXCEPT ![t] = T_STATUS_W4MSG]
        /\ t_wait4sender' = [t_wait4sender EXCEPT ![t] = SSI]
        /\ UNCHANGED asked
    BY <1>3, <2>1 DEF HandlerAwait, recv_blocks
  <2>3. CASE u = t
    BY <1>0, <2>2, <2>3 DEF Awaits, Live, ThreadTypes, T_STATUS_NONE, T_STATUS_W4MSG
  <2>4. CASE u # t
    BY <1>0, <2>2, <2>4, StillAwaits DEF ThreadTypes
  <2> QED BY <2>3, <2>4
<1>4. CASE Block \/ UnknownRequest \/ HandlerReturns
  BY <1>0, <1>4, StillAwaits DEF Block, UnknownRequest, HandlerReturns, mikabooqvars,
     threadvars
<1>5. CASE OtherRequest
  <2>1. asked[applicant] # NULL /\ applicant \in Tcb
    BY <1>5, ServedFacts, RequestAssumption DEF OtherRequest
  <2>2. UNCHANGED <<t_status, t_wait4sender>>
    BY <1>5 DEF OtherRequest, mikabooqvars, threadvars
  <2>3. asked[u] = NULL => asked'[u] = NULL
    BY <1>5, <2>1 DEF OtherRequest, RunTypes
  <2> QED BY <1>0, <2>2, <2>3 DEF Awaits, Live
<1> QED BY <1>1, <1>2, <1>3, <1>4, <1>5, TrapCases DEF Handler, Overwritten

\* the flag is never taken back, whoever runs
LEMMA TrapStaleStays == TrapTInv /\ [TrapNext]_trapvars /\ stale => stale'
<1>1. TrapTInv /\ (Trap \/ Handler \/ Overwritten) => UNCHANGED stale
  BY HandlerSteps DEF termvars
<1> QED BY <1>1, StaleStays DEF TrapNext, trapvars, TrapTInv

LEMMA TrapAwaitsStep ==
  ASSUME TrapTInv, stale \/ TrapLinked, stale \/ AllAwait, [TrapNext]_trapvars
  PROVE  (stale \/ AllAwait)'
<1> SUFFICES ASSUME ~stale' PROVE AllAwait'
  OBVIOUS
<1>1. TrapLinked /\ AllAwait
  BY TrapStaleStays
<1>2. HandlerReady /\ CurrentReady /\ TInv
  BY <1>1 DEF TrapLinked, LinkedWith, TrapTInv
<1>3. CASE [Next]_vars
  BY <1>1, <1>2, <1>3, AwaitsStep DEF AllAwait
<1>4. CASE Trap \/ Handler \/ Overwritten
  BY <1>1, <1>2, <1>4, HandlerAwaits
<1> QED BY <1>3, <1>4 DEF TrapNext, trapvars

LEMMA TrapMailStep ==
  ASSUME TrapTInv, stale \/ TrapLinked, NoLostWakeup, TreeInv, TrapCounted,
         MessagesConserved, stale \/ AllAwait, [TrapNext]_trapvars, ~stale'
  PROVE  MailStep
<1>1. TrapLinked /\ AllAwait
  BY TrapStaleStays
<1>2. PICK P \in SUBSET Tcb : LinkedWith(P)
  BY <1>1 DEF TrapLinked
<1>3. HandlerReady /\ CurrentReady
  BY <1>1, <1>2 DEF TrapLinked, LinkedWith
<1>4. MailInv
  BY <1>1 DEF MailInv, AllAwait, TrapCounted, MessagesConserved, DeadHoldNothing
<1>5. CASE [Next]_vars
  <2>1. KernelInv(P)
    BY <1>2, <1>4 DEF KernelInv, TrapTInv
  <2> QED BY <1>5, <2>1, MailboxStep
<1>6. CASE Trap \/ Handler \/ Overwritten
  BY <1>3, <1>4, <1>6, HandlerMail
<1> QED BY <1>5, <1>6 DEF TrapNext, trapvars

LEMMA TrapAwaitsInit == TrapInit => AllAwait
  BY TcbFacts DEF TrapInit, Init, InitServices, InitNucleus, AllAwait, Awaits

LEMMA InvariantTrapAwaits == TrapSpec => [](stale \/ AllAwait)
<1>1. TrapTInv /\ (stale \/ TrapLinked) /\ (stale \/ AllAwait) /\ [TrapNext]_trapvars
      => (stale \/ AllAwait)'
  BY TrapAwaitsStep
<1> QED
  BY <1>1, TrapAwaitsInit, InvariantTrapTInv, InvariantTrapLinked, PTL DEF TrapSpec

(* Until a free descriptor is freed again the kernel implements the mailboxes *)
(* also when its programs trap: to a manager a pass-up is a message like any  *)
(* other, a stub run by a handler is a call of the thread that trapped, and   *)
(* the thread that a handler parks on blockedq is not one that waits (trap.c  *)
(* and syscall_other against send, recv and thread_free).                     *)
THEOREM TrapsImplementMailboxUntilStale == TrapSpec => MailboxUntilStale
<1>1. /\ TrapTInv /\ (stale \/ TrapLinked) /\ NoLostWakeup /\ TreeInv /\ TrapCounted
      /\ MessagesConserved /\ (stale \/ AllAwait) /\ [TrapNext]_trapvars
      => [stale' \/ Mail!Next]_(Mail!mailvars)
  BY TrapMailStep DEF MailStep
<1>2. TrapInit => Mail!Init
  BY MailboxInit DEF TrapInit
<1> QED
  BY <1>1, <1>2, InvariantTrapTInv, InvariantTrapLinked, TrapsLoseNoWakeup,
     InvariantTrapTree, InvariantTrapCount, TrapsConserveMessages, InvariantTrapAwaits, PTL
     DEF TrapSpec, MailboxUntilStale

(* In a system that serves no dead thread it implements them for ever.        *)
THEOREM TrapsImplementMailbox ==
  ASSUME Orderly
  PROVE  TrapSpec => ImplementsMailbox
  BY InvariantTrapReq, TrapsImplementMailboxUntilStale, PTL
     DEF MailboxUntilStale, ImplementsMailbox, Mail!Spec
=============================================================================
