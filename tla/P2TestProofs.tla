---------------------------- MODULE P2TestProofs -----------------------------
(***************************************************************************)
(* The kernel with the programs of the test is one of the systems with     *)
(* traps, until a program stops the machine: what holds of all of these    *)
(* holds of the test, for every value of the constants, every choice of    *)
(* its phases and every value of the words that are undefined.             *)
(***************************************************************************)
EXTENDS P2Test, TrapsProofs

(***************************************************************************)
(* Steps.  Every step of a program, of the SSI or of an interrupt is one   *)
(* that module Traps has, or changes nothing that Traps knows of.          *)
(***************************************************************************)

\* the kernel proper, whatever becomes of the variables of the programs
KernelStep == Next /\ ForgetTheDead

LEMMA RunIsProgram ==
  ASSUME NEW t \in Tcb, RunSend(t) \/ RunRecv(t) \/ RunStub(t)
  PROVE  KernelStep
<1>1. CASE RunSend(t)
  <2>1. PICK dest \in Tcb, value \in Values : Send(t, dest, value)
    BY <1>1 DEF RunSend
  <2>2. Program(t)
    BY <2>1 DEF Program
  <2> QED BY <1>1, <2>2 DEF RunSend, InKernel, KernelStep, Next
<1>2. CASE RunRecv(t)
  <2>1. PICK sender \in Tcb \cup {NULL} : Recv(t, sender)
    BY <1>2 DEF RunRecv
  <2>2. Program(t)
    BY <2>1 DEF Program
  <2> QED BY <1>2, <2>2 DEF RunRecv, InKernel, KernelStep, Next
<1>3. CASE RunStub(t)
  <2>1. (\E req \in Request : Ask(t, req)) \/ AwaitReply(t)
    BY <1>3 DEF RunStub
  <2>2. Program(t)
    BY <2>1 DEF Program
  <2> QED BY <1>3, <2>2 DEF RunStub, InKernel, KernelStep, Next
<1> QED BY <1>1, <1>2, <1>3

LEMMA RunIsKernel ==
  ASSUME RunBoot \/ RunCreate \/ RunService \/ RunInterrupt \/ RunKernel
  PROVE  (KernelStep /\ (RunKernel => ~HandlerResumed)) \/ Handler \/ Overwritten
<1>1. RunBoot => KernelStep
  BY DEF RunBoot, InKernel, KernelStep, Next
<1>2. RunCreate => KernelStep
  BY DEF RunCreate, KernelStep, Next, Service
<1>3. RunService => KernelStep
  BY DEF RunService, KernelStep, Next
<1>4. RunInterrupt => KernelStep
  BY DEF RunInterrupt, InKernel, KernelStep, Next, Interrupt
<1>5. (Scheduler \/ Stopped) /\ InKernel => KernelStep /\ ~HandlerResumed
  <2>1. Scheduler \/ Stopped => ~HandlerResumed
    BY DEF HandlerResumed, Scheduler, Dispatch, empty_readyq_h, Stopped, Halted
  <2> QED BY <2>1 DEF InKernel, KernelStep, Next
<1>6. RunKernel => (KernelStep /\ ~HandlerResumed) \/ Handler \/ Overwritten
  BY <1>5 DEF RunKernel
<1> QED BY <1>1, <1>2, <1>3, <1>4, <1>6

\* a program stops the machine
Halting == \E t \in Tcb, how \in {"halt", "panic", "wild"} : Stop(t, how)

LEMMA P2IsTrapStep == [P2Next]_allvars => [TrapNext \/ Halting]_trapvars
<1> SUFFICES ASSUME P2Next PROVE TrapNext \/ Halting \/ UNCHANGED trapvars
  BY DEF allvars
<1>1. CASE RunKernel \/ (~HandlerResumed /\ (RunBoot \/ RunCreate \/ RunService \/ RunInterrupt))
  BY <1>1, RunIsKernel DEF KernelStep, TrapNext
<1>2. CASE Run /\ ~HandlerResumed
  <2>1. PICK t \in Tcb : RunSend(t) \/ RunRecv(t) \/ RunStub(t) \/ RunLocal(t) \/
                         RunPanic(t) \/ RunTrap(t) \/ RunStop(t)
    BY <1>2 DEF Run
  <2>2. CASE RunSend(t) \/ RunRecv(t) \/ RunStub(t)
    BY <1>2, <2>2, RunIsProgram DEF KernelStep, TrapNext
  <2>3. CASE RunLocal(t)
    BY <2>3 DEF RunLocal, trapvars
  <2>4. CASE RunTrap(t)
    BY <2>4 DEF RunTrap, Trap, TrapNext
  <2>5. CASE RunPanic(t)
    BY <2>5 DEF RunPanic
  <2>6. CASE RunStop(t)
    BY <2>6 DEF RunStop, Halting
  <2> QED BY <2>1, <2>2, <2>3, <2>4, <2>5, <2>6
<1> QED BY <1>1, <1>2 DEF P2Next

\* so that what Traps keeps, and the stop of the machine keeps, the test keeps
LEMMA P2IsTraps == P2Spec => TrapInit /\ [][TrapNext \/ Halting]_trapvars
<1>1. P2Init => TrapInit
  BY DEF P2Init
<1> QED BY <1>1, P2IsTrapStep, PTL DEF P2Spec

-----------------------------------------------------------------------------
(* The stop of the test, which leaves every invariant of the traps but the   *)
(* honesty of the end: the test halts the machine with its servers alive.    *)

HaltLeaves ==
  /\ kpc = "thread" /\ kpc' \in {"halt", "panic", "wild"} /\ current_thread \in Tcb
  /\ UNCHANGED <<mikabooqvars, current_thread, thread_count, iovars, asked,
                 ssivars, termvars, trapped>>

LEMMA HaltStep == Halting => HaltLeaves
  BY DEF Halting, Stop, Running, HaltLeaves

LEMMA HaltKeepsTypes == TrapTInv /\ HaltLeaves => TrapTInv'
<1> SUFFICES ASSUME TrapTInv, HaltLeaves PROVE TrapTInv'
  OBVIOUS
<1> USE TypeOKParts, TcbFacts DEF TrapTInv, TInv
<1>1. /\ ThreadTypes' /\ MsgTypes' /\ ProcTypes' /\ ListTypes' /\ IOTypes'
      /\ SsiTypes' /\ TermTypes'
  BY Keep DEF HaltLeaves, mikabooqvars
<1>2. RunTypes' /\ MgrsAreTcbs' /\ trapped' \in [Tcb -> Fate] /\ ~InHandler'
  BY DEF HaltLeaves, RunTypes, MgrsAreTcbs, mikabooqvars, procvars, InHandler
<1>3. ControlOK'
  BY DEF HaltLeaves, ControlOK, iovars, ssivars
<1> QED BY <1>1, <1>2, <1>3

LEMMA HaltKeepsMessages ==
  ASSUME TrapTInv, TrapTInv', HaltLeaves
  PROVE  /\ NoLostWakeup => NoLostWakeup'
         /\ MsgInv => MsgInv'
<1>1. TInv /\ TInv' /\ TypeOK /\ TypeOK'
  BY DEF TrapTInv, TInv
<1>2. UNCHANGED <<threadvars, msgvars>>
  BY DEF HaltLeaves, mikabooqvars
<1>3. NoLostWakeup => NoLostWakeup'
  BY <1>1, <1>2, QuietKeepsWaits DEF HaltLeaves, NoNewWait, threadvars, msgvars
<1>4. LivesOrEmpty
  BY <1>2 DEF LivesOrEmpty, Live, threadvars
<1> QED BY <1>1, <1>2, <1>3, <1>4, QuietConserves DEF HaltLeaves

LEMMA HaltKeepsTree ==
  ASSUME TrapTInv, HaltLeaves, TreeInv
  PROVE  TreeInv' /\ (FreeProcessHasNoManager => FreeProcessHasNoManager' /\ ManagersStay)
<1> USE TypeOKParts, TcbFacts DEF TrapTInv, TInv
<1>1. UNCHANGED treevars /\ UNCHANGED <<dying, victim, procvars>>
  BY DEF HaltLeaves, mikabooqvars, treevars, procvars, threadvars, termvars
<1>2. ssi_pc # "terminate" /\ ssi_pc' = ssi_pc
  BY DEF HaltLeaves, TreeInv, TermShape, Running, ssivars
<1> QED BY <1>1, <1>2, QuietTree, QuietManagers DEF procvars, Allocated

LEMMA HaltKeepsLists ==
  ASSUME TrapTInv, TrapTInv', HaltLeaves, TrapLinked
  PROVE  TrapLinked'
<1> USE DEF TrapTInv
<1>1. PICK P \in SUBSET Tcb : ParkedAre(P) /\ LinkedWith(P)
  BY DEF TrapLinked
<1>2. CpuKept /\ UNCHANGED <<links, threadvars, thread_h>>
  BY DEF HaltLeaves, CpuKept, mikabooqvars
<1>3. LinkedWith(P)'
  BY <1>1, <1>2, QuietLinked DEF threadvars
<1>4. ParkedAre(P)' /\ HandlerReady'
  BY <1>1 DEF HaltLeaves, ParkedAre, PassedUp, HandlerReady, InHandler
<1> QED BY <1>3, <1>4 DEF TrapLinked

LEMMA HaltKeepsCount == HaltLeaves /\ TrapCounted => TrapCounted'
<1> SUFFICES ASSUME HaltLeaves, TrapCounted PROVE TrapCounted'
  OBVIOUS
<1>1. UNCHANGED <<t_status, t_pcb, thread_count, stale>> /\ kpc # "boot"
  BY DEF HaltLeaves, mikabooqvars, threadvars, termvars
<1>2. SsiLive'
  BY <1>1 DEF TrapCounted, SsiLive, Live
<1>3. Counted => Counted'
  BY <1>1, CountStep DEF NobodyBorn, Live
<1> QED BY <1>1, <1>2, <1>3 DEF TrapCounted

LEMMA HaltKeepsCalls == HaltLeaves /\ AllAwait => AllAwait'
  BY DEF HaltLeaves, AllAwait, Awaits, Live, mikabooqvars, threadvars

-----------------------------------------------------------------------------
(* What holds of the test.                                                   *)

\* the inductive invariant: that of the systems with traps
TestInv ==
  /\ TrapTInv /\ NoLostWakeup /\ MsgInv /\ TreeInv /\ FreeProcessHasNoManager
  /\ stale \/ TrapLinked
  /\ stale \/ AllAwait
  /\ TrapCounted

LEMMA TestInvStep == TestInv /\ [TrapNext \/ Halting]_trapvars => TestInv' /\ ManagersStay
<1> SUFFICES ASSUME TestInv, [TrapNext \/ Halting]_trapvars PROVE TestInv' /\ ManagersStay
  OBVIOUS
<1> USE DEF TestInv
<1>1. CASE [TrapNext]_trapvars
  <2>1. TrapTInv'
    BY <1>1, TrapTStep
  <2>2. NoLostWakeup' /\ MsgInv'
    BY <1>1, <2>1, TrapWakeStep, TrapMsgStep
  <2>3. TreeInv' /\ FreeProcessHasNoManager' /\ ManagersStay
    BY <1>1, TrapTreeStep, TrapManagersStep
  <2>4. (stale \/ TrapLinked)' /\ TrapCounted'
    BY <1>1, <2>1, TrapLinkedStep, TrapCountStep
  <2>5. (stale \/ AllAwait)'
    BY <1>1, TrapAwaitsStep
  <2> QED BY <2>1, <2>2, <2>3, <2>4, <2>5
<1>2. CASE Halting
  <2>1. HaltLeaves /\ UNCHANGED stale
    BY <1>2, HaltStep DEF HaltLeaves, termvars
  <2>2. TrapTInv'
    BY <2>1, HaltKeepsTypes
  <2>3. NoLostWakeup' /\ MsgInv'
    BY <2>1, <2>2, HaltKeepsMessages
  <2>4. TreeInv' /\ FreeProcessHasNoManager' /\ ManagersStay
    BY <2>1, HaltKeepsTree
  <2>5. (stale \/ TrapLinked)' /\ TrapCounted'
    BY <2>1, <2>2, HaltKeepsLists, HaltKeepsCount
  <2>6. (stale \/ AllAwait)'
    BY <2>1, HaltKeepsCalls
  <2> QED BY <2>2, <2>3, <2>4, <2>5, <2>6
<1> QED BY <1>1, <1>2

LEMMA TestInvInit == TrapInit => TestInv
<1> SUFFICES ASSUME TrapInit PROVE TestInv
  OBVIOUS
<1>1. TrapTInv /\ NoLostWakeup /\ FreeProcessHasNoManager
  BY TrapTInit, TrapWakeInit, TrapManagersInit
<1>2. MsgInv /\ TreeInv
  BY MsgInit, TreeInit DEF TrapInit
<1>3. TrapLinked /\ TrapCounted /\ AllAwait
  BY TrapLinkedInit, TrapCountInit, TrapAwaitsInit
<1> QED BY <1>1, <1>2, <1>3 DEF TestInv

LEMMA InvariantTest == P2Spec => []TestInv
  BY P2IsTraps, TestInvInit, TestInvStep, PTL

(* The test conserves the message descriptors, also those of the phases that *)
(* die with messages in their queues, and loses no wake-up, though its       *)
(* threads are preempted between any two of their system calls (p2test.c     *)
(* against send, recv and __terminate_thread_s).                             *)
THEOREM TestConservesMessages == P2Spec => [](MessagesConserved /\ NoLostWakeup)
<1>1. TestInv => MessagesConserved /\ NoLostWakeup
  BY MsgInvConserves DEF TestInv
<1> QED BY <1>1, InvariantTest, PTL

(* Until a free descriptor is freed again, every thread of the test is on    *)
(* the list its state and its traps say, thread_count counts the threads and *)
(* the process tree is sound, in whatever order the phases and the           *)
(* grandchildren are started and terminated: the part of NothingLeftBehind   *)
(* that does not depend on which programs the test runs.                     *)
THEOREM TestSoundUntilStale ==
  P2Spec => [](stale \/ (TrapListsOK /\ ThreadCountExact /\ TreeOK))
<1>1. TestInv => stale \/ (TrapListsOK /\ ThreadCountExact /\ TreeOK)
  BY LinkedTraps, TreeSound DEF TestInv, TrapCounted, Counted
<1> QED BY <1>1, InvariantTest, PTL

(* The managers that p5 registers stay until its process is deleted, and     *)
(* nobody inherits them (p5 against __setmgr and clean_mgr).                 *)
THEOREM TestFindsFixedManagers == P2Spec => []FreeProcessHasNoManager /\ ManagersFixed
<1>1. TestInv /\ [P2Next]_allvars
        => [\A p \in Proc, k \in Mgr :
              mgrs[p][k] # NULL => mgrs'[p][k] = mgrs[p][k] \/ ~Allocated(p)']_vars
  BY P2IsTrapStep, TestInvStep DEF ManagersStay
<1>2. TestInv => FreeProcessHasNoManager
  BY DEF TestInv
<1> QED BY <1>1, <1>2, InvariantTest, PTL DEF P2Spec, ManagersFixed

(* The mailboxes of the test, its print and lock servers' among them, keep   *)
(* the order of each sender, lose and repeat nothing and answer every stub   *)
(* with the SSI's message, until a free descriptor is freed again (p2test.c  *)
(* against send, recv, the stubs and __terminate_thread_s).                  *)
THEOREM TestMailboxesUntilStale == P2Spec => MailboxUntilStale
<1>1. TestInv /\ [TrapNext \/ Halting]_trapvars => [stale' \/ Mail!Next]_(Mail!mailvars)
  <2> SUFFICES ASSUME TestInv, [TrapNext \/ Halting]_trapvars, ~stale'
               PROVE  MailStep
    BY DEF MailStep
  <2>1. CASE [TrapNext]_trapvars
    BY <2>1, TrapMailStep, MsgInvConserves DEF TestInv
  <2>2. CASE Halting
    <3>1. UNCHANGED <<t_status, t_wait4sender, t_msgq, asked, victim>>
      BY <2>2, HaltStep DEF HaltLeaves, mikabooqvars, threadvars, msgvars, termvars
    <3> QED BY <3>1, QuietMail
  <2> QED BY <2>1, <2>2
<1>2. TrapInit => Mail!Init
  BY MailboxInit DEF TrapInit
<1> QED
  BY <1>1, <1>2, InvariantTest, P2IsTraps, PTL DEF MailboxUntilStale
=============================================================================
