------------------------------- MODULE P2Test -------------------------------
(***************************************************************************)
(* The kernel running the programs of tests/p2test.c: a thread `test` that *)
(* starts a print server and a lock server and then, one phase at a time,  *)
(* processes that exercise the kernel.                                     *)
(*                                                                         *)
(* A program is the sequence of its system calls, stubs and accesses to    *)
(* the variables it shares, with the macros of the source (tty0print,      *)
(* CSIN, CSOUT) written out.  The threads of module Traps then take the    *)
(* step that their program says instead of any step they like.             *)
(*                                                                         *)
(* Two words that the test depends on are undefined: GET_MYTHREADID is     *)
(* answered with the word behind its request, which has one word only      *)
(* (ssi.c:100, nucleus.h:185-189), and the SSI reads the request of a trap *)
(* handler where later frames may have overwritten it.  The model leaves   *)
(* them open and remembers when one was not what the test takes it for     *)
(* (the variable undefined).  That a request of a handler is read as one   *)
(* to start a thread, on whatever state, it does not follow.               *)
(*                                                                         *)
(* The timer is a little less free than in Kernel: a slice lasts for one   *)
(* step of its thread at least, and the terminal completes a command       *)
(* before the slice of the idle processor ends.                            *)
(***************************************************************************)
EXTENDS Traps

CONSTANTS
  Phases,         \* the phases of test that are run, in order
  NGRANDCHILDREN,
  nothing,        \* the payload of a message that is only a signal
  SYNCCODE

ASSUME P2TestAssumption ==
  /\ [thread : Tcb] \cup {nothing, SYNCCODE} \subseteq Values
  /\ NGRANDCHILDREN \in Nat
  /\ InitThreads = 1

VARIABLES
  prog,        \* the program that each thread runs
  pc,          \* its place in it
  ret,         \* what its last msgrecv or stub returned: sender and word
  loc,         \* the local variable of its program
  var,         \* the global variables
  stackalloc,  \* how many pages have been taken for stacks
  sp,          \* the page its state_t variable names
  page,        \* the page it runs on
  errno,
  answer,      \* the word the SSI answers it with
  undefined,   \* history: was an undefined word other than the test expects?
  ran          \* has the current thread made a step in this slice?

p2vars  == <<prog, pc, ret, loc, var, stackalloc, sp, page, errno, answer,
             undefined, ran>>
allvars == <<trapvars, p2vars>>

\* what only the steps of the programs themselves change
private == <<loc, var, stackalloc, sp>>
\* what only the services change
given   == <<prog, page, errno, answer, undefined>>

-----------------------------------------------------------------------------
Do(op, who, val) == <<[op |-> op, who |-> who, val |-> val]>>

Msgsend(dest, word) == Do("send", dest, word)
Msgrecv(sender)     == Do("recv", sender, "nothing")
Stub(tag, arg)      == Do("stub", tag, arg)
Set(v, word)        == Do("set", v, word)      \* a global variable
Hold(word)          == Do("hold", "local", word)   \* a local one
Check(x, y)         == Do("check", x, y)       \* if (x != y) panic(...)
Panic               == Do("panic", "nobody", "nothing")
Raise(trap)         == Do("trap", trap, "nothing")
HALT                == Do("stop", "halt", "nothing")
PANIC               == Do("stop", "panic", "nothing")

ttyprintstring == Stub("DO_IO", "nothing")     \* of one character
tty0print      == Msgsend("printid", "nothing") \o Msgrecv("printid")

\* mutant of cs_thread: the next client is admitted before CSOUT
cs_thread_no_csout == Msgrecv("anybody") \o Msgsend("sender", "nothing")

\* the servers loop for ever: after its last instruction a program continues
\* with its first one
tty0out_thread == Msgrecv("anybody") \o Hold("sender") \o ttyprintstring \o
                  Msgsend("local", "nothing")
cs_thread      == Msgrecv("anybody") \o Msgsend("sender", "nothing") \o
                  Msgrecv("sender")

CSIN  == Msgsend("csid", "nothing") \o Msgrecv("csid")
CSOUT == Msgsend("csid", "nothing")

\* state.sp = (stackalloc -= QPAGE): a load and a store
TakePage == Do("load", "local", "nothing") \o Do("store", "local", "nothing")
NewStack == CSIN \o TakePage \o CSOUT

\* panic(), in which the program ends that calls it
panic == tty0print \o tty0print \o PANIC

Create(p)    == NewStack \o Stub("CREATE_PROCESS", p)
Manager(p)   == NewStack \o Stub("CREATE_THREAD", p)
Times(n, s)  == FlattenSeq([i \in 1..n |-> s])

p2 == tty0print \o tty0print \o
      Stub("GET_MYTHREADID", "nothing") \o Check("got", "p2t") \o
      Msgrecv("anybody") \o Hold("sender") \o Check("got", "SYNCCODE") \o
      tty0print \o Check("local", "testt") \o
      Stub("GET_PROCESSID", "local") \o Set("p1p", "got") \o
      Stub("GET_MYTHREADID", "nothing") \o Stub("GET_PROCESSID", "got") \o
      Stub("GET_PARENTPROCID", "got") \o Check("got", "p1p") \o
      Times(2, Stub("GET_CPUTIME", "nothing")) \o tty0print \o
      Msgsend("local", "nothing") \o Msgrecv("local") \o
      Stub("TERMINATE_THREAD", "nothing") \o Panic

p4 == tty0print \o Msgrecv("anybody") \o Msgsend("sender", "nothing") \o
      Msgrecv("anybody") \o Create("p4") \o Hold("got") \o
      Msgsend("local", "nothing") \o Msgrecv("local") \o
      Stub("TERMINATE_PROCESS", "nothing") \o Panic

p5 == tty0print \o Msgrecv("anybody") \o
      Manager("p5p") \o Stub("SETPGMMGR", "got") \o
      Manager("p5m") \o Stub("SETTLBMGR", "got") \o
      Manager("p5s") \o Stub("SETSYSMGR", "got") \o
      Raise("syscall") \o tty0print \o Raise("badaddr") \o Panic

p5p == Msgrecv("anybody") \o tty0print \o Stub("TERMINATE_PROCESS", "nothing")
p5m == Msgrecv("anybody") \o Hold("sender") \o tty0print \o Msgsend("local", "nothing")
p5s == Msgrecv("anybody") \o Msgsend("sender", "nothing")

p6 == tty0print \o Raise("badaddr") \o Panic
p7 == tty0print \o Raise("syscall") \o Panic

p8 == tty0print \o Stub("GET_MYTHREADID", "nothing") \o Hold("got") \o
      Times(2, Create("p8child") \o Msgsend("got", "local")) \o
      Times(2 * NGRANDCHILDREN, Msgrecv("anybody")) \o
      Stub("TERMINATE_PROCESS", "nothing") \o Panic

p8child == Msgrecv("anybody") \o Hold("got") \o
           Times(NGRANDCHILDREN, Create("p8grandchild") \o Msgsend("got", "local")) \o
           Msgrecv("anybody") \o Panic

p8grandchild == Msgrecv("anybody") \o Msgsend("got", "nothing") \o
                Msgrecv("anybody") \o Panic

\* the part of test that runs a phase
Phase(p) ==
  CASE p = "p2" -> Create(p) \o Set("p2t", "got") \o Msgsend("p2t", "SYNCCODE") \o
                   tty0print \o Msgrecv("p2t") \o tty0print
    [] p = "p4" -> Create(p) \o Hold("got") \o
                   Times(2, Msgsend("local", "nothing") \o Msgrecv("local")) \o
                   Stub("GET_ERRNO", "nothing") \o Check("got", "error") \o
                   tty0print \o tty0print
    [] p = "p5" -> Create(p) \o Hold("got") \o
                   Msgsend("local", "nothing") \o Msgrecv("local") \o
                   tty0print \o tty0print
    [] OTHER    -> Create(p) \o Msgrecv("got") \o tty0print

test == ttyprintstring \o TakePage \o Stub("CREATE_THREAD", "tty0out_thread") \o
        Set("printid", "got") \o tty0print \o
        Stub("GET_MYTHREADID", "nothing") \o Set("testt", "got") \o
        TakePage \o Stub("CREATE_PROCESS", "cs_thread") \o Set("csid", "got") \o
        tty0print \o FlattenSeq([i \in DOMAIN Phases |-> Phase(Phases[i])]) \o
        tty0print \o HALT

Program_of ==
  [test |-> test, panic |-> panic, tty0out_thread |-> tty0out_thread,
   cs_thread |-> cs_thread,
   p2 |-> p2, p4 |-> p4, p5 |-> p5, p5p |-> p5p, p5m |-> p5m, p5s |-> p5s,
   p6 |-> p6, p7 |-> p7, p8 |-> p8, p8child |-> p8child,
   p8grandchild |-> p8grandchild]
-----------------------------------------------------------------------------
code(t)  == Program_of[prog[t]]
instr(t) == code(t)[pc[t]]
Says(t, op) == Running(t) /\ instr(t).op = op

\* what a name in an instruction of t stands for
Val(t, name) ==
  CASE name = "sender"      -> ret[t].sender
    [] name = "got"         -> ret[t].word
    [] name = "local"       -> loc[t]
    [] name = "anybody"     -> NULL
    [] name = "error"       -> 1
    [] name = "nothing"     -> nothing
    [] name = "SYNCCODE"    -> SYNCCODE
    [] name \in DOMAIN var -> var[name]

After(t) == (pc[t] % Len(code(t))) + 1
Advance(S) == pc' = [t \in Tcb |-> IF t \in S THEN After(t) ELSE pc[t]]

\* a msgrecv that has blocked returns in the step that resumes its thread
Resumed == {t \in Tcb : Woken(t)}
Return(S, sender, word) ==
  ret' = [t \in Tcb |-> IF t \in S THEN [sender |-> sender, word |-> word] ELSE ret[t]]
\* a stub is not given the sender
Answered_with(S, words) ==
  ret' = [t \in Tcb |-> IF t \in S THEN [ret[t] EXCEPT !.word = words[t]] ELSE ret[t]]

\* the payload that carries a word, and the word that a payload carries
Payload_of(word) == IF word \in Tcb THEN [thread |-> word] ELSE word
Word_of(payload) == IF payload \in [thread : Tcb] THEN payload.thread ELSE payload

\* a program step that is a step of the kernel proper
InKernel == UNCHANGED termvars /\ ForgetTheDead

RunSend(t) ==
  LET dest == Val(t, instr(t).who)
      word == Val(t, instr(t).val)
  IN  /\ Says(t, "send")
      /\ dest \in Tcb /\ Payload_of(word) \in Values
      /\ Send(t, dest, Payload_of(word))
      /\ Advance({t} \cup Resumed)
      /\ Return(Resumed, t, word)
      /\ UNCHANGED <<private, given>> /\ InKernel

RunRecv(t) ==
  LET sender == Val(t, instr(t).who) IN
  /\ Says(t, "recv")
  /\ sender \in Tcb \cup {NULL} /\ Recv(t, sender)
  /\ \/ Matching(t, sender) = {} /\ UNCHANGED <<pc, ret>>
     \/ \E i \in DOMAIN t_msgq[t] :
          /\ IsFirstMatch(i, t, sender)
          /\ Advance({t})
          /\ Return({t}, t_msgq[t][i].m_sender, Word_of(t_msgq[t][i].m_value))
  /\ UNCHANGED <<private, given>> /\ InKernel

\* the request that a stub builds
Request_of(t) ==
  LET tag == instr(t).who IN
  [tag |-> tag, arg |-> CASE tag = "DO_IO"   -> terminal0
                          [] tag \in MgrTags -> Val(t, instr(t).val)
                          [] OTHER           -> NULL]

RunStub(t) ==
  /\ Says(t, "stub")
  /\ \/ /\ Request_of(t) \in Request /\ Ask(t, Request_of(t))
        /\ UNCHANGED <<pc, ret>>
     \/ /\ AwaitReply(t)
        /\ IF Matching(t, SSI) = {}
           THEN UNCHANGED <<pc, ret>>
           ELSE Advance({t}) /\ Answered_with({t}, answer)
  /\ UNCHANGED <<private, given>> /\ InKernel

RunLocal(t) ==
  LET i == instr(t) IN
  /\ Running(t) /\ Advance({t})
  /\ \/ /\ i.op = "hold"  /\ loc' = [loc EXCEPT ![t] = Val(t, i.val)]
        /\ UNCHANGED <<var, stackalloc, sp>>
     \/ /\ i.op = "set"   /\ var' = [var EXCEPT ![i.who] = Val(t, i.val)]
        /\ UNCHANGED <<loc, stackalloc, sp>>
     \/ /\ i.op = "load"  /\ sp' = [sp EXCEPT ![t] = stackalloc + 1]
        /\ UNCHANGED <<loc, var, stackalloc>>
     \/ /\ i.op = "store" /\ stackalloc' = sp[t]
        /\ UNCHANGED <<loc, var, sp>>
     \/ i.op = "check" /\ Val(t, i.who) = Val(t, i.val) /\ UNCHANGED private
  /\ UNCHANGED <<vars, ret, given, trapped>>

\* a check fails, or the program reaches a call of panic()
RunPanic(t) ==
  /\ \/ Says(t, "check") /\ Val(t, instr(t).who) # Val(t, instr(t).val)
     \/ Says(t, "panic")
  /\ prog' = [prog EXCEPT ![t] = "panic"]
  /\ pc'   = [pc EXCEPT ![t] = 1]
  /\ UNCHANGED <<trapvars, ret, private, page, errno, answer, undefined>>

RunTrap(t) ==
  /\ Says(t, "trap")
  /\ \/ instr(t).who = "syscall" /\ syscall_other(t)
     \/ instr(t).who = "badaddr" /\ __trap_h(t, "tlb_mgr")
  /\ Advance(Resumed)
  /\ Return(Resumed, t, nothing)
  /\ UNCHANGED <<private, given>>

\* the program stops the machine
Stop(t, how) ==
  /\ Running(t) /\ kpc' = how
  /\ UNCHANGED <<mikabooqvars, current_thread, thread_count, iovars, asked,
                 ssivars, termvars, trapped>>

\* with HALT() or PANIC(), or by a msgsend to what is no thread, whose address
\* send() follows
RunStop(t) ==
  /\ \/ Says(t, "stop")
        /\ \E how \in {"halt", "panic"} : instr(t).who = how /\ Stop(t, how)
     \/ Says(t, "send") /\ Val(t, instr(t).who) \notin Tcb /\ Stop(t, "wild")
  /\ UNCHANGED <<pc, ret, private, given>>

Run == \E t \in Tcb : RunSend(t) \/ RunRecv(t) \/ RunStub(t) \/ RunLocal(t) \/
                      RunPanic(t) \/ RunTrap(t) \/ RunStop(t)

-----------------------------------------------------------------------------
\* what the program has passed to the stub
argument == Val(applicant, instr(applicant).val)

\* get_processid_s and get_parentprocid_s are to follow what is no pointer to
\* a thread or to a process
NoPointer ==
  \/ request.tag = "GET_PROCESSID"    /\ argument \notin Tcb
  \/ request.tag = "GET_PARENTPROCID" /\ argument \notin Proc

\* the words that a service may answer with: GET_MYTHREADID with the word
\* behind its request, a thread or none
Answers ==
  CASE NoPointer -> {nothing}
    [] request.tag = "GET_ERRNO"        -> {errno[applicant]}
    [] request.tag = "GET_MYTHREADID"   -> Tcb \cup {nothing}
    [] request.tag = "GET_PROCESSID"    -> {t_pcb[argument]}
    [] request.tag = "GET_PARENTPROCID" -> {p_parent[argument]}
    [] OTHER -> {nothing}

\* GET_MYTHREADID has answered with another word than its caller
Misanswered(word) == request.tag = "GET_MYTHREADID" /\ word # applicant

\* mutant of SetErrno: nobody is told that the sender is dead
SetErrno_never(S) == UNCHANGED errno

\* the threads that waited for the victim find errno set; nothing clears it
\* but the recycling of the descriptor
SetErrno(S) == errno' = [t \in Tcb |-> IF t \in S THEN 1 ELSE errno[t]]

\* the SSI starts a thread on its program and its stack, ...
RunCreate ==
  LET new == Head(thread_h)
      i   == instr(applicant)
  IN  /\ create_thread_s \/ create_process_s
      /\ answer' = [answer EXCEPT ![applicant] =
                      IF thread_h' = thread_h THEN NULL ELSE new]
      /\ IF thread_h' = thread_h
         THEN UNCHANGED <<prog, page, pc, errno>>
         ELSE /\ prog'  = [prog  EXCEPT ![new] = i.val]
              /\ page'  = [page  EXCEPT ![new] = sp[applicant]]
              /\ pc'    = [pc    EXCEPT ![new] = 1]
              /\ errno' = [errno EXCEPT ![new] = 0]
      /\ UNCHANGED <<ret, private, undefined>> /\ ForgetTheDead

\* ... or does something else: what it answers is returned by the stub that
\* it resumes, and NULL by the msgrecv of whoever waits for a dying thread
RunService ==
  /\ Service /\ ~Serving({"CREATE_THREAD", "CREATE_PROCESS"})
  /\ ForgetTheDead
  /\ Serving(GetTags) /\ kpc' = "wild" => NoPointer
  /\ IF ssi_pc = "serve" /\ ssi_pc' = "reply"
     THEN \E word \in Answers :
            /\ answer' = [answer EXCEPT ![applicant] = word]
            /\ undefined' = (undefined \/ Misanswered(word))
     ELSE UNCHANGED <<answer, undefined>>
  /\ Advance(Resumed)
  /\ IF victim # NULL
     THEN SetErrno(Resumed) /\ Return(Resumed, NULL, nothing)
     ELSE UNCHANGED errno /\ Answered_with(Resumed, answer)
  /\ UNCHANGED <<prog, page, private>>

\* boot loads test, and the SSI, which has no program
RunBoot ==
  /\ Boot
  /\ prog' = IF kpc' = "scheduler" THEN [prog EXCEPT ![Head(thread_h)] = "test"]
                                   ELSE prog
  /\ UNCHANGED <<pc, ret, private, page, errno, answer, undefined>> /\ InKernel

RunInterrupt ==
  /\ \/ /\ interval_timer_h
        /\ kpc = "thread" => ran
        /\ kpc = "idle" => tty = "ready"
     \/ TerminalDone
     \/ acknowledge
  /\ Advance(Resumed)
  /\ Answered_with(Resumed, [t \in Tcb |-> nothing])
  /\ UNCHANGED <<private, given>> /\ InKernel

\* the rest of the kernel, which no program notices
RunKernel ==
  /\ \/ (Scheduler \/ Stopped) /\ InKernel /\ UNCHANGED undefined
     \/ Handler /\ UNCHANGED undefined
     \/ Overwritten /\ undefined' = TRUE
        /\ request'.tag \notin {"CREATE_THREAD", "CREATE_PROCESS"}
  /\ UNCHANGED <<pc, ret, private, prog, page, errno, answer>>

-----------------------------------------------------------------------------
P2Init ==
  /\ TrapInit
  /\ prog = [t \in Tcb |-> NULL]
  /\ pc   = [t \in Tcb |-> 1]
  /\ ret  = [t \in Tcb |-> [sender |-> NULL, word |-> nothing]]
  /\ loc  = [t \in Tcb |-> NULL]
  /\ var  = [v \in {"printid", "csid", "testt", "p2t", "p1p"} |-> NULL]
  /\ stackalloc = 0
  /\ sp   = [t \in Tcb |-> 0]
  /\ page = [t \in Tcb |-> 0]
  /\ errno = [t \in Tcb |-> 0]
  /\ answer = [t \in Tcb |-> nothing]
  /\ undefined = FALSE
  /\ ran = FALSE

P2Next ==
  \/ ~HandlerResumed /\ Run /\ ran' = TRUE
  \/ ~HandlerResumed /\ (RunBoot \/ RunCreate \/ RunService \/ RunInterrupt)
     /\ ran' = FALSE
  \/ RunKernel /\ ran' = FALSE

\* The machine never stops while something can be done.
P2Spec == P2Init /\ [][P2Next]_allvars /\ WF_allvars(P2Next)

-----------------------------------------------------------------------------
(* No check of a program fails, and nobody survives its termination or an   *)
(* error that nobody manages: no panic() of p2test.c is called, as long as  *)
(* no undefined word is other than the test takes it for.                   *)
TestNeverFails ==
  undefined \/ \A t \in Tcb : Live(t) => prog[t] # "panic"

(* Every thread runs on a stack of its own: the lock server keeps the       *)
(* accesses to stackalloc apart (CSIN, CSOUT and cs_thread).                *)
StacksDistinct ==
  \A t, u \in Tcb : Live(t) /\ Live(u) /\ t # u => page[t] # page[u]

(* The test finishes: every msgrecv of it returns, also those from a thread *)
(* that dies, the kernel finds no deadlock and never panics.  Nothing is    *)
(* said of a test in which an undefined word was not what it should be: a   *)
(* thread identifier that is not the caller's, or the request of a trap     *)
(* handler that was overwritten on its stack, read as none or as another    *)
(* one (test(), get_mythreadid, __trap_h).                                  *)
TestCompletes == <>(kpc = "halt" \/ undefined)

(* The test leaves the kernel as it found it: what its phases created is    *)
(* gone down to the grandchildren, counted out and freed once (p4, p6, p7,  *)
(* p8 against __terminate_process_s).  p2 may still be there: it terminates *)
(* when its last msgrecv returns, but nothing is sent to it (p2test.c:242). *)
NothingLeftBehind ==
  kpc = "halt" =>
    /\ \A t \in Tcb : Live(t) =>
         prog[t] \in {"test", "tty0out_thread", "cs_thread", "p2"}
    /\ ThreadCountExact /\ TreeOK /\ ListsOK /\ MessagesConserved /\ ~stale
=============================================================================
