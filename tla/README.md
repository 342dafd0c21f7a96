# A TLA+ model of the OS_UNIBO kernel

The repository is a small message-passing kernel for the uARM emulator. Threads
have two system calls, `msgsend` and `msgrecv`; everything else (creating and
terminating threads and processes, registering managers, terminal output, ...)
is a request sent to one system thread, the SSI, through the stubs of
`nucleus.h`. This directory holds TLA+ modules translated from the sources, the
instances TLC checks and the theorems TLAPS proves about every instance.

Source paths below are relative to `src/src/`.

## 1. Inventory of the system

| Component | Files | State | Operations | What makes it correct |
|---|---|---|---|---|
| Lists | `listx.h` | two pointers per `list_head` | add at head or tail, delete, head, empty | every list is a ring through its sentinel; a cell is on one list at most |
| Descriptors | `mikabooq.c`, `mikabooq.h`, `const.h` | process, thread and message tables with their free lists | alloc/free, process tree, scheduling queues, message queues | free lists and lists in use partition the tables; the process tree agrees with its parent pointers; no descriptor is leaked or freed twice |
| Boot | `init.c`, `load_readyq` | - | initialise, load SSI and first threads, first `scheduler()` | everything loaded is counted and ready |
| Scheduler | `scheduler.c` | `readyq`, `blockedq`, `current_thread`, `thread_count`, `soft_block_count`, `is_idle` | dispatch; on an empty queue halt, panic or idle | ready threads get the processor; halt, deadlock and waiting for I/O are told apart |
| System calls | `handlers/syscall.c` | thread status, `t_wait4sender`, queues | `send`, `recv`, `resume_thread`, `syscall_other` | no lost wake-up, no wrong wake-up, no message to the wrong recv |
| Interrupts | `handlers/interrupts.c` | `soft_blocked_thread`, `is_idle` | timer, terminal acknowledgement | the answer reaches the thread that waits for it |
| Traps | `handlers/trap.c`, `syscall_other` | managers of a process | pass-up to a manager, termination without one | a passed-up thread is on one list, can be terminated, and can be resumed |
| SSI | `SSI/ssi.c`, `SSI/services/*` | its current request | receive, serve, reply | a request is served once, for a live thread, and answered to it |
| Terminal I/O | `SSI/services/do_io.c` | `soft_blocked_thread`, the device command | `do_io_s` | one outstanding command, one thread waiting |
| Clock | `clock/accounting.c`, `wait_for_clock.c` | `pseudoclock`, `t_wait4clock`, `run_time` | accounting, wake at tick | waiters are released at the tick |
| Stubs | `nucleus.h` | the caller's stack | `msgsend(SSI)` then `msgrecv(SSI)` | every stub returns |
| Tests | `tests/*` | shared variables, `stackalloc`, a print and a lock server | programs that run on the kernel; `p1test` calls `mikabooq.c` alone | no check fails, the test ends, nothing is left behind |
| Console, bitmap, vendored headers | `syslib.c`, `bitmap.h`, `uARMsupportFiles/` | - | formatting, machine interface | - |

How they interact: a program traps into a handler with the interrupts disabled;
the handler changes the descriptors and either returns to the program or calls
`scheduler()`, which loads another one. The SSI is a thread like the others but
runs with the interrupts disabled, so that it shares the descriptors with the
handlers without locking. The timer and the terminal interrupt programs and the
idle processor only.

What is hard:

* **The gap in the stubs.** A stub is two system calls; a preempted thread may
  be killed between them, with its request still queued at the SSI.
* **One link, many lists.** A thread is on the ready queue, on `blockedq` or on
  some thread's `t_wait4me` through the same `t_sched`; `thread_free` unlinks it
  from wherever it points.
* **Direct delivery.** `send` hands a message to a waiting thread without
  queueing it, deciding on `t_status` and `t_wait4sender`.
* **Termination** frees messages, resumes waiters, cleans another thread's
  queue, unlinks a subtree recursively and updates `thread_count`.
* **Idling** depends on two counters and a flag changed by a service, by two
  interrupt handlers and by the scheduler.
* **Traps** block a READY thread on `blockedq`, and a handler that runs a stub
  shares its stack with the handlers of the stub's own system calls.
* **Full pools** of messages, threads and processes.

`PROJECT.json` lists these as hazards, each at its line and with the properties
that cover it.

## 2. Modules

    ListX <- Mikabooq <- Nucleus <- Services <- Kernel <- KernelMailbox <- MCKernel
      |         |                                           :    |
      |         |                               implements  :    +-- Traps <- P2Test
      |         |                                        Mailbox             <- MCP2Test
      |         +-- Descriptors
      |               : implemented by
      +-- MikabooqPointers

The proofs, each extending the one before it:

    KernelTypeProofs <- KernelListProofs <- KernelTreeProofs
      (and Kernel)                               |
                                          KernelSoundProofs
                                          (and KernelMailbox)
                                                 |
        P2TestProofs ---- TrapsProofs ---- KernelRequestProofs
        (and P2Test)      (and Traps)

    MikabooqPointersProofs (and MikabooqPointers) stands by itself

| Module | Models | State and actions |
|---|---|---|
| `ListX` | `listx.h` | Operators on a memory `[next, prev]` of cells, with the stores in the code's order, so that aliased and stale cells behave as in C. `Rings` says what well-formed lists are. |
| `Mikabooq` | `mikabooq.c` | The descriptors. The scheduling lists (`t_sched`) are pointers in `links`; the lists through `t_next`, `p_siblings`, `m_next` are sequences, since a descriptor leaves one only in the call that puts it on another. One operator per function, with its failure test as an operator of its own. |
| `Nucleus` | `init.c`, `scheduler.c`, `handlers/syscall.c`, `handlers/interrupts.c`, stubs of `nucleus.h` | `kpc` is where the processor is: booting, about to run `scheduler()`, in a thread, in a trap handler, idle, or stopped (and by which panic). Each system call, handler and scheduler outcome is an action. Programs make any sequence of the calls their descriptors allow. |
| `Services` | `SSI/ssi.c`, `SSI/services/*` | `ssi_pc` and `ssi_msg` are the SSI's control point and request. A service is one action between two system calls of the SSI. The terminating services take one action per turn of their loops, `dying` being the C call stack of `__terminate_process_s` and `victim` the thread being terminated. |
| `Kernel` | the whole | `Next`, `Spec`, fairness and the properties of the kernel. |
| `Mailbox` | - | The abstract message service: who is alive, who waits for whom, the messages of each thread in order, who is in a call to the server. No lists, descriptors, pools or processor. |
| `KernelMailbox` | - | The refinement mapping from the kernel to `Mailbox`. |
| `Traps` | `handlers/trap.c`, `syscall_other`, the errors of `syscall.c` | `Kernel` with programs that trap. `trapped` says what became of the last trap of each thread. The two halves of a pass-up, and the two system calls of a stub run by a handler, are actions between which nothing else is enabled. |
| `P2Test` | `tests/p2test.c` | `Traps` with the programs of the test instead of arbitrary ones: a program is its sequence of system calls, stubs, traps and accesses to shared variables; the threads' steps are those of `Nucleus` and `Traps`, restricted to what the program says next. Keeps `errno`, returned words and stack pages, which the test looks at. |
| `Descriptors` | `mikabooq.h` | The contract of the descriptor calls on `Mikabooq`'s sequences, with the value each call returns in `last`. The scheduling lists are pointers (`links`) here as in `Mikabooq`. |
| `MikabooqPointers` | `mikabooq.c`, as `p1test.c` drives it | The same calls on the code's own pointers: `mem` for the lists of the tables, `links` for the scheduling queues; message descriptors one by one; and the mapping to `Descriptors`. `queued`, what each scheduling queue should hold, and `stale`, whether a thread was freed after it had left its queue, are history. |
| `MCKernel`, `MCP2Test`, `MCPhase1` | - | what the instances TLC runs share: the state constraint `NotStale`, the phases of the test, the constraint `OneTable`. |
| `KernelTypeProofs` | - | types and control, for every variable of the kernel. |
| `KernelListProofs` | - | what insertion and deletion do to `Rings`; wake-ups and scheduling lists. |
| `KernelTreeProofs` | - | the process tree, the free lists, the managers. |
| `KernelSoundProofs` | - | the SSI's life, the thread count, how the kernel ends, the conservation of messages, the refinement of `Mailbox`. |
| `KernelRequestProofs` | - | requests, answers and deaths in systems that serve no dead thread. |
| `TrapsProofs` | - | the system with traps. |
| `P2TestProofs` | - | the test as a system with traps. |
| `MikabooqPointersProofs` | - | the lists of `mikabooq.c` as pointers, and the refinement of `Descriptors`. |

Reading the code, some points had to be settled:

* `handlers/interrupts.c` does not compile (line 91 names an undeclared `p` and
  has unbalanced parentheses, line 71 an undeclared `sender`). `io_h` is read as
  what it calls: `acknowledge` of terminal 0 when its interrupt is pending; the
  assertion on line 71 is left out.
* `recv` with a NULL sender waits on `blockedq`, with a sender on that sender's
  `t_wait4me`, whatever that sender's status is.
* `proc_delete` of the root fails (its parent is NULL) and the caller ignores it.
* `clean_sys_msg` looks into the queue of `sys_mgr` in two of its branches, and
  `msgq_get` on a NULL destination just fails; both are modelled as they are.
* A service that follows the process pointer of a dead applicant dereferences
  NULL: `kpc = "wild"`, where the model stops.
* `__trap_h` and `syscall_other` ignore the result of their send and enqueue the
  thread on `blockedq` without touching `t_status`. A manager that has died is
  a free or recycled descriptor, and gets the message if it is alive again.
* All exception vectors start at the stack pointer `RAM_TOP` (`init.c:54`). A
  handler that calls `terminate_process()` has its request on that stack, and
  the two system calls of the stub run their own handlers from the same top.
  What the SSI reads there depends on the frames the compiler lays out, so the
  model leaves it open: the request; an unknown tag, on which the SSI panics
  (`UnknownRequest`); or any other request (`OtherRequest`), which is served.
  If that one is answered the thread comes back inside the handler, which then
  panics itself (`trap.c:37`, `HandlerReturns`, `kpc = "panic"`).
* GET_MYTHREADID answers with the second word of a request that has one
  (`ssi.c:100`, `nucleus.h:185-189`): an undefined word of the caller's stack. It
  changes no state of the kernel, but p2 and p8 of `p2test` go by it. `P2Test`
  answers with any thread or with a word that is none, and remembers in
  `undefined` that it was not the caller; p2 then reaches its `panic()`.
* GET_PROCESSID and GET_PARENTPROCID follow the pointer they are given
  (`get_id.c:4`, `:10`), which may be NULL or no descriptor: in `Services` they
  may end in `kpc = "wild"`, in `P2Test` they do when the argument is no thread or
  no process.
* `thread_init` leaves `t_sched` unset (`mikabooq.c:146` is commented out), so
  that freeing a thread that was never enqueued, as `p1test` does, stores through
  NULL. In the model such a store changes no list: address 0 holds no
  `list_head` (`LinkAssumption`). A machine on which it cannot be written would
  fault instead. After `list_del` the pointers of the deleted link stay what they
  were.
* The loops of the terminating services run with interrupts disabled. One action
  per turn changes nothing that another thread could see, but lets each turn be
  stated separately.
* `thread_count` is an integer: it is compared with 1 only, so the width of the
  C type is not observable; `soft_block_count` only grows.

Abstracted: `t_s`, `run_time` and `errno` (they decide no step of the kernel;
`P2Test` keeps `errno`), the payload of answers (kept as the request's tag:
`Reply`; `P2Test` keeps the word), and, but in `MikabooqPointers`, the identity
of message descriptors (their free list is a number, `message_h`).

Assumed of programs: they send to and receive from threads that exist as
descriptors, talk to the SSI only through the stubs, and pass the SSI themselves
or any thread as a manager. What a word that is not a request would do to the
SSI is outside the model.

## 3. Properties

Safety invariants of the kernel (module `Kernel`):

* `ListsOK`, `Linked`: every thread is on exactly the list its state says: among
  the threads of a list and its sentinel `next` and `prev` invert each other, and
  no ring of threads goes by the sentinel, so that a walk from it meets them all.
* `NoLostWakeup`: no thread waits for a message that is in its queue.
* `MessagesConserved`: free and queued messages add up to `MAXMSG`, and dead
  threads hold none.
* `ThreadCountExact`, `TreeOK`, `EndIsHonest`: the counter, the process tree with
  its free lists, and what `empty_readyq_h` concludes.
* `RequestIntegrity`, `RepliesMatch`: the SSI holds at most one request of a
  thread, the one it waits on, and what the stub finds is its answer.
* `SoftBlockedOK`, `ControlOK`: outstanding I/O, interrupts and idling agree.
* `FreeProcessHasNoManager`, and the action property `ManagersFixed`.
* `DeathWakesAll`, `WakeUps` (action properties): a death leaves nobody waiting
  for the dead; a thread is resumed only by whom it waits for.
* `SoundUntilStale`, `LinkedUntilStale`: what survives preemption together with
  termination, up to the first `thread_free` of a free descriptor (`stale`).

Liveness: `StubsReturn` and `ReadyRuns`.

With traps: `TrapListsOK` (a passed-up thread belongs to `blockedq` although it is
READY, and is on that list only, also when it is terminated there),
`TrapEndIsHonest` (a deadlock may now include threads that wait for a manager),
and `RequestIntegrity`, `MessagesConserved` again, since a handler now makes the
calls of a stub.

Of the test: `TestNeverFails` (no `panic()` of `p2test.c` is reached),
`StacksDistinct` (the lock server works), `NothingLeftBehind` (what the phases
created is gone, counted out and freed once) and `TestCompletes`. The first and the
last say nothing of a test in which an undefined word was not what the test takes
it for (`undefined`): then a check may fail, the SSI or a handler may panic, or the
processor may follow a word that is no pointer. The other two hold with any such
word. `NothingLeftBehind` lets p2 be alive at the end: after its checks it waits for
a message from `test` (`p2test.c:242`) that is never sent, so that it neither
terminates nor fails.

Of the scheduling queues as `p1test` uses them: `QueuesUntilStale` (a queue holds the
threads that were enqueued and not dequeued or freed since, in that order, along both
pointers, until a thread is freed whose `t_sched` still points at a queue it left).

`StubsReturn` and `ReadyRuns` count a stop of the kernel as an outcome, and with
`Halted` any stop: a panic of `empty_readyq_h` on `is_idle` (which `NotIdleTwice` shows to
happen) or of `do_io_s` also ends the wait. What they exclude is a kernel that goes
on without the thread.

### Refinements

`ImplementsMailbox` says that every step of the kernel, seen through
`KernelMailbox`, is a step of `Mailbox` or none. `waiting` is the status W4MSG,
`wants` is `t_wait4sender`, `closing` is the victim of `__terminate_thread_s`,
and `calling`, the threads inside a stub, is a history of the abstract system:
a thread that has sent to the SSI is in a call until it has the SSI's first
message. It holds for ever while requests of the dead are not served, so it is
checked in `ipc_preempt`, where nobody dies, and in `services_coop` and `traps`, where
nobody is preempted. In the other systems a thread killed inside its stub leaves a
request behind; serving it may free a free descriptor, which no longer is a step of
`Mailbox`. `MailboxUntilStale` says that every step before that one is, and is
checked in `kill_preempt`.
`Close` takes back at most one message of the dying thread, which one is left
open in the abstract service: that it is the request is `RequestIntegrity`.

`ImplementsDescriptors` says that the pointers of `mikabooq.c` implement the
sequences that every other module uses, and that each call returns what it
should, for every sequence of calls on any descriptor, a free one included. In
that system no process has a manager and `t_wait4sender` is never set, so the
mapping gives those fields their initial values. `links` is mapped to itself: both
sides know the scheduling lists by their pointers, and the call that frees a thread
must store through `t_sched` just what the contract's `unlink` does, stale or NULL as
it may be, and must refuse (-2) when `t_wait4me` holds a thread.

The programs of `P2Test` take steps of `Traps` by definition (each `Run...` operator
conjoins one), but for the ways in which a program itself stops the machine; the
proofs use this (`P2IsTraps`) to carry what holds with traps over to the test.

## 4. Runs

`Values = {v}` means that programs also send each other messages; `{}` that they
only call services. `MaxIO` bounds the DO_IO requests served (a guard of `Ask`).
`Preemptive` is the interrupt state of the programs: `p2test` enables the
interrupts, `debug_tests` loads its threads with them disabled.

| Run | MAXPROC / MAXTHREAD / MAXMSG | Services | Preemptive | Boot threads | Shows |
|---|---|---|---|---|---|
| `ipc_preempt` | 1/3/2 | GET_ERRNO, with messages | yes | 3 | `TypeOK ListsOK NoLostWakeup RequestIntegrity RepliesMatch ImplementsMailbox` |
| `services_coop` | 3/3/2 | create and terminate threads and processes | no | 1 | `ThreadCountExact TreeOK RequestIntegrity EndIsHonest ImplementsMailbox DeathWakesAll` |
| `kill_preempt` | 2/2/2 | SETSYSMGR, CREATE_PROCESS, TERMINATE_*, with messages | yes | 1 | `SoundUntilStale LinkedUntilStale FreeProcessHasNoManager MessagesConserved ManagersFixed WakeUps MailboxUntilStale`, under `NotStale` |
| `live_preempt` | 2/3/3 | CREATE_PROCESS, DO_IO (two devices, `MaxIO` 1) | yes | 2 | `SoftBlockedOK ControlOK StubsReturn ReadyRuns`, under `FairSpec` |
| `traps` | 2/2/1 | SETPGMMGR, SETSYSMGR, create and terminate, with traps | no | 1 | `TrapTypeOK TrapListsOK TrapEndIsHonest RequestIntegrity MessagesConserved ImplementsMailbox` |
| `p2test` | 8/9/12 | those of the test | yes | 1 | `TestNeverFails StacksDistinct NothingLeftBehind TestCompletes` |
| `phase1` | 3/2/2 | - (calls of `mikabooq.h`, the threads' `t_wait4me` as scheduling queues) | - | - | `OneListEach QueuesUntilStale ImplementsDescriptors`, under `OneTable` |

Why the bounds are enough: three programs give a sender, a receiver and a third
party who interferes; two messages are fewer than the threads, so the pool does
run out; three processes give a root, a child and a grandchild, hence recursive
termination, and three thread descriptors get recycled. In `live_preempt` the
pool holds one message per thread, which is what a stub needs at most, so that
a send of a request cannot fail: with fewer the stub ignores the failure and
blocks for ever (`nucleus.h:44`), which `StubsReturn` could not survive. In
`traps` two threads are a program and its manager, of one process or of two, and
one message is enough for a pass-up to find the pool empty. `phase1` has a root
with two processes to make a chain or siblings of, two threads in one process or
in two, and two messages in one queue to be in order; its constraint `OneTable` queues
messages only while the root is the only process, since the two kinds of list share no
cell. On its two scheduling queues the threads can be on one in either order, or wait
for one another, so that every refusal of `thread_free` is met. The run's view leaves
`last` out, which no call reads; TLC checks a step's `last'` all the same. After the first stale `thread_free` the calls on the queues stop (`QueueCalls`), as
they do in `p1test`, whose test of the queues ends with those calls; the others go
on. The stopped states are steps of their own (`Stopped`), so every run checks that
nothing else deadlocks.

`kill_preempt` does not follow the model past `stale`: from there the lists mean
nothing, and the run's claim is about what comes before.

`p2test` has tables that the test does not exhaust, as in the code, where they
are larger still. It runs the phases p2, p4, p6, p7 and p8 with one grandchild
per child of p8 (`NGRANDCHILDREN`, 3 in the source). A string is printed as one
character, each character being the same exchange with the terminal. Left out
are p3, which waits for the clock, the comparisons of CPU times in p2, and p5,
which cannot complete: its managers' answers do not resume it (`bug_answer`,
which runs p5 alone). Two things are assumed of the timer: a slice, 5000 ticks,
lasts for at least one step of its thread (`ran`), without which two threads
may alternate for ever at the same instruction; and the terminal completes a
command before the idle processor's slice ends, without which the kernel's own
assertion stops the test (`bug_idle_timer`). `test` receives from p4 after having
sent to it; had p4 terminated already, the recv would block on a free descriptor
(`syscall.c:119`). Under round robin `test` is in its recv by then, and
`TestCompletes` shows it.

Observations that need no run: `clean_sys_msg` expects to find the request of
every thread that waits for the SSI (`terminate_process.c:13`), but that of a
thread waiting for the terminal has been taken; a second DO_IO overwrites the
device's command before `do_io_s` notices the first and panics, which
`do_io.c:18` says should never happen: programs have to serialise their output
themselves, as `p2test`'s print server does; `thread_dequeue` and
`thread_outqueue` leave `t_sched` pointing into the list the thread was on, and
`thread_free` deletes it from there once more (`mikabooq.c:182`): harmless in the
kernel, where a thread that dies is on a list or was loaded last, but a caller
such as `p1test`, which frees dequeued threads (`p1test.c:142-153`), writes into the
neighbours it had. One of them may be the head of the queue, which is then empty but
no longer looks so, against `mikabooq.h:100` ("return NULL if the list is empty");
`QueuesUntilStale` ends there. p2's check of `get_mythreadid()` (`p2test.c:215`) passes
only if the undefined word behind the request is p2's own identifier; the comment on
line 213 notes that the outcome changes with a line of printing.

### Where the code disagrees with its own text

| Run | Violated | The code says | What happens |
|---|---|---|---|
| `bug_thread_count` | `ThreadCountExact` | `scheduler.c:25` "Number of threads currently active in the system" | a thread preempted inside its stub and killed while READY leaves its request; serving it frees a free descriptor and counts it out twice |
| `bug_ack` | `AckDelivered` | `interrupts.c:64` "non fallisce mai", and the assertion after it | the waiting thread has been terminated |
| `bug_idle_timer` | `NotIdleTwice` | `scheduler.c:109` `assert(!is_idle)` | the time slice ends while the processor idles |
| `bug_idle_deadlock` | `IdleAwaitsIO` | `scheduler.c:107` "processes in the system are waiting for I/O" | `soft_block_count` is never decremented |
| `bug_answer` | `AnswerResumes` | `trap.c:28-29` "I manager ... reinseriranno il thread nella coda ready" | a passed-up thread is READY on `blockedq`, so its manager's answer is queued and does not resume it: p5 of `p2test` stops there |

## 5. Fairness

`FairSpec` adds weak fairness of boot and scheduler, of the SSI's services and of
the timer: each is done by code that runs with interrupts disabled, so once
enabled nothing but its own step ends it, or it is offered again at every slice.
The terminal's completion and its acknowledgement get strong fairness: the
device works on its own and its interrupt stays pending, but the model offers
both only while a program or the idle processor runs, and handlers and the SSI
disable them again and again. Of programs only one thing is assumed:
`SF(AwaitReply(t))`, that a thread inside a stub, dispatched again and again,
gets to its second system call. A dispatch gives it a whole slice of 5000 ticks,
and between the two calls of a stub there is no loop. Nothing is assumed of
what a program does outside the stubs: it may stop making calls for ever, and
then the timer takes the processor from it.

`P2Spec` has `WF(P2Next)`: the machine never stops while something can be done.
Its programs have no choice but their next instruction, so that is all it takes.

## 6. Theorems

For all values of the constants that satisfy `MikabooqAssumption` (table sizes
are naturals, descriptors differ from NULL and from the SSI's),
`CellAssumption` (no list head at NULL), `NucleusAssumption` (the requested
services are services, `NULL` is no payload, boot has a thread to load) and
`RequestAssumption` (`NULL` is no request); those about the pointers from
`PointersAssumption` (there is a root process, `NULL` and the SSI are no
descriptors of the tables, the queues are among `readyq`, `blockedq` and `t_wait4me`) and
`LinkAssumption` (no `list_head` is at NULL):

| Theorem | Module | States |
|---|---|---|
| `TypeCorrect` | `KernelTypeProofs` | `Spec => []TypeOK` |
| `ControlIsSound` | `KernelTypeProofs` | `Spec => []ControlOK` |
| `InvariantTInv` | `KernelTypeProofs` | `Spec => [](TypeOK /\ ControlOK)` |
| `NoWakeupIsLost` | `KernelListProofs` | `Spec => []NoLostWakeup` |
| `ListsSoundUntilStale` | `KernelListProofs` | `Spec => []LinkedUntilStale` |
| `ListsSoundWithoutTermination` | `KernelListProofs` | `Spec => []Linked` when no terminating service is requested |
| `OnlyTheAwaitedWakes` | `KernelListProofs` | `Spec => WakeUps` |
| `InvariantTree` | `KernelTreeProofs` | `Spec => []TreeInv` |
| `FreeProcessesAreUnmanaged` | `KernelTreeProofs` | `Spec => []FreeProcessHasNoManager` |
| `ManagersStayFixed` | `KernelTreeProofs` | `Spec => ManagersFixed` |
| `SsiNeverDies` | `KernelSoundProofs` | `Spec => []SsiLive` |
| `KernelSoundUntilStale` | `KernelSoundProofs` | `Spec => []SoundUntilStale` |
| `MessagesAreConserved` | `KernelSoundProofs` | `Spec => []MessagesConserved` |
| `KernelImplementsMailboxUntilStale` | `KernelSoundProofs` | `Spec => MailboxUntilStale` |
| `RequestsAreSound` | `KernelRequestProofs` | `Orderly`: `Spec => []RequestIntegrity` |
| `AnswersMatchRequests` | `KernelRequestProofs` | `Orderly`: `Spec => []RepliesMatch` |
| `ListsAreSound` | `KernelRequestProofs` | `Orderly`: `Spec => []ListsOK` |
| `TheCountIsExact` | `KernelRequestProofs` | `Orderly`: `Spec => []ThreadCountExact` |
| `TheTreeIsSound` | `KernelRequestProofs` | `Orderly`: `Spec => []TreeOK` |
| `TheEndIsHonest` | `KernelRequestProofs` | `Orderly`: `Spec => []EndIsHonest` |
| `TheTerminalServesOne` | `KernelRequestProofs` | `Orderly`: `Spec => []SoftBlockedOK` |
| `TheDeadAreAwaitedByNobody` | `KernelRequestProofs` | `Orderly`: `Spec => DeathWakesAll` |
| `KernelImplementsMailbox` | `KernelRequestProofs` | `Orderly`: `Spec => ImplementsMailbox` |
| `TrapsKeepTypes` | `TrapsProofs` | `TrapSpec => []TrapTypeOK` |
| `TrapsLoseNoWakeup` | `TrapsProofs` | `TrapSpec => []NoLostWakeup` |
| `TrapsConserveMessages` | `TrapsProofs` | `TrapSpec => []MessagesConserved` |
| `TrapsFindFixedManagers` | `TrapsProofs` | `TrapSpec => []FreeProcessHasNoManager /\ ManagersFixed` |
| `TrapsKeepListsUntilStale` | `TrapsProofs` | `TrapSpec => [](stale \/ TrapListsOK)` |
| `TrapsEndHonestlyUntilStale` | `TrapsProofs` | `TrapSpec => [](stale \/ TrapEndIsHonest)` |
| `TrapsCountUntilStale` | `TrapsProofs` | `TrapSpec => [](stale \/ (ThreadCountExact /\ TreeOK))` |
| `TrapsImplementMailboxUntilStale` | `TrapsProofs` | `TrapSpec => MailboxUntilStale` |
| `TrapsKeepLists` | `TrapsProofs` | `Orderly`: `TrapSpec => []TrapListsOK` |
| `TrapsEndHonestly` | `TrapsProofs` | `Orderly`: `TrapSpec => []TrapEndIsHonest` |
| `TrapsKeepRequests` | `TrapsProofs` | `Orderly`: `TrapSpec => []RequestIntegrity` |
| `TrapsImplementMailbox` | `TrapsProofs` | `Orderly`: `TrapSpec => ImplementsMailbox` |
| `TestConservesMessages` | `P2TestProofs` | `P2Spec => [](MessagesConserved /\ NoLostWakeup)` |
| `TestSoundUntilStale` | `P2TestProofs` | `P2Spec => [](stale \/ (TrapListsOK /\ ThreadCountExact /\ TreeOK))` |
| `TestFindsFixedManagers` | `P2TestProofs` | `P2Spec => []FreeProcessHasNoManager /\ ManagersFixed` |
| `TestMailboxesUntilStale` | `P2TestProofs` | `P2Spec => MailboxUntilStale` |
| `DescriptorsAreLinked` | `MikabooqPointersProofs` | `PointersSpec => []PInv` |
| `EachOnOneList` | `MikabooqPointersProofs` | `PointersSpec => []OneListEach` |
| `PointersImplementDescriptors` | `MikabooqPointersProofs` | `PointersSpec => ImplementsDescriptors` |
| `QueuesHoldUntilStale` | `MikabooqPointersProofs` | `PointersSpec => []QueuesUntilStale` |

`Orderly` is an assumption on two constants, made where the code needs it and
nowhere else: either no terminating service is among `Requests` (a second SETxxxMGR
terminates too), whatever is preempted, or the programs are not preempted
and request no DO_IO. In every other system a thread can be killed between its
request and the service of it: preempted between the two calls of its stub, or
waiting for the terminal while another thread terminates its process. Its request is then
served for a free descriptor, and the properties fail: `bug_thread_count` is one
such run. What holds there all the same is the part of the table without
`Orderly`, `SoundUntilStale` and `MailboxUntilStale` first. The two cases of `Orderly` are the instances
`ipc_preempt` and `live_preempt`, and `services_coop` and, with traps, `traps`.

* **Types.** `TypeOK` is not inductive: that the SSI answers a thread needs that
  it has a request, that a handler enqueues `current_thread` needs that there is
  one. `ControlOK` is the strengthening; `TInv == TypeOK /\ ControlOK` is
  inductive. The proof splits `TypeOK` into parts by what is changed
  together; each operation of `Mikabooq` and `Nucleus` has a lemma about the
  parts it changes, each action a lemma that combines them.
* **Wake-ups.** With `TInv`, a step either adds no message and no wait
  (`WaitsAreKept`), or is `send`, which queues only what is not expected, or is
  `recv`, which blocks only if nothing matches.
* **Lists.** `KernelListProofs` proves what insertion and deletion do to `Rings` for
  an arbitrary set of cells: `AddTailRings` and `DelRings`; `Rings` includes that no
  ring of threads goes by its sentinel. Each action then
  changes `Home`, the list a thread should be on, exactly as it changes the
  pointers. `FreeListOK` is needed because `thread_alloc` hands out the head of
  the free list to be enqueued, which must be on no list; `CurrentReady`
  because the timer enqueues the running thread. All three are kept by every
  step but a `thread_free` of a free descriptor, which `stale` records. The lemmas
  are stated for the kernel with an arbitrary set `P` of threads parked on
  `blockedq`, READY and off the processor (`LinkedWith(P)`), as a trap handler
  leaves them; the kernel without traps is the case of the empty set
  (`NobodyParked`), and a termination takes its victim out of `P`.
* **Who wakes.** From the lists: the head of `t_wait4me(victim)` is a thread
  that waits for the victim, because the list is a ring of those.
* **The tree.** `TreeInv` says that children and parents, threads and processes
  point to each other, that a list holds nothing twice, that the free lists
  hold what no process and no thread owns, and that a process is no
  ancestor of its own. The last is said without recursion: every set of processes
  without the root has a member whose parent is outside (`Acyclic`). An allocated
  process other than the root has a thread, or is on `dying`, the C stack of the recursive
  `__terminate_process_s`; the victim is a thread of the process that stack has
  reached, or not the last thread of its own (`Populated`, `TermShape`). `thread_free`
  takes a descriptor out of whichever of these lists it is on, the free list
  included, before appending it there: so this part survives `stale`.
* **Managers.** `SETxxxMGR` sets a manager only where there is none, and only a
  deletion clears it; that an allocated descriptor had none when it was free
  makes the second statement a consequence of the first and of `TreeInv`.
* **The counter and the end.** `Belongs` (a thread is alive when it has a process)
  turns `thread_count` into the size of the set of threads with a process, which
  each allocation and deletion changes by one. The scheduler concludes from an
  empty `readyq` that no thread is READY: a ring with no member next to its
  sentinel has none at all, by the absence of stray rings (`EmptyHasNobody`).
* **Messages.** `Slots` are the places of all queues. A send takes a descriptor and
  adds a place, a recv the reverse, and a dying thread gives back one for each
  of its own; the free descriptors and the places add up to `MAXMSG`. The queue
  of a dead thread is empty, so that nothing is lost with it.
* **Requests.** `ReqInv`: what a thread asked for (`asked`) is in one place only
  (`Tracked`): in the SSI's queue, in service, at the terminal, in the thread's own
  queue as an answer, delivered to it, or not sent because no descriptor
  was free; a thread in a stub is alive and waits for the SSI alone, and
  without preemption waits already when another runs (`Waits`); a termination goes
  on for an applicant with no other request and frees live threads whose request
  is gone (`Terminates`). The last two, under `Orderly`, make every applicant
  alive when it is served, whence `~stale`, and with it what was proved up to
  `stale` holds for ever. `ReqInv` was checked by TLC on the runs' instances, as an
  invariant, before it was proved.
* **Refinement.** Each kernel action is shown to be one step of `Mailbox` or none,
  by lemmas for a quiet step, a birth, a `send`, a `recv`, and the three steps of
  a death: `Close` when a victim is picked and its messages go, `Abort` for each thread
  that waited for it, `Die` when its descriptor is freed.
  A handover needs `NoLostWakeup` (the mailbox has nothing that matches, so
  nothing is overtaken); a birth needs `FreeListOK` (the descriptor is of no live
  thread) and that the dead hold no message and are in no call; a program that makes a
  call is running, hence not waiting (`CurrentReady`); that `Die` finds nobody waiting
  is the emptiness of the ring `t_wait4me(victim)`. Of the calls only `Awaits` is needed:
  who is inside a stub is alive and waits for the SSI alone. It is kept up to `stale` by
  every step, so that `MailboxUntilStale` needs nothing of the requests; under `Orderly`,
  where `~stale` holds for ever, it becomes `ImplementsMailbox`.
* **Traps.** `TrapTInv` adds to `TInv` that a handler in the middle of its work has
  a current thread and that managers are threads of programs. `HandlerSteps`
  shows that a step of a handler changes the kernel's state as a send of the
  current thread does, as a recv does, or leaves messages and waits alone; the
  other steps are the kernel's own, so the lemmas of the kernel serve both.
  `TrapLinked` says that the lists are sound with the passed-up threads parked, and
  that a handler acts in the name of a ready thread, which, when it is passed up, is
  inside no stub (`HandlerReady`): a pass-up then moves its thread from the processor to
  `blockedq` and adds it to `P`, and a request that a handler makes is one more request of
  `ReqInv`, sent and awaited as a program's is (`HandlerReq`). `TrapEndIsHonest` follows as
  `EndIsHonest` does, the threads of `P` being those that need not wait for a message.
  To the mailboxes a pass-up is a send of the thread that trapped, a handler's stub a
  call and a wait of it, and parking it on `blockedq` is nothing (`TrapMailStep`).
  A program traps under the second case of `Orderly` only: the first has neither managers
  nor the services that a handler asks for.
* **The test.** Each kind of instruction (`RunSend`, `RunRecv`, `RunStub`, `RunTrap`, ...)
  is a step of `Traps` or touches only the test's own variables (`P2IsTrapStep`); an
  undefined word is one of those variables. The exception is a program that stops the
  machine (HALT, the PANIC of `panic()`, a word followed that is no pointer), after which
  nothing runs: `HaltLeaves` says what it does not change, which is everything but `kpc`,
  so the invariants of the traps survive it, `TrapEndIsHonest` excepted, since the test
  halts with its servers alive. So these theorems hold whatever the undefined words are.
* **Pointers.** `Lists(m, L, C)` says that a memory `m` holds a ring for each head `h`,
  whose cells are `L[h]` in order, and that each cell of `C` is in one ring once.
  `DelLists` and `InsertLists` say what the stores of `list_del`, `list_add` and
  `list_add_tail` do to it. A walk (`list_for_each`) of a ring meets the cells of `L[h]`
  (`WalkOfRing`): no ring has more cells than there are links, so that the bound in the
  definition is never met. `PInv` is inductive: the walks are such an `L`, and each
  descriptor is on the list its fields say (`Homes`), the free list for one without a
  parent or process. From that, an entry that is the first of a free list is free, a
  list holds links of one kind only, on which `container_of` is injective, and deleting a
  link takes the descriptor out of the sequence (`unlink` in `Descriptors`) and
  changes no other list; each call has one lemma that gives `PInv'` and the step of
  `Descriptors`. The prover has no induction scheme that can be instantiated: where
  the argument goes along a list or a table (walks, the loops of the `_init` functions) it
  is about the set of naturals for which it holds, which has 0 and every successor, so is all
  of them because `<` is well founded (`AllNaturals`); that the recursive functions of the
  model are defined at all is `NatRecursion`.
* **The queues of phase 1.** `QueueLists(m, K)` is `Lists` for the scheduling queues: `K[q]`
  are the threads of `q` in order, its ring passes through their `t_sched`, no thread is
  on two queues, and the two pointers of one that is on none are both NULL if one is.
  `EnqueuedLists`, `TakenOffLists` and the case of a list_del through NULL pointers give
  what the three calls do to it; `thread_free` of a thread on no queue is either that
  last case, which changes nothing, or `stale`. With `K == queued` it is inductive.

Only model-checked, and why:

* the kernel's properties in the systems outside `Orderly`, as far as they hold:
  `SoftBlockedOK` in `live_preempt` falls under `Orderly`, and nothing else is claimed;
* `TestNeverFails`, `StacksDistinct` and `NothingLeftBehind`: they depend on what each
  thread of the test says next and on when a phase terminates which of them. That
  `StacksDistinct` holds is such a matter: a client killed inside `CSIN` would leave its
  request at the lock server, and whoever got its descriptor could be let in twice; the
  test kills nobody there. What does not depend on it is `TestSoundUntilStale`;
* all liveness, which is out of the prover's reach.

## 7. Not modelled

* **The clock**: WAIT_FOR_CLOCK, `update_clock`, `run_time` and the timer
  arithmetic of `interrupt_h`. The half that wakes the waiters is not code yet:
  `accounting.c:26` passes a structure where `thread_dequeue` takes a pointer, and
  names a list its headers do not declare; what a corrected version would do is
  not for a model to guess. Three things can be said from reading: the applicant
  is enqueued on `t_wait4clock` by a link that is in use already
  (`wait_for_clock.c:11`); `update_clock` sends in the name of whatever thread is
  current; and it takes 100 off a counter that grows by 5000 per slice.
* p3 and p5a of `p2test`, and its comparisons of CPU times.
* A trap handler's overwritten request that reads as CREATE_PROCESS or CREATE_THREAD,
  in `P2Test`: the new thread would run on whatever state lies there. In `Traps`, where
  programs do anything, that reading is one more birth and is included.
* Calls on the scheduling queues after a stale `thread_free`: what a queue holds then
  may be no thread.
* `syslib.c` (formatting to the host console), `bitmap.h`, `64bit.c`, the
  emulator's headers, documentation.

## 8. Running

    tlc -workers 2 -config ipc_preempt.cfg MCKernel     # kernel runs and bug_*
    tlc -workers 2 -config traps.cfg Traps
    tlc -workers 2 -config p2test.cfg MCP2Test          # and bug_answer.cfg
    tlc -workers 2 -config phase1.cfg MCPhase1
    tlapm KernelTypeProofs.tla                          # and the other *Proofs
