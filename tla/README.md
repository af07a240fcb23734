# PICOX in TLA+

TLA+ modules, TLC configurations and TLAPS proofs for PICOX, a small operating system for the
Raspberry Pi Pico (`src/src/`). Paths below are relative to the directory that holds `src/`.

## 1. The system

PICOX runs on one Cortex-M0+ core. `Reset_Handler` sets up clock and UART and calls
`picox_start`, which makes thread 0 (`main.c`). It starts four system threads, lowers itself to
the lowest priority and idles; apps come and go through the shell's `run` and `kill`.

```
 keys -> UART -> consdrv_interrupt --CONSRX--> shell --APPREQUEST--> app (exec_main)
                        |                        ^                    |        ^
                        +------APPEVENT (^C)-----|--------------------|--> APPEVENT <-- wrapper
                                                 +------CMDEND--------+        (exec_app)
 UART <- ring <- consdrv <--CONSTX-- everybody     sddrv <-SDREQUEST-/ \-SDRESULT-> app
```

| component | source | state | operations | hard part |
|---|---|---|---|---|
| threads and scheduler | `kernel.c` | `threads[]`, `readyque[]`, `current`, stack pointers | run, run_app, exit, wait, sleep, wakeup, getid, chpri, kill, ps, setintr; SysTick | calls and interrupts in any order; early returns before `putcurrent`; no check of arguments |
| message boxes | `kernel.c` | `msgboxs[]`, message buffers | send, recv, service-call send | one receiver per box, a pointer that a kill or a wakeup leaves behind; buffers from a small pool |
| memory pools | `memory.c` | free lists in block headers | alloc, free | exhaustion is a sysdown; list integrity |
| shell | `shell.c` | the command in hand | help, echo, version, clear, reset, run, kill, ps | blocks on CMDEND |
| app execution | `exec.c` | request, image, parameter block, wrapper's id | load, start, await end, kill, unload | preemption between any two steps; stale events; partial failure |
| SD driver | `sddrv.c`, `spi.c` | the card's addressing mode, one request | initialise the card, read a sector, load | every transfer may fail or time out; cards are moved and swapped |
| FAT32 | `fat32.c` | a sector buffer, positions in chains | mount, open, read | boundaries of sectors and clusters |
| ELF loader | `elf_loader.c` | an image under construction | load, unload | failure in the middle; relocation with wrap-around |
| app RAM | `app_memory.c` | `page_used[]` | alloc, free | first fit with alignment; ownership |
| context switch | `handler.c`, `interrupt.c`, `kernel.c` (`dispatch`) | the words of a frame on each thread's stack, `current`, soft vectors | SVC, SysTick, UART entries; first frames of threads | three entries save by hand what one exit loads; a vector that is not set yet |
| MPU | `mpu.c` | regions | set-up | apps must reach their stacks and no others |
| console | `consdrv.c`, `serial.c` | send ring, line, `previous_was_cr`; UART FIFOs and interrupt bits | write, drain, echo, edit a line | thread and interrupt share the ring; an edge interrupt |

What makes each correct is stated as properties below. The list of hazards with their lines
is in `PROJECT.json`.

**Concurrency.** SVC, SysTick and the UART interrupt are left at the same exception priority, so
a handler is never interrupted by another and runs to its `dispatch()`. A system or service call
is therefore one atomic step. Threads are preempted between any two instructions, which for the
thread-level code shows only between system calls, because threads hand data over through calls.
Where they share more there is a model of it: the ring of the console, which a thread and the
interrupt fill and drain, in steps of one byte in `Console`; app RAM and parameter blocks in `Loader`.

## 2. Modules

| module | models | composed with |
|---|---|---|
| `Sched` | ready queues as sequences plus READY flags: `getcurrent`, `putcurrent`, `readyque_remove`, choice of the next thread | used by `Kernel` |
| `Kernel` | all of `kernel.c`: one action per call, the whole handler each | extends `Sched` |
| `Threads` | abstract: life cycle of a thread (the states `kernel.c` declares in `picox_thread_state` and never stores), strict priority dispatch, FIFO mailboxes | refined by `Kernel` in `KernelThreads` |
| `Links` | lists threaded through their elements | used by `ReadyList`, `Memory` |
| `ReadyList` | the same queues with head, tail, next and flag | used by `Switch` |
| `Dispatcher` | every combination of get, put and remove the calls make, on sequences | refined by `Switch` |
| `Mpu` | the loop of `mpu_region_from_range` | used by `Switch` |
| `Processors` | abstract: every thread has registers and a stack that only its own instructions change | refined by `Switch` |
| `Switch` | the entries of `handler.c`, the calls that start, stop, wake and kill threads, `dispatch`, word by word | extends `ReadyList`, `Mpu` |
| `Memory` | `memory.c` with its free lists | used by `MessageBoxes` |
| `BlockPool`, `Mailboxes` | abstract: a count of blocks per size; a queue of messages per box | refined by `MessageBoxes` |
| `MessageBoxes` | `sendmsg`, `recvmsg`, malloc and free, with buffers linked in blocks of `Memory` | extends `Memory` |
| `CommandLine` | how `command_execute` takes a line apart | used by `RunCommand` |
| `RunCommand` | main, shell, exec, sddrv, wrappers and the console's input, every step a call of `Kernel` | extends `Kernel`, `CommandLine` |
| `Console` | `consdrv.c` on the UART | refines `TextPipe` |
| `AppMemory`, `Loader` | app RAM, `elf_loader.c`, the memory side of `exec.c` | `Loader` extends `AppMemory` |
| `Volume` | external: what lies on a card | used by `Fat32`, `SdCard` |
| `Fat32` | `fat32_mount`, `fat32_open`, `fat32_read`, a sector at a time | extends `Volume` |
| `SdCard` | `sd_card_init`, `sd_read_sector`, a command at a time; the card's side is external | extends `Volume` |
| `SdDriver` | `sddrv_main` and `sddrv_load_elf_execute`, and the user's hand | extends `Fat32`, `SdCard` |
| `KernelProofs` | theorems on `Sched` and `Kernel`, and on `Kernel` under careful callers with the refinement of `Threads` | extends `KernelThreads` |
| `RunProofs` | theorems on the programs of `RunCommand` | extends `RunCommand` and `KernelProofs` |
| `LinkProofs` | theorems on lists read along their links | extends `Links` |
| `BoxProofs` | theorems on the pools, and on `MessageBoxes` with its two refinements | extends `MessageBoxes` and `LinkProofs` |
| `SwitchProofs` | theorems on `Switch` with its two refinements, and on the region of `Mpu` | extends `Switch` and `LinkProofs` |
| `ConsoleProofs`, `LoaderProofs` | theorems | each extends the module it is about |
| `SdProofs` | lemmas on chains, cells and names; theorems on `SdDriver` | extends `SdDriver` |
| `*MC` | the instances TLC checks | |

Operators named `<function>_<fault>` are wrong versions of a function: a dropped check, a missed
reset, a swapped order. No specification uses them; with one put in place of its function TLC
finds the property listed with it violated (`PROJECT.json`, "mutants").

### How state and actions correspond to the code

*Kernel.* `rq.q[p]` is the list from `readyque[p].head`, `rq.ready` the threads with the READY
flag; they are separate, as in the code, and their agreement is `QueueInv`. `tcb[t]` keeps whether
`init.func` is set, the priority, the type of the last system call (only RECV and SLEEP matter)
and `got`, what `recvmsg` stored through `syscall.param`. `box[b]` is the list of buffers,
`receiver[b]` the waiting thread. A run is `thread_run(kind, priority, size)` for both
`picox_run` and `picox_run_app`: the two functions differ in the pool of stacks only.
An action consists of `taken` (`syscall_proc`'s `getcurrent`), the function's own changes in its
order, and `schedule`. Where the code goes on with something the C source does not define, the
model stops and says why in `halted`: `sysdown`; `zombie` (a cleared TCB, with a null stack
pointer, in a ready queue); `wild` (`recvmsg` writes through a null parameter pointer or through
the parameters of another call). Priorities are taken from the valid range, since the code
indexes `readyque` without a check and no caller passes any other.

*RunCommand.* A thread is a program counter; `At(t, label)` holds while it is dispatched and at
that call. `asked`, `job`, `bg` are locals of `command_run`, `exec_main`, `exec_app`;
`failures` and `cause` record history for properties only. Writes to the console are left out:
consdrv outranks every writer and is blocked in `recv` whenever another thread runs, so a write
has been taken, and its block freed, before the writer's next instruction. All blocks come from
one pool in this model. A line typed, a `^C`, SysTick may come between any two calls.

*Console.* The ring has its two indices and its slots; every push and every byte moved to the FIFO is a
step. `Masked` is the stretch between `INTR_DISABLE` and `INTR_ENABLE`. The UART's transmit
interrupt is an edge: raised when the FIFO level passes `TX_LEVEL` downwards, cleared by
`UARTICR` or by filling the FIFO above the level. Only the instructions between `send_drain`'s
last look at the FIFO and its write of the interrupt registers are one step; the FIFO takes
milliseconds to drain from full to its level, those instructions less than a microsecond.
Keys are pressed one after another and bytes arrive more slowly than a handler reads them.

*Loader.* Addresses and values count words modulo `WORDS`. A word of a file is a pointer into the image,
a distance or a number, which lets `Intact` say what the linker would have written for the place
the image was loaded at. Files are those a linker makes, not wrapping round the address space;
`scan` may refuse any file, for whatever is wrong with it. What the code does with a malformed file that it accepts is not modelled: its checks against app RAM are commented out
(`elf_loader.c:302`, `316`), and an image of nearly 4 GB would round up to 0 pages (`app_memory.c:32`). exec and the SD driver outrank
wrappers, so a wrapper steps only while exec waits.

*Switch.* Memory is a sequence of words; a word is a number, the value of a register of a thread's own making, or a
thing with a name. `save_context` writes what the hardware pushes and the ten words the handlers push below, at the offsets of the
assembly; `dispatch` reads them from the other end. A handler is one step, since all have one priority. `compute`, a thread's first instructions,
fills every register with a value of its own, so that a word that lands in the wrong place or thread shows. `Processors` lets the running thread's own
registers and stack become anything in its own steps, and no others. Threads wake
only threads in use and do not kill themselves: what follows otherwise is in `Kernel`. The UART handler wakes any live
thread, as its service call does. An interrupt with no soft vector set returns from the handler as the assembly does,
without the ten words taken off.

*MessageBoxes.* `buffer[a]` is the `picox_msgbuf` in block `a`; `picoxmem_free` reuses the header of the block only, and the model blanks the rest, so that
a use after it would show. A receiver waits on a box of its own, as in `RunCommand`, since a second one is a sysdown.
A sysdown is a step of its own that stops the system.

*Fat32, SdCard, SdDriver.* The three share `ask`, `disk` and `sector_buffer`: `Fat32` asks for a sector, `SdCard` sends CMD17 and puts the number of the
sector the card sent, or a failure, and `Fat32` goes on. A sector has `SECTOR` cells; a directory entry is a kind (end mark, skipped, other
name, the wanted file, the wanted name with no cluster); each card says which name that is. The byte at position p of the file is p. Chains do not cycle, and a file listed with a cluster has a chain as long as its size asks for (`CardAssumption`). Sectors are numbers, and what a card holds
where is `Volume`. A command is one step: select, six bytes, the wait for the answer, deselect. Any command may be damaged or lost, which sets `noise`; the card may be pulled at any time and
put back, unpowered meanwhile; another card comes only between two loads, since within one the driver would read two volumes as one and nothing could be claimed. What
the ELF loader makes of the bytes is `Loader`; here it reads the header first, up to `READS` ranges in all, and none of length 0, and ends with any verdict that `elf_loader.c` may reach after so many
(`content_verdicts`). A read that fails is `ERR_HEADER` for the header and `ERR_READ` for all others (`read_verdict`), whether a transfer was lost or the range lies outside the file. So `NamesCause` cannot say that
ELF_HEADER means a bad header: a lost first transfer of the loader and a file too short for a header are answered the same ("invalid ELF header"). It says that nothing else is, that every other lost transfer is
answered with the error of the place that was reading (`LostTo`), and that an undisturbed load is answered with what is wrong (`Diagnosis`). A file name is a sequence of `Characters`, taken apart one at a time; `Capitals` gives the letters that have a capital. `fat32_mount` tests a byte for a power of two with a bit operation;
the model names the eight powers, and an assumption of `SdDriverMC` compares the two for every byte.

*CommandLine.* Characters are model strings of length one. `ParsesLines`, an assumption of `RunCommandMC`, puts together lines from every
command and argument of up to three characters with up to two spaces in each place, and demands that they come apart again. In `RunCommand` the shell executes lines of `Typed`; which id a `kill` names is chosen when it runs.

## 3. Runs

| run | specification and bounds | what it checks |
|---|---|---|
| `kernel_any` | any calls: 3 threads, 2 priorities, 1 box, 2 blocks | `TypeOK`; `QueueInv`: links, flags, priorities, dispatched thread agree; `Conservation` of message buffers; `RoundRobin` |
| `kernel_careful` | careful callers, 2 boxes | `BoxInv`: a receiver is blocked on that box alone and the box is empty; `NoLostThread`; `NoWreck`; `KeepsPromise`: refinement of `Threads` |
| `switch` | 3 threads, 2 priorities, two kernel stacks and two app stacks of 32 words | `KeepsQueues`: pointers implement sequences; `OwnProcessor`: refinement of `Processors`; `Confined` |
| `memory` | 2 + 3 + 1 blocks, sizes on both sides of each limit, 2 boxes, 2 threads | `FreeOrGiven`, `Apart`, `NoLostBuffer`; `CountsBlocks` and `KeepsMessages`: refinements of `BlockPool` and `Mailboxes` |
| `run_command` | 5 system threads, 2 app slots, 2 app stacks, 4 blocks, `kill 5`, `kill 6` | `OneForeground`, `Handshake`, `LeakOnlyOnFailure`, `PromptReturns` |
| `console` | ring of 3 usable bytes, FIFO of 2 | `NoLostWakeup`, `OneLinePerEnter`, `WholeTexts`, `Drains`; `TypeOK` has the line limit |
| `loader` | 6 pages of 2 words, 2 app slots, 4 files | `OneOwner`, `Intact`, `OwnBlock`; `TypeOK` has the page limit |
| `sd_driver` | clusters of 1 to 4 sectors of 2 cells, chains of up to 2 clusters in and out of order, directories of up to 8 entries, an ELF header of 2 cells, after it all offsets and all lengths from 1; cards of each kind with 0 to 2 delays; 2 tries per loop, 3 reads | `FindsListed`, `ReadsRange`, `NamesCause`, `RightSector`, `Ends`; `TypeOK` keeps the walk on the chains |

*Careful callers* (`CarefulNext`) respect what the kernel relies on and does not check: a run is asked for only
when there is a slot and stack; wakeup and kill name a live thread that is not waiting for a
message; nobody kills itself. So these properties say nothing of a refused run, which `run_hangs` shows, nor of a thread that kills itself, as the shell does when its own id is typed after `kill`. Without these rules the properties of `kernel_careful` fail, each by a
call named in the hazards; what holds without them is `kernel_any`.

Four runs show that the program does not keep what a comment of it says:

| run | comment | what happens |
|---|---|---|
| `stale_event` | `exec.c:67`: the event comes from the app's end or Ctrl-C | a `^C` from before the app was started ends it |
| `stale_receiver` | `kernel.c:53`: the receiver is a thread waiting to receive | after `kill 4` the APPREQUEST box names a cleared slot |
| `ps_lists` | `shell.c:57`, `142`: ps shows the process status, each thread's id, name and priority | `kernel.c:401` leaves holes at free slots; the shell prints the hole and not the last thread |
| `run_hangs` | `shell.c:117`: wait until the run's execution ends | `app_thread_stack` never goes back; the run that no longer fits takes exec out of the scheduler, and the shell waits for ever (on the board: the ninth app) |

**Why the bounds are enough.** Three threads in two priorities have queues with a front, a middle or an end
and a second queue to be moved to; that a removal is right anywhere in a queue of four is an assumption of `SwitchMC`, evaluated on every queue. Two boxes tell
"waits on this box" from "waits on another". Two message blocks reach an empty pool; in `run_command` four
can be exhausted by lines typed ahead and by leaks. The ring of `console` takes one text or one
echo and never two, so that drops, wrap-around, a full FIFO and an empty one all occur. Six pages hold
two images with their blocks and not three; files link below, above and at app RAM, one of them
aligned. Chains and directories of `sd_driver` cross a sector and a cluster; the number of tries of each loop is small, and both its last try and the one before are taken.
A small block pool of `memory` is exhausted while others are not, and messages meet blocks that threads have freed.
The stacks of `switch` lie next to each other, kernel stacks below app stacks, and hold the frame of an interrupt on top of a pushed word. The stack sizes
count in units of 2 KB for the system threads (12 units = 24 KB, as in `linker.ld`).
Nothing is cut off by a state constraint: every state space is finite by its constants.

**Fairness.** `FairSpec` (`kernel_any`) assumes only that SysTick keeps coming (`systick_init` makes it periodic and no
handler masks it for good). `FairSystem`: the same, and that a handler which began ends; a system
thread that is dispatched again and again gets through to its next call (strong fairness, because the
timer may take the CPU away in between and CPU time adds up); apps need not ever end, nobody needs to type.
`FairConsole`: the UART sends what it holds, a masked section and a handler go on, and a handler that keeps finding
the receive FIFO empty leaves its loop.
`SdDriver`'s `Spec`: the driver's thread, which is alone at its priority and polls, takes its next step; nobody has to move a card or ask for a file.
Deadlock is not checked where the system may stop (sysdown, a refused run); it is in `console` and `sd_driver`.

## 4. Proofs

For every value of the constants that the assumptions allow:

| module | theorem | statement |
|---|---|---|
| `KernelProofs` | `TypeCorrect` | `Spec => []TypeOK` |
| `KernelProofs` | `QueuesAgree` | `Spec => []QueueInv` |
| `KernelProofs` | `BlocksConserved` | `Spec => []Conservation` |
| `KernelProofs` | `ReceiversWait` | `CarefulSpec => []BoxInv` |
| `KernelProofs` | `NobodyIsLost` | `CarefulSpec => []NoLostThread` |
| `KernelProofs` | `NothingIsWrecked` | `CarefulSpec => []NoWreck` |
| `KernelProofs` | `KernelImplementsThreads` | `CarefulSpec => KeepsPromise`, which is `Threads`' `Spec` |
| `RunProofs` | `ForegroundIsOne` | `KillIds \subseteq Apps` implies `SystemSpec => []OneForeground` |
| `RunProofs` | `OneRequestOnItsWay` | `KillIds \subseteq Apps` implies `SystemSpec => []Handshake` |
| `RunProofs` | `BlocksAccountedFor` | `KillIds \subseteq Apps` implies `SystemSpec => []LeakOnlyOnFailure` |
| `BoxProofs` | `FreeOrGivenAlways` | `Spec => []FreeOrGiven` |
| `BoxProofs` | `ApartAlways` | `Spec => []Apart` |
| `BoxProofs` | `NoLostBufferAlways` | `Spec => []NoLostBuffer` |
| `BoxProofs` | `BoxesKeepMessages` | `Spec => KeepsMessages`, which is `Mailboxes`' `Spec` |
| `BoxProofs` | `BoxesCountBlocks` | `Spec => CountsBlocks`, which is `BlockPool`'s `Spec` |
| `ConsoleProofs` | `WakeupsArrive` | `Spec => []NoLostWakeup` |
| `ConsoleProofs` | `ConsoleTypes` | `Spec => []TypeOK` |
| `ConsoleProofs` | `LinesMatchEnters` | `Spec => []OneLinePerEnter` |
| `ConsoleProofs` | `TextsStayWhole` | `Spec => WholeTexts`, which is `TextPipe`'s `Spec` |
| `LoaderProofs` | `TypeCorrect` | `Spec => []TypeOK` |
| `LoaderProofs` | `PagesOwned` | `Spec => []OneOwner` |
| `LoaderProofs` | `BlocksKept` | `Spec => []OwnBlock` |
| `LoaderProofs` | `ImagesIntact` | `Spec => []Intact` |
| `SdProofs` | `DriverTyped` | `Spec => []TypeOK` |
| `SdProofs` | `ListedIsFound` | `Spec => []FindsListed` |
| `SdProofs` | `RangeIsRead` | `Spec => []ReadsRange` |
| `SdProofs` | `CauseIsNamed` | `Spec => []NamesCause` |
| `SdProofs` | `SectorIsRight` | `Spec => RightSector` |
| `SwitchProofs` | `StateSound` | `Spec => []Inv` |
| `SwitchProofs` | `QueuesKept` | `Spec => KeepsQueues`, which is `Dispatcher`'s `Spec` |
| `SwitchProofs` | `ProcessorKept` | `Spec => OwnProcessor`, which is `Processors`' `Spec` |
| `SwitchProofs` | `AppsConfined` | `Spec => []Confined` |

*Kernel.* `KernelProofs` begins with facts on the queue operators alone: each keeps `Agree` (flags and links match, each thread is in
the queue of its own priority, once), and the first ready thread exists. The calls follow.
The invariant is `IInv == TypeOK /\ QueueInv /\ tcb \in Slots`. `Slots` says a slot whose last call is RECV is in use; it is needed because
`deliver` queues whatever slot the box names if that slot's call is RECV, and without it a dead slot might be queued.
`BlocksConserved` counts on top of it (`Counted`): blocks in boxes, blocks that callers hold and free blocks add up to all
there are, and each call moves at most one block from one of the three to another. The blocks in boxes are counted as pairs of a box and a position (`LinkedIn`).
`CurrentIsFirst`, a part of `QueueInv`, is what makes `getcurrent`'s `head = current->next` unlink the caller alone.
It goes on to show `BoxInv /\ NoLostThread /\ NoWreck` inductive on top of `IInv`: a receiver is in no queue, hence not the
caller; careful kills and wakeups touch no receiver; so a delivery always finds a thread blocked in recv.
It also shows every call of a careful caller to be a step of `Threads`. Its lemma `OneMoves` is about any step that changes whether one
thread at most can run: queues, slots and boxes then say what every other thread waits for as before (`StateNow`), and the head of the most urgent
queue is a thread `Threads` may choose (`Chooses`). Each call has a lemma that finds its thread and cites this one. `Threads` leaves open whether a caller still holds
its last message (`Settled`), because a service call from an interrupt does not clear it.

*RunCommand.* The three theorems share the invariant `SInv == IInv /\ (Programs \/ Down)`, which TLC checked on the instance of `run_command` before it was
proved. `Programs` says for each place of a program what the kernel holds of it. `Waiters`: a box with a receiver is empty, and the receiver is the
one program that reads it, blocked, at the place after its `recv`. `Fetched`: a program past its `recv` has its message, or is still the receiver. `Booted`: main has
started the threads up to where it is, each with its id and its stack, so that the ids of `define.h` are right, system threads stay alive, and what `run`
starts later is an app. `RunInHand` and `LoadInHand` are one predicate, `InHand`, for shell and exec and for exec and the SD driver: whoever waits for an answer has its
request in a box, or in somebody's hands, or the answer in a box, and never two of these. `Foreground`: the only app in the foreground is the
one whose id exec keeps in `job`. `Accounted` counts blocks. Each is needed for the others: `^C` puts a message into APPEVENT, and only `Waiters` says it wakes exec where exec waits for one; exec
kills `job.id`, and only `Foreground` says this is not a system thread. `Down` is for a system that has stopped, by a sysdown in any caller: then no step
is left, and the block the caller had taken or given may be uncounted, which is why `LeakOnlyOnFailure` speaks of a running system.
The kernel's part of a call is stated once, as what it does to the slot of the caller, to the box and to a receiver woken, and that every other thread keeps its slot and its
place in the queues; the lemma of each program step cites it.
*Only apps are killed from the prompt* (`KillIds \subseteq Apps`) is a hypothesis, not something the code checks: `kill 4` clears exec, and `stale_receiver` shows what is left behind then.

*MessageBoxes.* The proofs rest on `LinkProofs`, which is about pointers alone: `Lists(first, next, q)` says that the walk from `first` along `next` meets the elements of the
sequence q and then NULL, and `Chain` returns that q; taking off the first, linking one behind the last and putting one in front do to q what `Tail`,
`Append` and concatenation do. `Chain` is a recursive function, so that it exists and ends is an induction over the numbers up to its bound (`InductionOnSet`, from the
well-foundedness of <). The areas of the pools are placed by the same kind of induction, which gives `Apart` of any blocks.
The invariant `Sound` names the queues: there is a queue of free blocks for each pool and a queue of buffers for each box, no block in two of them,
and a given block is held by a thread or lies in a box. It says of the tail pointer that it is the last element, since `sendmsg` links behind
it without a look at the head. `BoxesKeepMessages` reads a box's queue as its messages; `BoxesCountBlocks` reads the length of a free list as its count,
where the block a call takes is in the first pool that is large enough *and* not empty.

*Console.* `IInv` has three parts. `FifoOK` and `WritersOK`: a handler runs only while the thread has nothing left to push, and the bytes on their way, which are the FIFO,
the ring from head to tail, and what is left of the thread's text, in this order, change by a whole text at the
end, by a byte at the front, or not at all; that makes each step one step of `TextPipe`
or a stutter (`OnItsWay`, `PipeStep`). `LineOK`: what was typed and is unread is at most an Enter, one other key, or the LF of an Enter whose
CR was the last byte read, so that the flag with which `consdrv` joins CR and LF is right when it is read, and the lines delivered are as many as Enters were pressed.
`NoLostWakeup`: whoever stops draining a ring that is not empty has seen the FIFO full, so above the trigger level, and leaves the interrupt enabled; the level then
falls one byte at a time and raises the interrupt as it passes. `Encoded`, which puts the CR before the LFs of a text, is a recursive function as well; that it is a sequence of bytes is its induction.

*Loader.* `IInv == Types /\ (~short => Owners)`. `Types` adds to `TypeOK` that a request, an image and a block are there from the step
that makes them on. `Owners` says by pages what `OneOwner` says by regions: `Covered` (a page is in use exactly when it belongs to the image in hand, a
wrapper's image, a block, or an app that is gone) and `Disjoint`; and it needs `OwnBlock`, because a wrapper that starts takes its image
from its block, and `BlockInHand`, because `elf_loader_unload` frees the pages the block names and not those exec remembers. A block may be shared by two
wrappers after a refused allocation, which is why all of it is promised only until then.
`ImagesIntact` adds `Placed`, which follows an image through its load: the segments before `next` lie there as the file has them, at the distance of their
linked addresses from the lowest, and relocation turns what the linker wrote for its own place into what it would have written for this one (`Holds`, `Right`). The
distance between the two places wraps, and a pointer is told from a number by its value alone, so the proof needs what the linker sees to (`LinkerAssumption`): every pointer has an
entry, no listed number looks like a pointer, segments lie apart, and an image ends below the top of the address space, as a pointer to its end would otherwise be 0.
A word of another image is not touched, because pages of different owners are apart and so are the words in them.

*SD driver.* `IInv == Session /\ Walk /\ Loads /\ NamesCause`, which TLC checked on the instance of `sd_driver` before it was proved.
`Session` is about the card. `Negotiated` and `Learnt` say what the driver knows at each command *whatever was lost or moved*: a version found by CMD8, a kind that answered, an addressing mode that
is the card's, a block length set if the card needs one. Addresses are right because of these alone, which is why `SectorIsRight` needs no quiet slot.
`InStep` says more, and only for an undisturbed slot: the card is in the mode the driver takes it to be in, and the delays it has left and the tries made add up to those it began with, so that
initialisation fails only where the kind or the delays are at fault.
`Walk` is about the volume. `Asked`: a sector that came is the one at `lba`. `Searched`: the entries before the one `find` is at decide nothing (`Passed`); with the end mark, a match or the end of the chain that settles what the
directory lists. `Copied`: the next byte lies at its place in the chain (`Lies`), so many clusters on and so many bytes into one, while skipping, copying and following; at the end of a cluster the next one exists if
any byte is left, because the chain has as many clusters as the size asks for, and the FAT is not followed if none is.
`Loads` counts the loader's reads: none before it runs, the first of the header, and more only if the file has one; an answer given after one read is then ELF_HEADER if that read failed, and after more ELF_READ.
These rest on the first part of `SdProofs`: chains are injective and disjoint, so a cluster has one place in one chain and its entry is found by division with remainder (`NextCluster`); the cells of a sector
are those of the directory or the file at that place (`RootCells`, `FileCells`). A name is accepted exactly if it is a stem of up to 8 characters, a dot and up to 3 more:
`ReadAs` says what has been read after each character, before the dot and behind it, by induction over the name, as `fat_make_short_name` is a recursive function.

*Switch.* The three properties share the invariant `Inv`, which TLC checked on the instance of `switch` before it was proved. `Layout`: the stacks of live
threads lie in the areas of their kinds, below what has been handed out, and no two overlap. `Pushed`: a thread has 18 words on its stack, those of its context, or 19 with
the word it pushed itself; the context of the running thread is in the registers. `Sound` says what these words may be: a thread that has not run yet has its first frame and nothing else; one
stopped at svc asks for a call somebody makes; one that is back from setintr finds the soft vector set, which is what makes `serial_interrupt_enable` safe after it; and the privilege is the one it was
started with. `Ready` and `AtFront`: the pointers hold queues of live threads, each in the queue of its priority, and the running thread is the first of its own.
The queues are those of `LinkProofs`: for each of `getcurrent`, `putcurrent` and `readyque_remove` a lemma says which sequence the pointers hold afterwards, and that only one queue is touched.
The words of memory are never traced through a run of calls. A handler's saves and `dispatch` are each an overlay of 18 words at one place (`SavedContext`, `Dispatched`); as stacks are apart, the
saves of one thread leave what another sees (`Kept`), whoever is dispatched gets back the words it saw (`Returned`), and a lemma for each handler combines this with what it does to the
queues into `Inv` again, a step of `Dispatcher` and a step of `Processors`. `Confined` needs that the region of the MPU is the area of app stacks exactly (`RegionIsArea`): the loop finds the first power of
two that reaches the end, which for an area aligned to its size is the area itself, and a smaller one would start inside it and end before it.

*Assumptions.* `ThreadAssumption`, `PriorityAssumption`, `SizeAssumption`, `NullAssumption` of `Kernel`; `BoxAssumption` (the boxes and messages of the programs) and `SystemAssumption` (slots, priorities and stacks for main and the four
threads it starts, fewer than `define.h` and `linker.ld` have) of `RunCommand`, with the hypothesis on `KillIds`; `SizeAssumption` and `TextAssumption` (texts are finite
sequences of bytes) of `Console`; `PoolAssumption` (a table of pools of increasing sizes, as in `memory.c`; NULL is no address) of `Memory`, `BoxAssumption` (NULL is no thread) of `MessageBoxes`; `PageAssumption` of
`AppMemory` and `ParamAssumption` (a block fits a page), `NullAssumption`, `LinkerAssumption` (an accepted file is as a linker makes it) of `Loader`; `SectorAssumption`, `CardAssumption` (chains without cycles, inside the FAT and long enough for what they hold) of `Volume`, `NameAssumption` (names are
sequences of characters; what a card's names consist of) of `Fat32`, `TriesAssumption` of `SdCard`, `SwapAssumption` (a card put in is a card) and `HeaderAssumption` (a header has a size) of `SdDriver`; `SlotAssumption`, `CallAssumption` (nobody passes a wrong priority, as
in `Kernel`) and `StackAssumption` (the two areas are apart, and that of the apps is aligned to its size, a power of two, as `linker.ld` has it) of `Switch`. TLC evaluates them in every run.

*Model-checked only.* Liveness (`RoundRobin`, `PromptReturns`, `Drains`, `Ends`), with its fairness and ENABLED, is out of the prover's reach. Every invariant, action property and refinement of the passing runs is
proved; those of `RunCommand` under the hypothesis on `KillIds`.

## 5. Not modelled

Clock, boot code, the registers of SPI, UART and MPU, the string helpers, sample apps: see the components in `PROJECT.json`.
Of the exception entries: faults and NMI, which stop the system; SysTick finding the main stack in use, which cannot happen, since no handler is interrupted and every thread runs on its own stack before SysTick is started; the word
the hardware inserts to align a stack, which it takes out again itself. Of the MPU: regions at fixed addresses; the accesses of an app are not represented, only what its regions contain.
`softerr_intr` is registered for a vector nothing raises. The reset command restarts the chip.
File names in requests are taken to fit the request's field. The texts written to the console are not modelled.
A sector's CRC is not looked at by the code, and a damaged sector that arrives is not in the model; sector numbers do not reach 2^32 / 512, where byte addresses wrap.
A refused page allocation for a parameter block (`exec.c:59`) is modelled, but nothing is claimed of what follows it.

## 6. Plan

Order of work, the most important behaviour first.

1. *Done:* `Sched`, `Kernel`, `Threads` and the theorems above; `RunCommand` with the shell's line parsing and the listing of ps; `Console`; `AppMemory`, `Loader`; the SD driver down to its commands, on `Fat32`; context switches over linked queues; message buffers in the block pools.
2. *Done:* the proofs of section 4, which cover every safety property and refinement of the runs that pass.
3. `RunCommand` with the three finite pools of `memory.c` in place of one, and the blocks of writes that wait for consdrv.
4. `consdrv_write` and `consdrv_write_int` in their callers; file names longer than the request's field.
