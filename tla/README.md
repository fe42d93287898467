# Specifications of the SistemasOperativos kernel

TLA+ modules for the x86-64 teaching kernel in `src/Kernel` and the user programs
that exercise it. TLC checks the modules on small instances; TLAPS proves the most
important results for every value of the constants. `PROJECT.json` lists the
components, the runs, the lines of source each definition stands for, the hazards of
the code and the mutants that show a property is able to fail.

## 1. The system

### 1.1 How it runs

One CPU. Every gate of the IDT is an interrupt gate (`setIDTEntry`, attributes 0x8E),
so a system call or an interrupt handler runs with interrupts off until it returns or
calls `_yield`, which dispatches another process with that process's own flags.
Hence the grain of the specifications:

- a system call is one action, or, when it suspends its caller in `_yield`, one action
  up to the `_yield` and another one when the caller is dispatched again;
- the timer preempts user code between any two calls;
- one piece of kernel code runs with interrupts on: when a program returns from
  `main` or a thread from its function, `callProcess` runs `terminateThread` and
  `removeProcess` in the context of that program. Its loads and stores are separate actions
  (modules `Scheduler` and `Memory`).

At boot `main()` creates process 0, `init`, an endless loop, and the shell. Process
numbers are never reused. `removeProcess(0)` only yields, so there is always a process
to run.

### 1.2 Components

| component | state | operations | interacts with | what makes it correct |
|---|---|---|---|---|
| scheduler, process table (`scheduler.c`, `process.c`) | circular list of slots, `current`, `cardinal_processes`, state of each process | create, remove, change state, `schedule`, restart | everything | the list, the counter and `current` agree; `schedule` ends; every READY process runs |
| timer, system calls (`interrupts.c`, `systemCalls.c`, `libasm.asm`) | IDT, table of calls | tick, dispatch, `_yield` | scheduler, sleep | handlers are atomic up to `_yield` |
| sleep (`interrupts.c`) | table of sleepers with counters | `sleep`, tick | scheduler | everybody wakes at the tick asked for |
| mutexes (`mutex.c`, `lock.asm`) | table of named mutexes, each with lock word, queue and counter | get, lock, free, close | scheduler | exclusion, no lost wake-up |
| semaphores (`semaphores.c`) | table of named semaphores with value, queue, counter and a mutex | create, open, close, wait, signal | mutexes, scheduler | tokens are conserved |
| pipes (`IPC.c`) | table of named pipes, rings inside the process page | create, open, read, write, close | mutexes, scheduler | order, no sleeping reader forgotten |
| buddy allocator (`buddyAllocator.c`) | tree of marks | `allocPage`, `deallocPage` | processes, threads, heap | no page in two blocks |
| threads (`threads.c`) | thread array of a process | create, switch, terminate | allocator, scheduler | pages given back once |
| heap (`malloc.c`) | list of blocks per process | `mallock`, `free` | allocator | blocks disjoint, list well linked |
| terminal (`terminal.c`) | ring of characters | put, get, reset | keyboard, mouse, read call, `runC` | order, nothing lost |
| keyboard, mouse, video | shift/caps automaton; packet automaton, selection; screen and cursor | interrupts, printing | terminal, scheduler (restart) | the row shows the line that will be read; the cursor stays in the module's area; no selection left on the screen |
| module packing and loading | image file, module area | `buildImage`, `loadModules` | boot | what is loaded is what was packed |
| shell, editor, fortune (`Userland/SHELL`, `EDITOR`, `FORTUNE`) | the line being read, what runs in the foreground and in the background | system calls | console, scheduler | what is typed is read |
| producer/consumer, philosophers (`Userland/dummy`) | ring of characters, workers; forks | system calls | semaphores, mutexes, scheduler | bounded queue, no two neighbours eating, nobody locked out |

Pure64 and BMFS under `Bootloader` are third-party code and are left aside.

### 1.3 What is hard here

- interleavings of the preemptible exit path with the timer and with everything other
  processes do meanwhile (`scheduler.c:263-280`);
- hand-off of mutexes and semaphores between a `_yield` and the resumption, with
  processes killed in between (`mutex.c:207`, `semaphores.c:216`);
- system calls that suspend inside other system calls: `read` and `write` of a pipe in
  the mutex of the pipe, `createPipe` in the mutex it holds itself (`IPC.c:201`);
- `putTerminalBuffer`, which turns interrupts on in the middle of the mouse's interrupt
  (`video.c:259`), and a row on the screen that is edited before the line is;
- threads that end with interrupts on, giving back the stack they run on (`threads.c:49`);
- capacities: queues of 20, tables of 100, 50 sleepers, a ring of 2500 characters, pipes
  that are full;
- sequences of legal calls that leave stale data behind: slots of closed mutexes,
  entries of killed sleepers, marks of the buddy tree.

Section `hazards` of `PROJECT.json` gives the line of each and the properties that
cover it.

## 2. Modules

`ProcessTable` is the abstract specification of scheduling: processes have a state, one is
current, and the CPU only changes hands through `schedule`, which picks *some* READY process.
Its operators (`changeProcessState`, `schedule`, `Removed`) are what the blocking primitives
are written with. `Scheduler` implements it with the linked list; `Mutex` and `Sleep` extend
it and implement it too.

`CountingSemaphore` is the abstract specification of what a client of a semaphore or a mutex
is promised. `Semaphore` and `Mutex` implement it; the programs of `Userland/dummy` are
written against it. So the chain from the list of `scheduler.c` to the ring of the producers
is cut at two contracts, each checked on both sides.

```
Scheduler --implements--> ProcessTable <--extends-- Sleep
                               ^
                            Mutex --implements--> CountingSemaphore <--extends-- ProducerConsumer
                            ^   ^                        ^         <--extends-- Philosophers
                            |   Semaphore --implements---'                  (both in) Dummy
                          Pipes
BuddyAllocator <--extends-- Memory          Video <--extends-- Console <--extends-- Shell
```

| module | code | correspondence |
|---|---|---|
| `ProcessTable` | the contract of `scheduler.c` | one action per kind of step: create, tick, suspend, wake, yield, kill, exit, run, restart |
| `Scheduler` | `scheduler.c` | `next`, `current`, `cardinal_processes` are the C variables; `walk` follows `next`; loops over `cardinal_processes` slots are the set `Visited` or `SearchLength`; `exit` holds the locals of a preempted `removeProcess` and its program counter; `ended` is history: whose removal was requested, and who was cut out |
| `Mutex` | `mutex.c`, `lock.asm` | the fields of `Mutex` are functions on the slots; `handles`, `holds` and `frame` are what clients know: what they got from `getMutex`, what they locked, where they are suspended |
| `CountingSemaphore` | the contract of `semaphores.c` and `mutex.c` | `value` tokens and the set `waiting`; a process killed in the queue stays there |
| `Semaphore` | `semaphores.c` | extends `Mutex`; `sem` is the table, `call` the point at which `wait` or `semCreate` is suspended; `given` and `taken` count tokens |
| `Pipes` | `IPC.c` | extends `Mutex`; `pipe` is the structure of the one pipe, `call` the system call a process is suspended in, with the pointer into the ring it took before `lockMutex` (`aux`); `content` is the queue the ring should be, `garbled` and `stray` record the two ways the code spoils it (section 3) |
| `Sleep` | `interrupts.c` | `sleepers` is the used part of the three arrays; `step` is an iteration of the loop of the tick; `due` counts what a sleeper still has to sleep |
| `BuddyAllocator` | `buddyAllocator.c` | operators on the array `occupied`: `Search` is the descent of `getNextPageRecursive`, `Marked` its way back, `Proceed` one load or store of `freeUpRecursive` |
| `Memory` | `process.c`, `threads.c`, `malloc.c`, the pages of `scheduler.c` | every client of the allocator: `slot`, `thread`, `heap` are the structures with the nodes of their blocks; a thread that ends goes through `freeUserStack`, `freeKernelStack`, `freeThread`, each with the `freeUpRecursive` steps that follow, `terminateThread` and `uncountThread`, with ticks in between |
| `Video` | `video.c`, `mouse.c` | operators on the records `screen` (cursor, area of the module, cells) and `mouse` (pointer, ends of the selection, highlighted cells) |
| `Console` | `terminal.c`, `keyboard.c`, the handler of the mouse, system calls on them | `ring` is `Buffer` with its two indices; one action per interrupt and per system call; `pasting` is what an interrupted `paste()` has still to hand over, `packet` the packet whose handler it is in |
| `Shell` | `Userland/SHELL`, `EDITOR`, `FORTUNE` | a program is the sequence `calls` of system calls it is about to make; the line decides what it becomes |
| `ProducerConsumer`, `Philosophers`, `Dummy` | `Userland/dummy/dummy.c` | `step` and `at` are program counters between semaphore calls and accesses to shared memory; `control` is the keyboard loop, with `removed` the calls of `removeProcess` that its `killAllProcesses` has made |
| `ProcessTableProofs`, `SchedulerProofs`, `SemaphoreProofs`, `SleepProofs`, `PipesProofs`, `MemoryProofs`, `ShellProofs`, `DummyProofs` | | theorems and lemmas about the module of that name (`SemaphoreProofs`: `Mutex` too; `MemoryProofs`: `BuddyAllocator` too; `ShellProofs`: `Video` and `Console` too; `DummyProofs`: both programs) |
| `MC*` | | instances for TLC |

Abstractions shared by the modules: names, texts and addresses are model values; the
process that `schedule` picks is any READY one outside `Scheduler`; a call that finds a
table full and returns an error without changing anything is no step.

Modelling decisions that deserve a word:

- `removeProcess` with interrupts off is one operator: `SearchLength` iterations, then the link and
  the counter change, or nothing does. It stops at a `cardinal_processes` that preempted exits left too
  low, even negative, and then cuts out the slot it has come to, whoever owns it; `cut` names
  that slot, and the caller yields only when it is its own. When the only slot of the list removes
  itself `current` becomes NULL and nothing can be scheduled: `Alone` ends the behaviour there.
- The exit path is one action per access to shared memory: the `while` condition (`exitSearch`), the
  body (`exitAdvance`), the test after it (`exitCheck`), the load and the store of the unlinking
  (`exitFollow`, `exitUnlink`), the load and the store of `cardinal_processes--` (`exitLoad`, `exitStore`),
  the two `_yield`s (`exitYield`).
- `_testAndSet` uses `CMPXCHG8B`: it compares and writes eight bytes, the lock word *and*
  `cardinalBlocked`, which follows it in the structure. `Acquirable` says so.
- `lockMutex` with a full queue calls `changeProcessState` with an uninitialised
  variable: any process, or none, may be blocked by it (`lockMutexFull`).
- The clients of `Mutex` lock only what they do not hold and free only what they hold.
  The code checks neither; the user programs do it.
- `initializePipes` is never called, so the administration mutex of pipes is slot 0, the
  `adminMutex` of `getMutex`. `createPipe` waits in `getMutex` for the mutex it holds. It
  returns only after the queue of that mutex overflowed, because a process that does not fit
  comes back from `lockMutex` as an owner and frees it. `Pipes` starts at boot and reaches
  its pipe along that path; nothing is assumed about it.
- `createPipe` frees slot 0 twice, at the end of its `getMutex` (`mutex.c:53`) and of its own
  (`IPC.c:228`): `createPipeGot` and `createPipeReturn` each hand the mutex to a waiter and wake it. With
  two waiters there are two owners.
- A `write` into a full pipe marks its caller BLOCKED and returns; the caller goes on, and may make
  any further call, until the next tick takes the CPU away. `Executing` says so, and `Mutex` uses it as
  the guard of every call.
- `philosophers` hands an array of pointers over as an array of `int`: philosophers 1 and 3
  use the semaphore in slot 0, the others pass half an address, which `isValidSemaphore`
  rejects (`HasSemaphore`).
- `terminateThread` leaves `activeThread` on an empty slot, and until `uncountThread` the
  thread is out of the table and still counted (`leaving`). Whoever saves or loads a stack
  pointer through an empty slot does so at address 0. A page that was given back keeps its
  content, so that a thread which still runs on it does so unharmed - also through the `Thread` it
  gave back - until `allocPage` hands the page out: then it has two writers, one of which may
  be `extendHeap` with the header of a block (`malloc.c:111`). The variable `stray` of `Memory` records
  both, and the model stops there, since C says nothing about what follows. In particular it makes no
  claim about the chain of a heap whose pages were handed out twice.
- The handler of the mouse makes the selection of a packet before it pastes (`mouse.c:130-178`), so
  `mouseHandler` computes the mouse and its selection first (`buttons`) and pastes that one. A packet
  with the left button down pastes the one character it has just selected; a packet with both
  buttons up pastes what was selected before, however long. `paste()` turns interrupts on after every
  character: the first one belongs to `mouseHandler`, each of the others is a `paste` of its own.
- `killAllProcesses` is a loop of system calls: each `removeProcess` is an action, with
  the workers running in between. After an earlier run of the program some cells may hold 0, and
  `removeProcess(0)` concerns no worker.
- `run` of the shell prints an error for a program it does not know and then turns the echo on as it does
  for the others (`shell.c:79-81`).
- In `Shell` a text of any length is one character and so is a word of the command line; the
  parser tells apart what the program can do next, not the words. One background thread runs
  at a time.

## 3. Runs

| run | shows | instance |
|---|---|---|
| `scheduler_calls` | types, `PsListsAll`, refinement of `ProcessTable`, a READY process is dispatched, when nobody returns from `main` | 5 processes |
| `scheduler_exit` | the loop of `schedule()` ends whatever two interleaved exits do to the list | 4 processes, 2 returning |
| `scheduler_exit_ps` (violation) | the same interleavings make `ps` list wrong processes | the same |
| `mutex_kill` | inductive invariant (with the types), exclusion, both refinements, with kills; until somebody is killed no lost wake-up, and the first of the queue gets the mutex | 4 clients, 2 of them mortal, 1 mutex and `adminMutex` |
| `pipes` | the ring is a queue, a sleeping reader is listed on an empty pipe, counters and queues of the mutexes agree although they overflow and are re-created | 3 clients: the shell makes the pipe, one asks for its mutex by name, one opens it; a pipe of 2 bytes, written with the empty message and those of two different bytes, read 0 to 2 bytes at a time, queues of two slots |
| `semaphore_kill` | counter and queue agree, BLOCKED processes are queued, tokens are conserved, `wait` and `signal` implement the counting semaphore, with kills | 3 clients, 2 of them mortal, one using the semaphore's mutex as well |
| `semaphore_create` (violation) | `semCreate` of an existing name blocks the next `semCreate` for ever | 3 clients |
| `sleep_table` | bounds, wake-up at the right tick, entries expire, refinement, who sleeps runs again | 4 sleepers, 1 of them mortal, a table of 3 |
| `memory` | until a thread ends no page has two users; until a page in use is handed out heaps are tiled by their blocks; threads are counted, at every step of a thread that ends, and get their turns | 32 pages, 3 processes, 3 threads each, one of which ends, 3 calls: requests that split a block, extend the heap and extend it twice |
| `memory_ends` (violation) | a thread that ends gets a block in use marked EMPTY | the same |
| `console` | order of the ring, the row shows the line, the cursor stays right of the prompt, no trail of a selection, what is typed is read | a screen of 4 x 3, a ring of 3, 5 inputs; packets with the left button, the right one and none |
| `programs` | the buffer of `prodCons` is a queue, `control` knows its workers, also while `killAllProcesses` goes through them, neighbours exclude each other, nobody is locked out, consumption goes on | ring of 2, 3 workers with kills and counters left by an earlier run; 5 philosophers |

The violation runs are the `findings` of `PROJECT.json`: each checks what a comment, a
manual text or a caller of the repository says, and TLC shows the steps by which the code
departs from it.

Exceptions in the properties are facts of the code, each recorded by a history variable:

- `ScheduleTerminates` demands that init is reached until it was cut out (`ended`): afterwards the loop
  of `schedule()` ends as long as somebody else is READY, and no longer. That takes more than the
  four processes of `scheduler_exit`, where init is never cut out. It happens with seven, of which the
  shell has given its place to a, and the list is init, a, d, e, c, b: a returns from `main`, and is
  interrupted after four iterations of its search, with `prevSlot` at b and `slotToRemove` at init; d, e
  and c are killed, and the counter falls from 6 to 3. Now i is 4, the loop ends,
  `i == cardinal_processes` does not hold (`scheduler.c:271`), and b is linked to the slot after init.
- A process killed while it holds a mutex takes it along: the kernel releases nothing.
  `WaiterHasOwner` and `FirstWaiterGetsMutex` speak of the time before the first kill;
  exclusion, both refinements, `TokensConserved` and `NegativeIsQueue` hold throughout.
- `Punctual`, `SleeperListed` and `SleeperRuns` leave out the processes that went to sleep
  with the table full (`dropped`), whom no tick wakes.
- `read` and `write` take a pointer into the ring before they lock the mutex. A transfer that has
  waited while another one moved the index copies from or to the wrong place; an empty message
  marks an empty pipe full and a `read` of no byte marks a full one empty (`IPC.c:82`, `IPC.c:146`).
  `garbled` records both; `RingInOrder` says that bytes are lost or repeated in no other way.
- `lockMutex` with a full queue may put any process to sleep (`mutex.c:196`). A reader that was woken
  from the list of the pipe and is hit before it has run sleeps where no `write` will find it:
  `SleepingReaderListed` leaves out those processes (`stray`). In the instance of the run no reader
  is hit; with queues of one slot TLC meets the case, and the proof covers it.
- The test for a full terminal ring misses one position of the reader: with the reader at the
  start of `Buffer` a full ring looks empty (`lost`). `TerminalInOrder` holds until then and
  again after the ring is reset.
- `LineShown` speaks of lines that began on an empty ring with echo, that no other output
  touched and that did not reach the end of the row (`clean`): past it `backInLine` cannot go
  back to the row above, and the row and the line do differ.
- `CursorInArea` leaves out the time after a background thread executed `clear`, which puts
  the cursor left of the prompt (`cleared`); from there backspace moves it without bound.
- `NoSharing` holds until the first thread gives its pages back (`ended`); `memory_ends` shows
  why not afterwards. `HeapTiled` holds until a page in use is handed out (`stray`).
- `ThreadsCounted` counts one more than the table holds between the two statements of
  `terminateThread` that empty the slot and decrement the counter (`leaving`).
- `WorkersTracked` leaves out a process that was started with a counter left at zero by an
  earlier run of the program: its pid is written in front of its array.

### Bounds

- Processes are created once and never reused, as in the kernel; the number of `Pids`
  bounds creations and with them every other counter of `Scheduler`, `Mutex` and `Sleep`.
  Four or five are enough for the interesting cases: init, a process that acts, one it
  acts on and one that comes in between.
- `MAX_MUTEXES`, `MAX_SEMAPHORES`, `MAX_LISTENERS`, `PIPE_LENGTH`, `BUFFERSIZE`, `LineSize`,
  `bufferSize`, `MAX_WORKERS`, `MAX_THREADS`, the queue length and `HeapLevel` are the program's
  sizes made small. Each is small enough to be exhausted, unless exhausting it is undefined:
  the queues of `pipes` overflow (two slots, so that one `createPipe` may hand its mutex to two
  waiters; 20 in the kernel), the table of sleepers has one
  entry less than there are sleepers, the ring of the console fills, a line reaches
  `LineSize`. The queues of `mutex_kill` and `semaphore_kill` fit every process, which is the
  hypothesis of the proofs.
- `MaxGiven` bounds the tokens given to a semaphore, `MaxRead` the bytes of a `read`; it is the
  length of the ring, so that one `read` empties it. `Messages` are those that are written: the
  empty one, which `write` carries out like any other, and those of two different bytes, which
  fill an empty ring; where a `read` has made room for one byte only, one byte is written. The
  proofs hold for any set of messages with the empty one.
- `MaxCalls` bounds the calls of `malloc`, `createThread` and `ps`, `MaxEnded` the threads that
  end: no page is ever given back otherwise, and the code checks no `allocPage` for NULL.
  `PAGE_SIZE` is 128 with a header of 28 bytes, so that one of the two request sizes just
  misses what a new page holds and `mallock` extends the heap once more. Three calls are two
  threads and an extension, or a thread and a heap extended twice; one thread that ends is
  enough for every place where a tick may meet it.
- `Creators`, `Lockers` and `Openers` say which client calls `createPipe`, `getMutex` and `openPipe`;
  whoever has the pipe reads and writes, and every client locks and frees. The proofs hold for any
  three sets, overlapping or not.
- `MaxInputs` bounds the keys, mouse packets and restarts. Five suffice for a selection of
  several cells, a packet with the right button and one with none that pastes it, and a key between
  two characters of the paste, and for a full ring and a restart. The pointer starts
  in the middle of the screen, as (10, 10) is outside of a small one.
- `Codes` is the number of letters the item numbers wrap around in.

`CHECK_DEADLOCK FALSE` is set in `pipes` (the uninitialised pid of a full queue may block `init`;
when everybody else waits as well, the loop of `schedule()` has no end, and `schedule` of
`ProcessTable` has no successor; it also stops at a write that wakes up to a closed pipe which is not full), `memory` and
`memory_ends` (they stop at `MaxCalls`, or at `stray`), `console` (after
`MaxInputs` everybody waits for a key) and `programs` (all workers may have been killed).

### Fairness

- `Scheduler!FairSpec`: the timer keeps interrupting. User code always runs with
  interrupts on, and so does `init`.
- `Sleep!FairSpec`: the same, and a process that is READY again and again runs again and
  again, which is what `ReadyRuns` shows of the ring.
- `Mutex!FairSpec`: a process that is READY again and again runs again and again, a resumed
  `lockMutex` returns, and a client that runs again and again with a mutex frees it: the
  assumption on programs under which waiting for a mutex makes sense. The queue is not
  first-in first-out: `addToBlocked` fills the lowest free slot and `unblockProcess` empties the
  lowest used one. `FirstWaiterGetsMutex` therefore speaks of the first slot; a waiter in a
  higher one may be overtaken for ever.
- `ShellSpec`: the process in the foreground gets its turns, again by `ReadyRuns`. Nothing is
  assumed of the background thread, of who types, or of an interrupted paste, which a restart
  may leave unfinished.
- `DummySpec`: a worker that is in no queue gets its turns. Nobody has to press a key.

## 4. Proofs

Every safety property of `ProcessTable`, `Scheduler`, `Mutex`, `Semaphore`, `Pipes`, `Memory`, `Sleep`, `Console`,
`Shell` and the two programs is proved for every value of the constants, with one inductive invariant
per specification, defined at the end of its module (`Memory` and `Scheduler` have two), and one lemma per action. The theorems that are
not about the invariant itself follow from it.

| module | theorems | assumptions |
|---|---|---|
| `ProcessTableProofs` | `TableInvariant` | none |
| `SchedulerProofs` | `SchedulerLinksInvariant`, `SchedulerTerminates`, `SchedulerRing` | none |
| | `SchedulerTypes`, `SchedulerPsListsAll`, `SchedulerImplementsTable` | nobody returns from `main` |
| | `SchedulerTableUntilReturn` | nobody has returned from `main` in the behaviour |
| `SemaphoreProofs` | `MutexInvariant`, `MutexSafety`, `MutexNoLostWakeup`, `MutexImplementsTable`, `MutexImplementsSemaphore` | `QueueFits`, `CleanClose` |
| | `SemaphoreInvariant`, `SemaphoreTypes`, `SemaphoreSafety`, `SemaphoreTokens`, `SemaphoreSleepers`, `SemaphoreImplementsCounting` | queues fit every process, `CleanClose` |
| `PipesProofs` | `PipesInvariant`, `PipesInOrder`, `PipesWakeReaders`, `PipesCountQueues` | nobody is killed |
| `MemoryProofs` | `MemoryInvariant`, `MemoryNoSharing`, `MemoryEmptyIsEmpty`, `MemoryThreadsCounted`, `MemoryTurns`, `MemoryHeapTiled` | `BootAssumption` |
| `SleepProofs` | `SleepInvariant`, `SleepTypes`, `SleepPunctual`, `SleepEntriesExpire`, `SleepListed`, `SleepImplementsTable` | none |
| `ShellProofs` | `ShellInvariant`, `ConsoleInOrder`, `ConsoleCursor`, `ConsoleNoTrail`, `ConsoleLine` | the prompt is shorter than a row |
| `DummyProofs` | `PhilosophersInvariant`, `PhilosophersExclude`, `PhilosophersTested`, `ProdConsInvariant`, `ProdConsRing`, `ProdConsTracked`, `ProdConsOldest` | three semaphores, finitely many workers and at least two, `mutexp` is none of the philosophers' semaphores |

The assumptions in the last column are `ASSUME`s of the modules, or hypotheses of the theorem:

- `QueueFits`: the queue of a mutex has room for every process. Without it a process that finds
  the queue full comes back from `lockMutex` as a second owner (`mutex.c:185`), and exclusion
  does not hold;
- `CleanClose`: a mutex is closed when nobody else has it. `createMutex` does not reset a
  slot, so otherwise a new mutex inherits the lock of the old one;
- that nobody returns from `main` (`Returning = {}`) is no assumption of convenience: once somebody does,
  `ps` lists wrong processes (`scheduler_exit_ps`), the counter may become negative and init may be
  cut out (section 3). What holds all the same is `LinksInv`;
- `BootAssumption`: the heap is large enough for the two processes `main()` creates; the
  kernel's has 1024 pages, and the two take fourteen;
- `prodCons` creates the semaphores 0, 1 and 2 and one worker of each kind before it reads a key;
  `mutexp` is a mutex and so is not semaphore 0.

**Process table.** The invariant is the type of the table, "init is READY or RUNNING" and "who is
RUNNING is current". It is inductive because a system call is made by a process other than init, and
`schedule` demotes the process that was RUNNING.

**Scheduler.** Two invariants, for the two things the list has to do.

`LinksInv` is what is left of the list when returning processes write to it with interrupts on. A slot that
was cut out keeps its link, another one may be linked to it again, and the counter may be
anything up to the number of slots, or negative. But no slot ever gets a link that leads away from init:
there is an order of the slots (`rank`) in which every link but that of init leads down
(`Descends`), and with it init is reached from everywhere, since a number cannot go down for ever. The
order has to cover the values a preempted `removeProcess` holds (`ExitsDescend`): while it
searches its `slotToRemove` is below its `prevSlot`, and when it has loaded the link it is about to
store, that is below `prevSlot` as well, whatever was created or removed in the meantime. A new slot gets a
rank between `current` and the slot after it, for which the others move up; a removal keeps
the order. Only a `removeProcess` that cuts init out breaks it, and says so in `ended`.

`RingInv` holds until somebody returns from `main`: the links of the live processes form one circle
(`IsRing`), which has `cardinal_processes` slots and contains `current` and init. The circle is a list
`RingFrom` of the slots without repetition. It can be started at any slot, so that `walk` from
`current` is that list (`Visited` is everybody, each once); `addProcess` puts a slot in after the
first, and `removeProcess` finds the place of the pid and takes it out. `killAllExceptCurrent`
is a loop that changes the list it walks; its invariant is that after i slots the circle has lost
those of the first i that are neither `current` nor init (`Gone`), and no other. With the circle the
slots that are linked into the list are the processes of `ProcessTable`, and each system call, with
the `schedule` at its end, is one step of it.

**Mutexes.** Exclusion is not inductive: `freeMutex` leaves the lock set and names no owner, so that
the owner during the hand-off is the process that was taken out of the queue and has not run
yet. `MutexInv` therefore defines the `Owners` of a mutex as the clients that hold it and
the processes suspended in its `lockMutex` that are no longer queued, and says: there is at
most one owner, and none while the lock word is 0 (`OneOwner`); the counter is the size of
the queue (`QueueCounted`), so that the fast path of `freeMutex` is taken exactly when nobody
waits; BLOCKED processes are queued and queued live processes are BLOCKED (`BlockedIsQueued`,
`QueuedIsBlocked`), so that a hand-off reaches a process that is still inside `lockMutex`;
clients are live (`ClientsLive`). Dead processes may stay in a queue: the mutex is then
handed to nobody and stays locked, which is safe. No lost wake-up needs one more part, proved on top
of the invariant: while nobody was killed a locked mutex has an owner (`LockedHasOwner`).

That a mutex implements a counting semaphore of one token rests on `FreeHasNoQueue`, from `OneOwner`
and `QueueCounted`: a free mutex has no queue and a counter of 0, so that the eight bytes
`_testAndSet` compares are as good as the lock word. The queue is the set of waiting processes of the
abstract semaphore; `freeMutex` takes one process out of it or puts the token back, never both.
The mapping covers dead processes, which stay in the queue on both sides.

**Semaphores.** A `wait` is suspended first in the mutex of the semaphore and then in its own `_yield`, and
between the two it has the token or does not. The invariant says where it is: who is in the queue of a
mutex sleeps in `lockMutex` on it (`QueuedInLock`), who is in the queue of a semaphore in the `wait` on it
(`QueuedInWait`), who is BLOCKED is in one of them (`BlockedHasQueue`), and a call goes on on a semaphore
that exists (`CallsMatch`). It says nothing about the owner of the semaphore's mutex: value, counter and
queue change within one stretch without `_yield`, so `NegativeIsQueue` and `TokensConserved` do not
depend on it. The refinement maps the tokens to `given - taken`, which `TokensConserved` ties to `value`.

**Pipes.** Here queues overflow and `createPipe` hands its mutex over twice, so nothing can be said about
owners. `WaitersSleep` says that nobody is
in two places: who is in the queue of a mutex sleeps in that `lockMutex`, who is on the list of the pipe
sleeps in the `_yield` of `read`, and neither is the one that executes, who may be BLOCKED as well. With it a `freeMutex` wakes nobody from the list of the pipe, and
`unlockProcesses` nobody from a queue. `CallsMatch` has the one pipe made by one `createPipe`, so
that the mutex of the pipe does not change under a transfer. The ring is index arithmetic: `Wrap` says
what `%` does to an index that went once around, `SpanIs` how many bytes lie between two indices, and the lemmas
`RingMoved` and `WriteRing`, `ReadRing` that a transfer which used a fresh pointer keeps `RingHolds`.

**Memory.** `MemInv` is about the tree of marks and about who uses which of its blocks: while no thread
has ended every block in use, of removed processes as well, is marked full, and of two of them neither
lies in the other (`BlocksApart`); and nothing in a block marked EMPTY has another mark
(`MarksClosed`), so that no block in use lies in one. The first and the last give the finding of
`memory_ends` its limit: EMPTY means empty until a thread ends (`MemoryEmptyIsEmpty`). The hard part is one
call of `allocPage`. `getNextPageRecursive` marks a block full on the way back from a right child, whatever
the left one is, and partly full on the way back from a left child; the lemma `MarkedKeeps` says
that no block in use loses its mark by that and that nothing in an EMPTY block is marked afterwards. It
needs that the search is leftmost: the block above a right child it went to was not EMPTY, because the
search would have found room in its left half (`RightBelowUsed`), so that a block whose mark the way back
leaves alone is not one that reads EMPTY and holds the new one. `AllocApart` extends this to the
sequence of calls that a system call makes. What the block of a node is, is defined by recursive
functions over the tree (`power`, `level`, `Path`); `DescentExists` and `DescentStays` show them to be
functions, and the lemmas after them that blocks apart in the tree have disjoint pages
(`PagesApart`). Once a thread gives its pages back the marks say nothing, and only the part about threads is
left: `AllCounted`, which counts the thread that is just leaving as well (`Uncounted`; its slot is
empty and its process lives, `LeaverOut`), and `TurnsNear`, in which a thread that was passed over k times is at most
`MAX_THREADS` - k slots ahead of the active one.

`HeapTiled` has an invariant of its own, `HeapInv`. It does not depend on the marks: as long as nobody
else writes to a page of the heap (`stray`), its chain is what `mallock` made it. `own` tells which
extent every block of a chain lies in. It needs that an extent is as large as `extendHeap` says
it is: `getLevel` halves the number of pages, rounded up, until one is left, and `LevelSuffices` shows that a block
of the level it gives holds the pages asked for (with `AllocLevels`: the search finds a block of that
level and no other). A new extent continues `own` (`TiledLonger`); a block cut in two keeps its end,
and `own` repeats its extent once (`TiledSplit`); a block that is taken as it is keeps both (`TiledSame`).
`split_block` needs that the block is larger than the request and another header, which is the
condition `mallock` tests; the block it did not test, the last new one, is large enough by
`ExtensionIs` (`TakenTiles`).

**Sleep.** `Punctual` needs that the entry of a sleeper shows what is left of its interval
(`EntriesMatch`), also for the part of the table the loop of a tick has not come to yet, and also
after `deleteSleep` moved the last entry into the hole. The position of the loop is part of the state, so the
invariant holds in the middle of a tick.

**Shell and console.** One invariant for ring, screen, mouse and programs. `LineShown` is the hard
part: a key changes the row when the interrupt comes and the line much later, when `scanFF` reads
it. `LineInv` states it while a command with `&` starts its thread as well, and uses `Edited`, the line
that characters and backspaces make, on what is stored and unread together. `CursorInv` says what
`clean` promises: nothing was lost, the line was echoed, the cursor is where the shell put it.
`Edited` is a recursive function; the two facts about it that are needed, `Edited` of one
character more and the length of the result, are proved by taking the least counterexample.

**Philosophers.** Exclusion follows from the table of states alone once one philosopher tests at a time
(`OneTests`, through `Tests`: the place in the loop and not being queued in `mutexp`). That sleepers are
tested needs `GrantsSignalled`: two philosophers share semaphore 0 and may take each other's token, but
when both were granted their forks a token is there or on its way. The array the program does not
initialise may hold anything.

**Producers and consumers.** `TokensBounded` adds up what was promised: free slots, plus workers that took one and
have not used it, plus items, are at most the size of the ring; dead workers take their promise along, so it is an
inequality. With it and `OneInside` an insertion finds room and a removal an item; `RingOrdered` says
what the ring is while the worker inside has moved one index or none. `WorkersTracked` is inductive as it
stands: whoever is alive has a cell the counter covers and `killAllProcesses` has not passed (`Passed`).

Induction is not available to the provers for data (the theorems of the library take an operator as
a parameter). Where a fact needs it, `LeastExists` gives the least number with a property, as a set, and
the proof refutes a least counterexample.

Only model-checked is

- every liveness property, that is `ReadyRuns`, `FirstWaiterGetsMutex`, `SleeperRuns`, `CharactersAreRead`,
  `ConsumptionGoesOn`: fairness and ENABLED are out of the prover's reach.

The type invariant is the first conjunct of the main invariant in `Mutex` (`MutexInv`), `Pipes`
(`RingInOrder`), `Memory` (`ThreadsCounted`), `Shell` (`CursorInArea`), `ProducerConsumer`
(`RingIsQueue`) and `Philosophers` (`NeighboursExclude`), and an invariant of its own in the others.

## 5. Not modelled, and the plan

Components without a module:

- `ModulePacker` and `moduleLoader.c`: sequential copies between files and memory, once, on
  the build host and at boot;
- `rtc.c`, `naiveConsole.c`, `lib.c`, `kernel.c`: device and text output; `main()` gives the initial
  states;
- `Bootloader`: Pure64 and BMFS, third-party code.

Left out of the components that are modelled: device registers, the PIC, the encoding of the
IDT, saved registers and stack frames, the copy of the screen to the frame buffer, the
formatting of numbers and the comparison of strings.

Limits of single modules:

- `Pipes`: one pipe; no write to a closed pipe that is not full, which follows a NULL pointer
  (`IPC.c:99`). A writer that finds the pipe full
  is BLOCKED and in no queue, as in the code (`IPC.c:66`), and never runs again once it is preempted. Of the error paths that return with
  `ipcAdminMutex` locked (`IPC.c:47`) only `openPipe` before the pipe exists can occur here.
- `Console`: the three bytes of a mouse packet arrive together.
- `Memory`: `free`, `mergeBlocks` and `kmalloc` are not reached by any system call. An `allocPage` that
  finds nothing, a stack pointer taken through an empty slot and a page in use that is handed out
  are the end of a behaviour.
- `Shell` and `Dummy` are separate: the programs of `dummy` are started by name in the kernel, here they
  are running from the start.
- `Semaphore`: a semaphore is closed when nobody else uses it.

Hazards of the code that no property is about, in places the models leave out or for reasons
given here:

- `libasm.asm:168`, the keyboard handler and the registers it saves; `mouse.c:108`, bytes of the
  keyboard read as bytes of a packet: below the grain of the modules;
- `scheduler.c:26`, `getProcessById` indexes a slot as an array instead of following `next`, so that it
  finds the current process only (`IPC.c` and `process.c` use it); `IPC.c:129`, the list of sleeping
  readers has no bound of its own;
- `semaphores.c:129`, a semaphore closed with waiters leaves its queue and counter to the next one
  in the slot: excluded by the assumption above;
- `interrupts.c:117`, a counter compared with `==` after the increment: `sleep(0)` and negative
  times never end;
- `buddyAllocator.c:60`, free pages under a block marked full are lost for ever;
- `threads.c:50`, the `_yield` after a thread ended saves its registers through an empty slot, where
  `Memory` stops; `threads.c:62`, two creations may pick the same slot;
- `malloc.c:60` and the `malloc` of `SHELL/stdio.c`, no check for a heap that is exhausted;
- `shell.c:269`, `man` gets a pointer into the line the shell reads next; `editor.c:18`, the word after
  `%` goes to a buffer of 30 bytes; `dummy.c:97`, producers share the item counter without a mutex.

Next: a module for the image of `ModulePacker` and `moduleLoader.c`, and the number conversions of the
user-side `stdio.c` checked against their definition.
