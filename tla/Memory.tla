------------------------------- MODULE Memory -------------------------------
(***************************************************************************)
(* Who uses the pages of the buddy allocator: Kernel/process.c (the        *)
(* Process structures), scheduler.c (the slots of the ring, the list of    *)
(* ps), threads.c (the Thread structures and their stacks) and malloc.c    *)
(* (the heap of a process).  Nothing is given back but the pages of a      *)
(* thread that ends, when it is not the first of its process.              *)
(*                                                                         *)
(* System calls run with interrupts off.  A thread whose function returned *)
(* runs terminateThread in user mode, where the timer may preempt it after *)
(* every load and store.  After it took itself out of the table,           *)
(* activeThread names an empty slot, and whoever reads the stack through   *)
(* it reads address 0.  A page that is given back keeps its content until  *)
(* allocPage hands it out; handed out while somebody uses it, it gets two  *)
(* writers.  In both cases what the machine does next is unknown, and the  *)
(* model stops (stray).  It also stops short of the last page: NULL is     *)
(* never checked for.                                                      *)
(***************************************************************************)
EXTENDS BuddyAllocator, FiniteSets

CONSTANTS
    Pids, InitPid, ShellPid,
    PAGE_SIZE, BLOCK_STRUCT_SIZE,
    MAX_THREADS,   \* the length of Process.thread
    Spots,         \* how many of them findNextSpot looks at: 3
    Sizes,         \* the arguments of malloc
    MaxCalls,      \* bound on the calls of malloc, createThread and ps
    MaxEnded       \* bound on the threads that end

ASSUME MemoryAssumption ==
    /\ InitPid \in Pids /\ ShellPid \in Pids \ {InitPid}
    /\ MAX_THREADS \in Nat \ {0} /\ Spots \in 1 .. MAX_THREADS
    /\ PAGE_SIZE \in Nat \ {0} /\ BLOCK_STRUCT_SIZE \in Nat
    /\ PAGE_SIZE % 4 = 0 /\ BLOCK_STRUCT_SIZE % 4 = 0
    /\ Sizes \subseteq Nat \ {0}
    /\ MaxCalls \in Nat /\ MaxEnded \in Nat

VARIABLES
    occupied,  \* buddyArray.occupied
    state,     \* UNBORN, ALIVE or REMOVED
    slot,      \* the nodes of the Process and the ProcessSlot of a process
    thread,    \* Process.thread; a thread has three blocks and counts its deallocPage
    freeing,   \* where the thread in a slot is in its last deallocPage
    leaving,   \* the current thread took itself out of the table, not out of the count
    number,    \* Process.numberOfThreads
    active,    \* Process.activeThread
    heap,      \* Process.heap: the chain of blocks
    extents,   \* history: the nodes extendHeap got for the process
    current,
    passed,    \* history: the timer's dispatches of p since its thread i had one
    calls,     \* how many calls of malloc, createThread and ps there were
    ended,     \* history: how many threads began to give their pages back
    stray      \* the stack pointer was loaded through an empty slot, or a page in use was
               \* handed out

vars == <<occupied, state, slot, thread, freeing, leaving, number, active, heap, extents,
          current, passed, calls, ended, stray>>

Indices == 0 .. MAX_THREADS - 1
NULL == [t |-> 0, page1 |-> 0, page2 |-> 0, end |-> 0]
Existing(p) == {i \in Indices : thread[p][i] # NULL}

MemTypeOK ==
    /\ occupied \in [Nodes -> {EMPTY, PARTIALLY_FULL, BUDDY_FULL}]
    /\ state \in [Pids -> {"UNBORN", "ALIVE", "REMOVED"}]
    /\ slot \in [Pids -> Seq(Nodes)]
    /\ thread \in [Pids -> [Indices -> [t : Nodes, page1 : Nodes, page2 : Nodes, end : 0 .. 3]
                                         \cup {NULL}]]
    /\ freeing \in [Pids -> [Indices -> Places]] /\ leaving \in BOOLEAN
    /\ number \in [Pids -> Nat] /\ active \in [Pids -> Indices]
    /\ extents \in [Pids -> Seq(Nodes)] /\ current \in Pids

\* The thread the blocks nodes belong to: Thread, user stack, kernel stack.
Thread(nodes) == [t |-> nodes[1], page1 |-> nodes[2], page2 |-> nodes[3], end |-> 0]

\* getProcess and newProcessSlot: pages for the Process, for the Thread and its two
\* stacks, and for the ProcessSlot.
ProcessPages == <<1, 1, 2, 2, 1>>

\* No allocPage returned NULL.
Granted(r) == \A k \in DOMAIN r.nodes : r.nodes[k] # 0

\* What main() asks for; the pages suffice for it.
BootPages == ProcessPages \o ProcessPages
ASSUME BootAssumption == Granted(allocPage(createHeap, BootPages))

\* main(): init and the shell.
MemInit ==
    LET r == allocPage(createHeap, BootPages)
        first(p) == IF p = InitPid THEN 0 ELSE 5
        born == {InitPid, ShellPid}
    IN /\ occupied = r.marks
       /\ state = [p \in Pids |-> IF p \in born THEN "ALIVE" ELSE "UNBORN"]
       /\ slot = [p \in Pids |-> IF p \in born THEN <<r.nodes[first(p) + 1], r.nodes[first(p) + 5]>>
                                 ELSE <<>>]
       /\ thread = [p \in Pids |-> [i \in Indices |->
                       IF p \in born /\ i = 0
                       THEN Thread(SubSeq(r.nodes, first(p) + 2, first(p) + 4))
                       ELSE NULL]]
       /\ freeing = [p \in Pids |-> [i \in Indices |-> Returned]] /\ leaving = FALSE
       /\ number = [p \in Pids |-> IF p \in born THEN 1 ELSE 0]
       /\ active = [p \in Pids |-> 0]
       /\ heap = [p \in Pids |-> <<>>] /\ extents = [p \in Pids |-> <<>>]
       /\ passed = [p \in Pids |-> [i \in Indices |-> 0]]
       /\ current = InitPid /\ calls = 0 /\ ended = 0 /\ stray = FALSE

\* The current thread executes user code; init makes no calls.
Calling ==
    /\ ~stray /\ current # InitPid /\ state[current] = "ALIVE"
    /\ thread[current][active[current]] # NULL
    /\ thread[current][active[current]].end = 0

\* It makes one of the calls that are counted.
Asks == Calling /\ calls < MaxCalls /\ calls' = calls + 1

Living == {p \in Pids : state[p] = "ALIVE"}

\* The blocks a process has; a thread that gives its pages back still runs in its own.
Blocks(p) ==
    {slot[p][k] : k \in DOMAIN slot[p]} \cup {extents[p][k] : k \in DOMAIN extents[p]}
      \cup {thread[p][i][f] : f \in {"t", "page1", "page2"}, i \in Existing(p)}

\* allocPage returned pages in use, or the same page twice: its user writes to them.
HandedOutTwice(nodes) ==
    LET inUse == UNION {Blocks(p) : p \in Living \cup {current}}
    IN \E k \in DOMAIN nodes :
         \/ \E i \in inUse : ~Apart(nodes[k], i)
         \/ \E j \in 1 .. k - 1 : ~Apart(nodes[k], nodes[j])

\* A system call that allocates the pages requests: what allocPage did.
Allocates(r) == Granted(r) /\ occupied' = r.marks /\ stray' = HandedOutTwice(r.nodes)

-----------------------------------------------------------------------------
createProcess(p) ==
    /\ Calling /\ state[p] = "UNBORN"
    /\ LET r == allocPage(occupied, ProcessPages)
       IN /\ Allocates(r)
          /\ slot' = [slot EXCEPT ![p] = <<r.nodes[1], r.nodes[5]>>]
          /\ thread' = [thread EXCEPT ![p][0] = Thread(SubSeq(r.nodes, 2, 4))]
    /\ state' = [state EXCEPT ![p] = "ALIVE"]
    /\ number' = [number EXCEPT ![p] = 1]
    /\ UNCHANGED <<freeing, leaving, active, heap, extents, current, passed, calls, ended>>

\* removeProcess by kill or the end of the first thread: no page comes back.
removeProcess(p) ==
    /\ Calling /\ p # InitPid /\ state[p] = "ALIVE"
    /\ state' = [state EXCEPT ![p] = "REMOVED"]
    /\ UNCHANGED <<occupied, slot, thread, freeing, leaving, number, active, heap, extents, current,
                   passed, calls, ended, stray>>

\* getCurrentProcesses: the page of the list is never given back.
getCurrentProcesses ==
    /\ Asks
    /\ Allocates(allocPage(occupied, <<1>>))
    /\ UNCHANGED <<state, slot, thread, freeing, leaving, number, active, heap, extents, current,
                   passed, ended>>

\* findNextSpot
FreeSpots(p) == (0 .. Spots - 1) \ Existing(p)

\* Mutant of createThread: the thread is counted before a spot is found.
createThreadCounted ==
    /\ Asks
    /\ LET r == allocPage(occupied, <<1, 2, 2>>)
       IN /\ Allocates(r)
          /\ number' = [number EXCEPT ![current] = @ + 1]
          /\ IF FreeSpots(current) = {}
             THEN UNCHANGED thread
             ELSE /\ thread' = [thread EXCEPT ![current][Min(FreeSpots(current))] = Thread(r.nodes)]
    /\ UNCHANGED <<state, slot, freeing, leaving, active, heap, extents, current, passed, ended>>

\* createThread: the pages are allocated first, and lost if no spot is free.
createThread ==
    /\ Asks
    /\ LET r == allocPage(occupied, <<1, 2, 2>>)
       IN /\ Allocates(r)
          /\ IF FreeSpots(current) = {}
             THEN UNCHANGED <<thread, number>>
             ELSE /\ thread' = [thread EXCEPT ![current][Min(FreeSpots(current))] = Thread(r.nodes)]
                  /\ number' = [number EXCEPT ![current] = @ + 1]
    /\ UNCHANGED <<state, slot, freeing, leaving, active, heap, extents, current, passed, ended>>

-----------------------------------------------------------------------------
align4(x) == ((x - 1) \div 4) * 4 + 4

NUMBER_OF_PAGES_TO_ALLOC(size) == (size + PAGE_SIZE - 1) \div PAGE_SIZE

\* extendHeap(size): the block at the end of the chain, in the pages of node.
extension(size, node) ==
    [at |-> base(node) * PAGE_SIZE,
     size |-> NUMBER_OF_PAGES_TO_ALLOC(size + BLOCK_STRUCT_SIZE) * PAGE_SIZE - BLOCK_STRUCT_SIZE,
     free |-> TRUE, asked |-> 0]

\* findFirstFreeBlock: the first free block larger than s, 0 for NULL.
findFirstFreeBlock(blocks, s) ==
    LET fit == {k \in DOMAIN blocks : blocks[k].free /\ blocks[k].size > s}
    IN IF fit = {} THEN 0 ELSE Min(fit)

\* Mutant of split_block: the header of the new block is not paid for.
split_blockNoHeader(blocks, k, s) ==
    SubSeq(blocks, 1, k - 1)
      \o <<[blocks[k] EXCEPT !.size = s],
           [at |-> blocks[k].at + BLOCK_STRUCT_SIZE + s, size |-> blocks[k].size - s,
            free |-> TRUE, asked |-> 0]>>
      \o SubSeq(blocks, k + 1, Len(blocks))

\* split_block: the first s bytes of block k, and a free block with the rest.
split_block(blocks, k, s) ==
    SubSeq(blocks, 1, k - 1)
      \o <<[blocks[k] EXCEPT !.size = s],
           [at |-> blocks[k].at + BLOCK_STRUCT_SIZE + s,
            size |-> blocks[k].size - (s + BLOCK_STRUCT_SIZE), free |-> TRUE, asked |-> 0]>>
      \o SubSeq(blocks, k + 1, Len(blocks))

\* The chain after block k was given to a malloc(size).
taken(blocks, k, size) ==
    LET s == align4(size)
        parts == IF blocks[k].size > s + 4 + BLOCK_STRUCT_SIZE THEN split_block(blocks, k, s)
                 ELSE blocks
    IN [parts EXCEPT ![k].free = FALSE, ![k].asked = size]

\* How many times mallock extends the heap: when there is none yet, and when no free
\* block is larger than the request, which a new one need not be either.
Extensions(size, node) ==
    LET first == IF heap[current] = <<>> THEN 1 ELSE 0
        blocks == IF first = 1 THEN <<extension(size, node)>> ELSE heap[current]
    IN first + (IF findFirstFreeBlock(blocks, align4(size)) = 0 THEN 1 ELSE 0)

mallock(size) ==
    /\ Asks
    /\ LET times == Extensions(size, 1)
           pages == NUMBER_OF_PAGES_TO_ALLOC(size + BLOCK_STRUCT_SIZE)
           r == allocPage(occupied, [k \in 1 .. times |-> pages])
           chain == heap[current] \o [k \in 1 .. times |-> extension(size, r.nodes[k])]
           found == findFirstFreeBlock(chain, align4(size))
           blocks == taken(chain, IF found = 0 THEN Len(chain) ELSE found, size)
       IN /\ Allocates(r)
          /\ heap' = [heap EXCEPT ![current] = blocks]
          /\ extents' = [extents EXCEPT ![current] = @ \o r.nodes]
    /\ UNCHANGED <<state, slot, thread, freeing, leaving, number, active, current, passed, ended>>

-----------------------------------------------------------------------------
\* The thread that runs is in terminateThread, with its slot still in the table and
\* step deallocPage behind it, and is not the first of its process.
Ending(step) ==
    /\ ~stray /\ state[current] = "ALIVE" /\ active[current] # 0
    /\ thread[current][active[current]] # NULL
    /\ thread[current][active[current]].end = step
    /\ freeing[current][active[current]].node = 1

\* deallocPage of page, called by freeThreadPages, up to its freeUpRecursive.
deallocPage(step, page) ==
    /\ page < NumberOfPages
    /\ occupied' = [occupied EXCEPT ![leafOf(page)] = EMPTY]
    /\ thread' = [thread EXCEPT ![current][active[current]].end = step + 1]
    /\ freeing' = [freeing EXCEPT ![current][active[current]] = At(leafOf(page))]
    /\ ended' = IF step = 0 THEN ended + 1 ELSE ended
    /\ UNCHANGED <<state, slot, leaving, number, active, heap, extents, current, passed, calls,
                   stray>>

\* The page the stack pointer was in when the thread was last preempted.
freeUserStack ==
    /\ Ending(0) /\ ended < MaxEnded
    /\ \E page \in Pages(thread[current][active[current]].page1) : deallocPage(0, page)

\* kernelStack points behind its block.
freeKernelStack ==
    Ending(1) /\ deallocPage(1, base(thread[current][active[current]].page2) + 2)

freeThread == Ending(2) /\ deallocPage(2, base(thread[current][active[current]].t))

\* One load or store of freeUpRecursive.
freeUpRecursive ==
    /\ ~stray /\ state[current] = "ALIVE"
    /\ freeing[current][active[current]].node # 1
    /\ LET done == Proceed(occupied, freeing[current][active[current]])
       IN /\ occupied' = done.marks
          /\ freeing' = [freeing EXCEPT ![current][active[current]] = done.place]
    /\ UNCHANGED <<state, slot, thread, leaving, number, active, heap, extents, current, passed,
                   calls, ended, stray>>

\* The slot is emptied, and the thread goes on without one.
terminateThread ==
    /\ Ending(3)
    /\ thread' = [thread EXCEPT ![current][active[current]] = NULL]
    /\ leaving' = TRUE
    /\ UNCHANGED <<occupied, state, slot, freeing, number, active, heap, extents, current, passed,
                   calls, ended, stray>>

\* The end of terminateThread; callProcess gets to its _yield.
uncountThread ==
    /\ ~stray /\ leaving
    /\ number' = [number EXCEPT ![current] = @ - 1]
    /\ leaving' = FALSE
    /\ UNCHANGED <<occupied, state, slot, thread, freeing, active, heap, extents, current, passed,
                   calls, ended, stray>>

\* Mutant of nextThread: the search starts at the first slot.
nextThreadFirst(p) == Min(Existing(p))

\* nextThread: the next slot in use, around the table.
nextThread(p) ==
    (active[p] + Min({i \in 1 .. MAX_THREADS : (active[p] + i) % MAX_THREADS \in Existing(p)}))
        % MAX_THREADS

\* The timer interrupt: switchUserToKernel takes the kernel stack of the thread that
\* ran, switchKernelToUser dispatches p and the next of its threads.
timerTick(p) ==
    /\ ~stray /\ state[p] = "ALIVE"
    /\ IF thread[current][active[current]] = NULL
       THEN stray' = TRUE /\ UNCHANGED <<active, current, passed>>
       ELSE /\ current' = p
            /\ active' = [active EXCEPT ![p] = nextThread(p)]
            /\ passed' = [passed EXCEPT ![p] = [i \in Indices |->
                             IF i \in Existing(p) \ {nextThread(p)} THEN @[i] + 1 ELSE 0]]
            /\ UNCHANGED stray
    /\ UNCHANGED <<occupied, state, slot, thread, freeing, leaving, number, heap, extents, calls,
                   ended>>

\* A _yield, in next_process: p is dispatched with the thread it had.  A call yields, or
\* callProcess when its thread is out of the table or its process is removed.
yield(p) ==
    /\ ~stray /\ state[p] = "ALIVE" /\ current # InitPid /\ ~leaving
    /\ state[current] = "ALIVE" => thread[current][active[current]].end = 0
    /\ current' = p
    /\ stray' = (thread[p][active[p]] = NULL)
    /\ UNCHANGED <<occupied, state, slot, thread, freeing, leaving, number, active, heap, extents,
                   passed, calls, ended>>

MemNext ==
    \/ \E p \in Pids : createProcess(p) \/ removeProcess(p) \/ timerTick(p) \/ yield(p)
    \/ getCurrentProcesses \/ createThread
    \/ \E size \in Sizes : mallock(size)
    \/ freeUserStack \/ freeKernelStack \/ freeThread \/ freeUpRecursive
    \/ terminateThread \/ uncountThread

MemSpec == MemInit /\ [][MemNext]_vars

-----------------------------------------------------------------------------
\* What a process uses blocks for: structures, stacks and heap, without those of a
\* thread that gives its pages back.
Uses(p) ==
    {[by |-> p, for |-> "slot", nth |-> k, node |-> slot[p][k]] : k \in DOMAIN slot[p]}
      \cup {[by |-> p, for |-> f, nth |-> i, node |-> thread[p][i][f]] :
               f \in {"t", "page1", "page2"}, i \in {k \in Existing(p) : thread[p][k].end = 0}}
      \cup {[by |-> p, for |-> "heap", nth |-> k, node |-> extents[p][k]] : k \in DOMAIN extents[p]}

\* No page is used for two things: whatever is allocated in whatever order, the
\* structures, stacks and heaps of the living processes are disjoint, and none
\* lacks a block of its own; until the first thread gives back pages it shares a
\* block with, or that are another's.
NoSharing ==
    ended > 0 \/
    \A p, q \in Living : \A u \in Uses(p), v \in Uses(q) :
        u # v => Pages(u.node) \cap Pages(v.node) = {}

\* "occupied is 0 if it's empty": nothing in a block that the search of allocPage
\* finds EMPTY is in use.
EmptyIsEmpty ==
    \A i \in Nodes : occupied[i] = EMPTY /\ Visible(occupied, i) =>
        \A p \in Living : \A u \in Uses(p) : Pages(i) \cap Pages(u.node) = {}

\* The first byte of the pages of node, and the first one behind a block of a heap.
StartOf(node) == base(node) * PAGE_SIZE
EndOf(b) == b.at + BLOCK_STRUCT_SIZE + b.size

\* own tells which extent every block of chain lies in: a block ends where the next one
\* begins, or the next one begins another extent.
Tiling(own, chain, nodes) ==
    \A k \in DOMAIN chain :
        LET b == chain[k]
            node == nodes[own[k]]
        IN /\ b.asked =< b.size /\ b.size > 0
           /\ StartOf(node) =< b.at
           /\ EndOf(b) =< StartOf(node) + Cardinality(Pages(node)) * PAGE_SIZE
           /\ k < Len(chain) =>
                \/ own[k + 1] = own[k] /\ chain[k + 1].at = EndOf(b)
                \/ own[k + 1] > own[k] /\ chain[k + 1].at = StartOf(nodes[own[k + 1]])

\* The chain of the heap of p tiles its extents.
ChainTiled(p) ==
    \E own \in [DOMAIN heap[p] -> DOMAIN extents[p]] : Tiling(own, heap[p], extents[p])

\* The heap of a living process is tiled by its blocks: they follow each other from extent
\* to extent, none twice, and hold what was asked of them, through splits and extensions;
\* until a page that thread ends gave back is handed out while it is in use, which may
\* overwrite a header.
HeapTiled == stray \/ \A p \in Living : ChainTiled(p)

\* How many threads numberOfThreads counts that are not in the table: the one that is
\* just leaving it.
Uncounted(p) == IF leaving /\ p = current THEN 1 ELSE 0

\* numberOfThreads, which ps and freeProcessPages go by, is the number of threads in the
\* table, and the first thread stays as long as its process.  Only the thread that ends
\* can find the two apart, between the two statements that take it out of both: nobody
\* else runs before it is through, or the stack is lost.
ThreadsCounted ==
    /\ MemTypeOK
    /\ \A p \in Living :
         number[p] = Cardinality(Existing(p)) + Uncounted(p) /\ 0 \in Existing(p)
    /\ leaving => thread[current][active[current]] = NULL

\* Every thread gets its turn: the timer does not dispatch a process MAX_THREADS
\* times without one of its threads, however threads come and go.  A _yield of
\* another process dispatches the same thread again, and no turn is counted.
TurnsComeRound ==
    \A p \in Living : \A i \in Existing(p) : passed[p][i] < MAX_THREADS

-----------------------------------------------------------------------------
(* The parts of the inductive invariant behind NoSharing, ThreadsCounted    *)
(* and TurnsComeRound.                                                      *)

\* A process that was not created has nothing.
UnbornBlank ==
    \A p \in Pids : state[p] = "UNBORN" =>
        /\ slot[p] = <<>> /\ extents[p] = <<>> /\ active[p] = 0
        /\ \A i \in Indices : thread[p][i] = NULL /\ passed[p][i] = 0

\* ThreadsCounted, of the removed processes as well.
AllCounted ==
    \A p \in Pids : state[p] # "UNBORN" =>
        number[p] = Cardinality(Existing(p)) + Uncounted(p) /\ 0 \in Existing(p)

\* The thread that leaves is out of the table, and its process alive.
LeaverOut ==
    leaving => state[current] = "ALIVE" /\ thread[current][active[current]] = NULL

\* A slot without a thread, or with one that has not begun to end, has no deallocPage
\* under way.
OnlyEndersFree ==
    \A p \in Pids : \A i \in Indices :
        freeing[p][i].node # 1 => thread[p][i] # NULL /\ thread[p][i].end > 0

\* How many dispatches there are until the turn of thread i, at most.
Distance(p, i) == IF i > active[p] THEN i - active[p] ELSE i - active[p] + MAX_THREADS

TurnsNear ==
    /\ passed \in [Pids -> [Indices -> Nat]]
    /\ \A p \in Pids : passed[p][active[p]] = 0
    /\ \A p \in Pids : \A i \in Indices :
          IF i \in Existing(p) THEN passed[p][i] + Distance(p, i) =< MAX_THREADS
                              ELSE passed[p][i] = 0

\* In the marks, every block of uses is full, below blocks that are not empty, and no
\* two of them overlap.
UsesApart(uses, marks) ==
    /\ MarksClosed(marks)
    /\ \A u \in uses : u.node \in Nodes /\ marks[u.node] = BUDDY_FULL
    /\ \A u, v \in uses : u # v => Apart(u.node, v.node)

\* So it is for all processes, the removed ones included, and no thread has ended.
BlocksApart ==
    /\ \A p \in Pids : \A i \in Existing(p) : thread[p][i].end = 0
    /\ UsesApart(UNION {Uses(p) : p \in Pids}, occupied)

\* The invariant behind HeapTiled.
HeapInv ==
    /\ heap \in [Pids -> Seq([at : Nat, size : Nat, free : BOOLEAN, asked : Nat])]
    /\ stray \/ \A p \in Pids : ChainTiled(p)

MemInv ==
    /\ MemTypeOK /\ ended \in Nat
    /\ UnbornBlank /\ AllCounted /\ LeaverOut /\ OnlyEndersFree /\ TurnsNear
    /\ ended = 0 => BlocksApart
=============================================================================
