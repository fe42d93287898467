--------------------------- MODULE BuddyAllocator ---------------------------
(***************************************************************************)
(* Kernel/buddyAllocator.c: the page allocator every other part of the     *)
(* kernel takes its memory from, as operators on its array of marks.  A    *)
(* complete binary tree in the array marks each block EMPTY,               *)
(* PARTIALLY_FULL or BUDDY_FULL; node i has children 2i and 2i+1, the      *)
(* leaves are the pages.  Its clients are in module Memory.                *)
(***************************************************************************)
EXTENDS Integers, Sequences, FiniteSetsExt

CONSTANT HeapLevel  \* heapLevel: levels of the tree, 11 in the kernel

ASSUME BuddyAssumption == HeapLevel \in Nat \ {0}

EMPTY == 0
PARTIALLY_FULL == 1
BUDDY_FULL == 2

\* maxElementsInLevel of createHeap: how many blocks there are n levels below the root.
power[n \in 0 .. HeapLevel] == IF n = 0 THEN 1 ELSE 2 * power[n - 1]

NumberOfPages == power[HeapLevel - 1]
HEAPSIZE == 2 * NumberOfPages - 1
Nodes == 1 .. HEAPSIZE

LCHILD(i) == 2 * i
RCHILD(i) == 2 * i + 1
PARENT(i) == i \div 2
SIBLING(i) == IF i % 2 = 1 THEN i - 1 ELSE i + 1

\* The level of a node, the root being on level 1; level is the table of them.
Level[i \in Nodes] == IF i = 1 THEN 1 ELSE Level[PARENT(i)] + 1
level == [i \in Nodes |-> Level[i]]

\* createHeap, getBaseMemoryWithIndex: the first page of the block of a node, which
\* is the (i - 2^(level - 1))-th block of its level, and its pages.
base(i) == (i - power[level[i] - 1]) * power[HeapLevel - level[i]]
Pages(i) == base(i) .. base(i) + power[HeapLevel - level[i]] - 1

createHeap == [i \in Nodes |-> EMPTY]

\* getLevel: the level whose blocks hold that many pages.
getLevel(pages) ==
    LET halvings[rta \in 1 .. pages] == IF rta = 1 THEN 0 ELSE 1 + halvings[(rta + 1) \div 2]
    IN HeapLevel - halvings[pages]

\* The block of node i and the blocks it lies in; Path is the table of them.
Enclosing[i \in Nodes] == {i} \cup IF i = 1 THEN {} ELSE Enclosing[PARENT(i)]
Path == [i \in Nodes |-> Enclosing[i]]

\* Neither block lies in the other one.
Apart(i, j) == i \notin Path[j] /\ j \notin Path[i]

\* The search of allocPage gets to i only if no block above it is marked full.
Visible(occupied, i) == \A j \in Path[i] \ {i} : occupied[j] # BUDDY_FULL

\* Mutant of Search: a partly used block counts as free.
SearchPartial(occupied, lv) ==
    LET found == {i \in Nodes :
                    occupied[i] # BUDDY_FULL /\ level[i] = lv /\ Visible(occupied, i)}
    IN IF found = {} THEN 0 ELSE Min(found)

\* The node getNextPageRecursive finds on level lv, 0 for NULL: the leftmost one that
\* is empty and not inside a full block.
Search(occupied, lv) ==
    LET found == {i \in Nodes :
                    occupied[i] = EMPTY /\ level[i] = lv /\ Visible(occupied, i)}
    IN IF found = {} THEN 0 ELSE Min(found)

\* The search went right everywhere between i and node.
LastIn(i, node) == \A j \in Path[node] : j > i => j = RCHILD(PARENT(j))

\* The marks after getNextPageRecursive returned the block of node: the way back
\* from a left child marks PARTIALLY_FULL, from a right child that became full
\* BUDDY_FULL, whatever the left child is.
Marked(occupied, node) ==
    LET path == Path[node]
    IN [i \in Nodes |->
          CASE i \notin path                                           -> occupied[i]
            [] i \in path /\ LastIn(i, node)                           -> BUDDY_FULL
            [] i \in path /\ ~LastIn(i, node) /\ LCHILD(i) \in path    -> PARTIALLY_FULL
            [] OTHER                                                    -> occupied[i]]

\* Successive calls of allocPage for the numbers of pages in the sequence requests:
\* the nodes of the blocks, 0 for NULL, and the marks afterwards.
allocPage(occupied, requests) ==
    LET calls[k \in 0 .. Len(requests)] ==
          IF k = 0 THEN [marks |-> occupied, nodes |-> <<>>]
          ELSE LET before == calls[k - 1]
                   node == Search(before.marks, getLevel(requests[k]))
               IN [marks |-> IF node = 0 THEN before.marks ELSE Marked(before.marks, node),
                   nodes |-> Append(before.nodes, node)]
    IN calls[Len(requests)]

\* The three cases of freeUpRecursive: the marks of parent and sibling it tests for, in
\* this order, and the mark the parent gets.  No case looks at the child itself.
Cases == <<[parent |-> BUDDY_FULL, sibling |-> EMPTY, becomes |-> EMPTY],
           [parent |-> BUDDY_FULL, sibling |-> BUDDY_FULL, becomes |-> PARTIALLY_FULL],
           [parent |-> PARTIALLY_FULL, sibling |-> EMPTY, becomes |-> EMPTY]>>

\* Where a deallocPage is: in freeUpRecursive of a node, about to test the parent or the
\* sibling for one of the cases, or to store; freeUpRecursive of the root returns.
Places == [node : Nodes, case : 1 .. 3, step : {"parent", "sibling", "store"}]
At(node) == [node |-> node, case |-> 1, step |-> "parent"]
Returned == At(1)

\* What it does there with the marks occ, one load or store of a mark: the marks
\* afterwards, and the place.
Proceed(occ, place) ==
    LET parent == PARENT(place.node)
        case == Cases[place.case]
        next == IF place.case = 3 THEN At(parent)
                ELSE [node |-> place.node, case |-> place.case + 1, step |-> "parent"]
        go(step) == [node |-> place.node, case |-> place.case, step |-> step]
    IN CASE place.step = "parent" ->
              [marks |-> occ, place |-> IF occ[parent] = case.parent THEN go("sibling") ELSE next]
         [] place.step = "sibling" ->
              [marks |-> occ,
               place |-> IF occ[SIBLING(place.node)] = case.sibling THEN go("store") ELSE next]
         [] place.step = "store" ->
              [marks |-> [occ EXCEPT ![parent] = case.becomes], place |-> At(parent)]

\* deallocPage of an address in page marks only the leaf of that page EMPTY, whatever
\* block it is in; the rest is left to freeUpRecursive.
leafOf(page) == page + NumberOfPages

-----------------------------------------------------------------------------
(* The parts of the inductive invariant of module Memory that are about     *)
(* the tree.                                                                *)

\* Nothing in an empty block is marked.
MarksClosed(marks) ==
    \A i \in Nodes \ {1} : marks[PARENT(i)] = EMPTY => marks[i] = EMPTY
=============================================================================
