-------------------------- MODULE ProducerConsumer --------------------------
(***************************************************************************)
(* prodCons of Userland/dummy/dummy.c: producers and consumers around a    *)
(* ring of bufferSize characters, three semaphores, and control(), which   *)
(* creates and kills them from the keyboard.  Everything is preemptible,   *)
(* and a worker may be killed wherever it is: inside the ring, holding     *)
(* itemMutex, or queued in a semaphore.                                    *)
(***************************************************************************)
EXTENDS CountingSemaphore, Sequences, FiniteSets

CONSTANTS
    bufferSize,
    MAX_WORKERS,   \* MAX_PRODUCER, which equals MAX_CONSUMER
    Codes,         \* how many characters there are: item numbers wrap
    Leftover,      \* the values an earlier run may have left in the counters
    Workers        \* the pids createProcess returns; their number bounds its calls

ASSUME ProdConsAssumption ==
    /\ bufferSize \in Nat \ {0} /\ MAX_WORKERS \in Nat \ {0} /\ Codes \in Nat \ {0}
    /\ Leftover \subseteq 0 .. MAX_WORKERS
    /\ {0, 1, 2} \subseteq Semaphores
    /\ IsFiniteSet(Workers) /\ {1, 2} \subseteq Workers /\ Workers \subseteq Processes \ {0}

VARIABLES
    kind,      \* what createProcess was called with; "none": the pid is not in use
    alive,     \* the processes that were not killed
    step,      \* where a worker is in its loop
    item,      \* its local item
    i, r, w, buffer,
    workers,   \* producers and consumers
    pidOf,     \* producerPid and consumerPid
    end,       \* control() has seen a 'q'
    removed,   \* the calls of removeProcess that killAllProcesses has made
    content    \* history: the items inserted and not removed, oldest first

pcVars == <<kind, alive, step, item, i, r, w, buffer, workers, pidOf, end, removed, content>>

itemMutex == 0
fullCount == 1
emptyCount == 2

Kinds == {"producer", "consumer"}
Steps == {"produce", "number", "waitSlot", "waitItem", "access", "advance",
          "signalItem", "signalSlot"}
Chars == 0 .. Codes - 1
Ring == 0 .. bufferSize - 1

ProdConsTypeOK ==
    /\ kind \in [Workers -> Kinds \cup {"none"}]
    /\ alive \in SUBSET Workers
    /\ step \in [Workers -> Steps]
    /\ item \in [Workers -> Chars]
    /\ i \in Chars /\ r \in Ring /\ w \in Ring
    /\ buffer \in [Ring -> Chars]
    /\ workers \in [Kinds -> 0 .. MAX_WORKERS]
    /\ pidOf \in [Kinds -> [-1 .. MAX_WORKERS - 1 -> Workers \cup {0}]]
    /\ end \in BOOLEAN /\ removed \in Nat
    /\ content \in Seq(Chars)

First(k) == IF k = "producer" THEN "produce" ELSE "waitSlot"

\* prodCons: one producer and one consumer.  The counters are initialised data of
\* the module and keep what an earlier run left in them; all else is cleared.  A
\* counter left at zero puts the pid in front of its array, in cell -1.
prodCons ==
    \E p, c \in Workers :
        /\ p = 1 /\ c = 2
        /\ value = [s \in Semaphores |-> CASE s = itemMutex -> 1
                                           [] s = emptyCount -> bufferSize
                                           [] OTHER -> 0]
        /\ kind = [q \in Workers |-> CASE q = p -> "producer"
                                         [] q = c -> "consumer" [] OTHER -> "none"]
        /\ alive = {p, c}
        /\ step = [q \in Workers |-> IF q = c THEN First("consumer") ELSE First("producer")]
        /\ item = [q \in Workers |-> 0]
        /\ i = 0 /\ r = 0 /\ w = 0 /\ buffer = [x \in Ring |-> 0]
        /\ workers \in [Kinds -> Leftover]
        /\ pidOf = [k \in Kinds |-> [x \in -1 .. MAX_WORKERS - 1 |->
                      IF x # workers[k] - 1 THEN 0 ELSE IF k = "producer" THEN p ELSE c]]
        /\ end = FALSE /\ removed = 0
        /\ content = <<>>

-----------------------------------------------------------------------------
\* Worker p executes user code: it was not killed and is in no queue.
Runs(p) == p \in alive /\ \A s \in Semaphores : p \notin waiting[s]

\* p goes from one step of its loop to the next.
Goes(p, from, to) ==
    /\ Runs(p) /\ step[p] = from
    /\ step' = [step EXCEPT ![p] = to]
    /\ UNCHANGED <<kind, alive, workers, pidOf, end, removed>>

\* int item = i++ is a load of i and a store, with a tick in between perhaps.
produce(p) ==
    /\ Goes(p, "produce", "number")
    /\ item' = [item EXCEPT ![p] = i]
    /\ UNCHANGED <<csVars, i, r, w, buffer, content>>

number(p) ==
    /\ Goes(p, "number", "waitSlot")
    /\ i' = (item[p] + 1) % Codes
    /\ UNCHANGED <<csVars, item, r, w, buffer, content>>

\* Mutant of Takes: the consumer waits for a free slot as well.
TakesEmpty(p) == emptyCount

\* The semaphore a worker waits for, and the one it signals.
Takes(p) == IF kind[p] = "producer" THEN emptyCount ELSE fullCount
Gives(p) == IF kind[p] = "producer" THEN fullCount ELSE emptyCount

\* Mutant of semaphoreStep: itemMutex is taken before the slot.
semaphoreStepSwapped(p) ==
    /\ \/ Goes(p, "waitSlot", "waitItem") /\ Wait(itemMutex, p)
       \/ Goes(p, "waitItem", "access") /\ Wait(Takes(p), p)
       \/ Goes(p, "signalItem", "signalSlot") /\ Signal(itemMutex)
       \/ Goes(p, "signalSlot", First(kind[p])) /\ Signal(Gives(p))
    /\ UNCHANGED <<item, i, r, w, buffer, content>>

\* Mutant of semaphoreStep: the ring is not protected by itemMutex.
semaphoreStepUnlocked(p) ==
    /\ \/ Goes(p, "waitSlot", "waitItem") /\ Wait(Takes(p), p)
       \/ Goes(p, "waitItem", "access") /\ UNCHANGED csVars
       \/ Goes(p, "signalItem", "signalSlot") /\ UNCHANGED csVars
       \/ Goes(p, "signalSlot", First(kind[p])) /\ Signal(Gives(p))
    /\ UNCHANGED <<item, i, r, w, buffer, content>>

\* The four semaphore calls of producer and consumer.
semaphoreStep(p) ==
    /\ \/ Goes(p, "waitSlot", "waitItem") /\ Wait(Takes(p), p)
       \/ Goes(p, "waitItem", "access") /\ Wait(itemMutex, p)
       \/ Goes(p, "signalItem", "signalSlot") /\ Signal(itemMutex)
       \/ Goes(p, "signalSlot", First(kind[p])) /\ Signal(Gives(p))
    /\ UNCHANGED <<item, i, r, w, buffer, content>>

\* insertItem and removeItem: the access to the ring, then the index.
insertItem(p) ==
    \/ /\ kind[p] = "producer" /\ Goes(p, "access", "advance")
       /\ buffer' = [buffer EXCEPT ![w] = item[p]]
       /\ content' = Append(content, item[p])
       /\ UNCHANGED <<csVars, item, i, r, w>>
    \/ /\ kind[p] = "producer" /\ Goes(p, "advance", "signalItem")
       /\ w' = (w + 1) % bufferSize
       /\ UNCHANGED <<csVars, item, i, r, buffer, content>>

removeItem(p) ==
    \/ /\ kind[p] = "consumer" /\ Goes(p, "access", "advance")
       /\ item' = [item EXCEPT ![p] = buffer[r]]
       /\ content' = IF content = <<>> THEN <<>> ELSE Tail(content)
       /\ UNCHANGED <<csVars, i, r, w, buffer>>
    \/ /\ kind[p] = "consumer" /\ Goes(p, "advance", "signalItem")
       /\ r' = (r + 1) % bufferSize
       /\ UNCHANGED <<csVars, item, i, w, buffer, content>>

Work(p) == produce(p) \/ number(p) \/ semaphoreStep(p) \/ insertItem(p) \/ removeItem(p)

-----------------------------------------------------------------------------
\* removeProcess: a dead worker keeps its place in a queue, and its tokens; a pid that
\* is not in use does nothing.
removeProcess(p) ==
    /\ alive' = alive \ {p}
    /\ step' = [q \in Workers |-> IF q = p THEN "produce" ELSE step[q]]
    /\ item' = [q \in Workers |-> IF q = p THEN 0 ELSE item[q]]

\* control, keys 'p' and 'c': one more worker, in a pid that was never used.
addWorker(k) ==
    /\ ~end /\ workers[k] + 1 =< MAX_WORKERS
    /\ \E p \in Workers :
         /\ kind[p] = "none" /\ \A q \in Workers : q < p => kind[q] # "none"
         /\ kind' = [kind EXCEPT ![p] = k]
         /\ alive' = alive \cup {p}
         /\ step' = [step EXCEPT ![p] = First(k)]
         /\ pidOf' = [pidOf EXCEPT ![k][workers[k]] = p]
    /\ workers' = [workers EXCEPT ![k] = @ + 1]
    /\ UNCHANGED <<csVars, item, i, r, w, buffer, end, removed, content>>

\* Mutant of removeWorker: it is the first one that is killed.
removeWorkerFirst(k) ==
    /\ ~end /\ workers[k] - 1 >= 0
    /\ removeProcess(pidOf[k][0])
    /\ workers' = [workers EXCEPT ![k] = @ - 1]
    /\ UNCHANGED <<csVars, kind, i, r, w, buffer, pidOf, end, removed, content>>

\* Keys 'z' and 'x': the last one is killed.
removeWorker(k) ==
    /\ ~end /\ workers[k] - 1 >= 0
    /\ removeProcess(pidOf[k][workers[k] - 1])
    /\ workers' = [workers EXCEPT ![k] = @ - 1]
    /\ UNCHANGED <<csVars, kind, i, r, w, buffer, pidOf, end, removed, content>>

\* Key 'q': killAllProcesses is called and its loops start.  The counters stay.
quit ==
    /\ ~end /\ end' = TRUE /\ removed' = 0
    /\ UNCHANGED <<csVars, kind, alive, step, item, i, r, w, buffer, workers, pidOf, content>>

\* The n-th pid it comes to: first the producers, then the consumers.
NthPid(n) ==
    IF n < workers["producer"] THEN pidOf["producer"][n]
    ELSE pidOf["consumer"][n - workers["producer"]]

\* One removeProcess of its loops; in between the workers run.  Then prodCons returns.
killAllProcesses ==
    /\ end /\ removed < workers["producer"] + workers["consumer"]
    /\ removeProcess(NthPid(removed))
    /\ removed' = removed + 1
    /\ UNCHANGED <<csVars, kind, i, r, w, buffer, workers, pidOf, end, content>>

control == quit \/ killAllProcesses \/ \E k \in Kinds : addWorker(k) \/ removeWorker(k)

ProdConsNext == control \/ \E p \in Workers : Work(p)

-----------------------------------------------------------------------------
Killed == \E p \in Workers : kind[p] # "none" /\ p \notin alive

\* The workers between wait(itemMutex) and signal(itemMutex).
Inside == {p \in Workers : Runs(p) /\ step[p] \in {"access", "advance", "signalItem"}}

\* The ring is a queue: it never holds more than bufferSize items, and between
\* r and w lie exactly the items inserted and not removed, in order, wherever
\* workers were killed.  (One killed between the access and the index leaves
\* itemMutex taken, and nobody enters again.)
RingIsQueue ==
    /\ CSTypeOK /\ ProdConsTypeOK
    /\ Cardinality(Inside) =< 1
    /\ Len(content) =< bufferSize
    /\ value[itemMutex] = 1 =>
         /\ w = (r + Len(content)) % bufferSize
         /\ \A k \in 1 .. Len(content) : buffer[(r + k - 1) % bufferSize] = content[k]

\* A consumer gets the oldest item and never reads a slot nothing was put into.
RemovesOldest ==
    [][\A p \in Workers :
         removeItem(p) /\ step'[p] = "advance" =>
            content # <<>> /\ item'[p] = Head(content)]_<<csVars, pcVars>>

\* killAllProcesses has passed index x of the pids of the workers of kind k.
Passed(k, x) == end /\ (IF k = "producer" THEN x ELSE workers["producer"] + x) < removed

\* control knows its workers: after any sequence of keys, whoever runs as a
\* producer or consumer is in the part of its array the counter covers, and after
\* 'q' in the part killAllProcesses has not passed, so that it leaves nobody behind;
\* except for one started while an earlier run of the program had left the counter
\* at zero, whose pid is in front of the array.
WorkersTracked ==
    \A p \in alive :
        \/ p = pidOf[kind[p]][-1]
        \/ \E x \in 0 .. workers[kind[p]] - 1 : p = pidOf[kind[p]][x] /\ ~Passed(kind[p], x)

\* As long as nobody is killed items keep being consumed: the order of the waits
\* in producer and consumer cannot lock them out.
KeepsConsuming ==
    []~(Killed \/ end) => []<>(\E p \in alive : kind[p] = "consumer" /\ step[p] = "advance")

-----------------------------------------------------------------------------
(* The parts of the inductive invariant behind the properties above.        *)

\* Who is alive was created, a dead worker is nowhere in its loop, and who is queued
\* is where its step says, unless it is dead.
QueuedByStep ==
    /\ \A p \in Workers : kind[p] = "none" => p \notin alive
    /\ \A p \in Workers : p \notin alive => step[p] = "produce"
    /\ \A s \in Semaphores : \A p \in waiting[s] :
          /\ p \in Workers /\ kind[p] # "none"
          /\ p \in alive =>
                \/ s = itemMutex /\ step[p] = "access"
                \/ s = Takes(p) /\ step[p] = "waitItem"

\* itemMutex has one holder at most, and none when it is free.
OneInside ==
    /\ value[itemMutex] \in {0, 1}
    /\ \A p, q \in Inside : p = q
    /\ value[itemMutex] = 1 => Inside = {}
    /\ waiting[itemMutex] # {} => value[itemMutex] = 0

\* The workers of kind k that took a slot or an item and have not accessed the ring
\* yet, and those that accessed it and have not signalled it yet.
Before(k) ==
    {p \in Workers : /\ kind[p] = k
                     /\ \/ step[p] = "access"
                        \/ step[p] = "waitItem" /\ p \notin waiting[Takes(p)]}
After(k) == {p \in Workers : kind[p] = k /\ step[p] \in {"advance", "signalItem", "signalSlot"}}

\* Free slots and items are promised once; a worker that is killed takes its promise along.
TokensBounded ==
    /\ value[emptyCount] + Cardinality(Before("producer")) + Cardinality(After("consumer"))
          + Len(content) =< bufferSize
    /\ value[fullCount] + Cardinality(Before("consumer")) + Cardinality(After("producer"))
          =< Len(content)

\* From the index x to the index y lie the items of c, in order.
RingAt(x, y, b, c) ==
    /\ y = (x + Len(c)) % bufferSize
    /\ \A k \in 1 .. Len(c) : b[(x + k - 1) % bufferSize] = c[k]

Advancing(k) == \E p \in Inside : kind[p] = k /\ step[p] = "advance"

\* The ring is as the indexes say, or will be when the worker inside has moved its one.
RingOrdered ==
    value[itemMutex] = 1 \/ Inside # {} =>
        RingAt(IF Advancing("consumer") THEN (r + 1) % bufferSize ELSE r,
               IF Advancing("producer") THEN (w + 1) % bufferSize ELSE w, buffer, content)

ProdConsInv ==
    /\ CSTypeOK /\ ProdConsTypeOK /\ \A s \in Semaphores : open[s]
    /\ QueuedByStep /\ OneInside /\ TokensBounded /\ RingOrdered /\ WorkersTracked
=============================================================================
