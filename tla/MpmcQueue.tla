------------------------------ MODULE MpmcQueue ------------------------------
(***************************************************************************)
(* The bounded queue of src/utils/mpmc_queue.c, one action per access to   *)
(* shared memory (each g_atomic_int_get, compare_and_exchange,             *)
(* g_atomic_int_set and each access to cell->data).                        *)
(*                                                                         *)
(* Positions are natural numbers here; they are gint and guint in C.       *)
(* MaxPos < 2^31 - 1 bounds how many pushes a behaviour makes, so nothing      *)
(* wraps; MpmcWrap models what happens beyond it.                          *)
(***************************************************************************)
EXTENDS QueueSlots

CONSTANTS Threads, Values, InitialSize, Sizes,
          MaxPos    \* bound: no push is called at enqueue_pos = MaxPos

ASSUME ValuesAssumption == Values # {}

ASSUME ThreadsAssumption == "nobody" \notin Threads

ASSUME SizesAssumption ==
    /\ InitialSize \in 1 .. MaxCells
    /\ Sizes \subseteq 1 .. MaxCells

ASSUME PositionAssumption ==
    /\ MaxPos \in Nat
    /\ MaxPos < 2147483647

VARIABLES cap,          \* buffer_mask + 1
          sequence,     \* sequence[c]: cell c's sequence number
          data,         \* data[c]: cell c's payload
          enqueue_pos, dequeue_pos,
          pc,           \* where each thread is in the queue's code
          pos,          \* pos[t]: the local variable
          arg,          \* arg[t]: the parameter of push_back
          result        \* what the last call returned; "none" once the next begins

vars == <<cap, sequence, data, enqueue_pos, dequeue_pos, pc, pos, arg, result>>

PushPcs == {"push_seq", "push_cas", "push_reload", "push_data", "push_publish"}
DequeuePcs == {"deq_seq", "deq_cas", "deq_reload", "deq_data", "deq_release"}

\* pos & buffer_mask, for a power-of-two number of cells.
CellOf(p) == p % cap

Results == Values \cup {"none", "pushed", "full", "empty"}

\* Stands where no value has been stored: a fresh cell, an unused parameter.
NoValue == CHOOSE v \in Values : TRUE

\* mpmc_queue_new, with the reserve the graph does before its threads run.
Init ==
    /\ cap = PowerOfTwoSize(InitialSize)
    /\ sequence = [c \in 0 .. (cap - 1) |-> c]
    /\ data = [c \in 0 .. (cap - 1) |-> NoValue]
    /\ enqueue_pos = 0 /\ dequeue_pos = 0
    /\ pc = [t \in Threads |-> "idle"]
    /\ pos = [t \in Threads |-> 0]
    /\ arg = [t \in Threads |-> NoValue]
    /\ result = [t \in Threads |-> "none"]

Goto(t, l) == pc' = [pc EXCEPT ![t] = l]

\* A call ends: its local variables are gone.
Leave(t) ==
    /\ Goto(t, "idle")
    /\ pos' = [pos EXCEPT ![t] = 0]
    /\ arg' = [arg EXCEPT ![t] = NoValue]

Return(t, r) == Leave(t) /\ result' = [result EXCEPT ![t] = r]

---------------------------------------------------------------------------
(* mpmc_queue_push_back *)

PushCall(t, v) ==
    /\ pc[t] = "idle"
    /\ enqueue_pos < MaxPos
    /\ arg' = [arg EXCEPT ![t] = v]
    /\ pos' = [pos EXCEPT ![t] = enqueue_pos]
    /\ Goto(t, "push_seq")
    /\ result' = [result EXCEPT ![t] = "none"]
    /\ UNCHANGED <<cap, sequence, data, enqueue_pos, dequeue_pos>>

PushReadSequence(t) ==
    /\ pc[t] = "push_seq"
    /\ LET dif == sequence[CellOf(pos[t])] - pos[t]
       IN  \/ dif = 0 /\ Goto(t, "push_cas") /\ UNCHANGED <<pos, arg, result>>
           \/ dif < 0 /\ Return(t, "full")
           \/ dif > 0 /\ Goto(t, "push_reload") /\ UNCHANGED <<pos, arg, result>>
    /\ UNCHANGED <<cap, sequence, data, enqueue_pos, dequeue_pos>>

\* Mutant: the position is taken without comparing it.
PushCasUnchecked(t) ==
    /\ pc[t] = "push_cas"
    /\ enqueue_pos' = pos[t] + 1 /\ Goto(t, "push_data")
    /\ UNCHANGED <<cap, sequence, data, dequeue_pos, pos, arg, result>>

PushCas(t) ==
    /\ pc[t] = "push_cas"
    /\ IF enqueue_pos = pos[t]
       THEN enqueue_pos' = pos[t] + 1 /\ Goto(t, "push_data")
       ELSE UNCHANGED enqueue_pos /\ Goto(t, "push_seq")
    /\ UNCHANGED <<cap, sequence, data, dequeue_pos, pos, arg, result>>

\* Mutant: the retry keeps its old position.
PushReloadStale(t) ==
    /\ pc[t] = "push_reload"
    /\ Goto(t, "push_seq")
    /\ UNCHANGED <<cap, sequence, data, enqueue_pos, dequeue_pos, pos, arg, result>>

PushReload(t) ==
    /\ pc[t] = "push_reload"
    /\ pos' = [pos EXCEPT ![t] = enqueue_pos]
    /\ Goto(t, "push_seq")
    /\ UNCHANGED <<cap, sequence, data, enqueue_pos, dequeue_pos, arg, result>>

PushWriteData(t) ==
    /\ pc[t] = "push_data"
    /\ data' = [data EXCEPT ![CellOf(pos[t])] = arg[t]]
    /\ Goto(t, "push_publish")
    /\ UNCHANGED <<cap, sequence, enqueue_pos, dequeue_pos, pos, arg, result>>

PushPublish(t) ==
    /\ pc[t] = "push_publish"
    /\ sequence' = [sequence EXCEPT ![CellOf(pos[t])] = pos[t] + 1]
    /\ Return(t, "pushed")
    /\ UNCHANGED <<cap, data, enqueue_pos, dequeue_pos>>

---------------------------------------------------------------------------
(* mpmc_queue_dequeue *)

DequeueCall(t) ==
    /\ pc[t] = "idle"
    /\ pos' = [pos EXCEPT ![t] = dequeue_pos]
    /\ Goto(t, "deq_seq")
    /\ result' = [result EXCEPT ![t] = "none"]
    /\ UNCHANGED <<cap, sequence, data, enqueue_pos, dequeue_pos, arg>>

\* Mutant: a position that another consumer has taken reads as "empty".
DequeueReadSequenceOnce(t) ==
    /\ pc[t] = "deq_seq"
    /\ LET dif == sequence[CellOf(pos[t])] - (pos[t] + 1)
       IN  \/ dif = 0 /\ Goto(t, "deq_cas") /\ UNCHANGED <<pos, arg, result>>
           \/ dif # 0 /\ Return(t, "empty")
    /\ UNCHANGED <<cap, sequence, data, enqueue_pos, dequeue_pos>>

DequeueReadSequence(t) ==
    /\ pc[t] = "deq_seq"
    /\ LET dif == sequence[CellOf(pos[t])] - (pos[t] + 1)
       IN  \/ dif = 0 /\ Goto(t, "deq_cas") /\ UNCHANGED <<pos, arg, result>>
           \/ dif < 0 /\ Return(t, "empty")
           \/ dif > 0 /\ Goto(t, "deq_reload") /\ UNCHANGED <<pos, arg, result>>
    /\ UNCHANGED <<cap, sequence, data, enqueue_pos, dequeue_pos>>

DequeueCas(t) ==
    /\ pc[t] = "deq_cas"
    /\ IF dequeue_pos = pos[t]
       THEN dequeue_pos' = pos[t] + 1 /\ Goto(t, "deq_data")
       ELSE UNCHANGED dequeue_pos /\ Goto(t, "deq_seq")
    /\ UNCHANGED <<cap, sequence, data, enqueue_pos, pos, arg, result>>

DequeueReload(t) ==
    /\ pc[t] = "deq_reload"
    /\ pos' = [pos EXCEPT ![t] = dequeue_pos]
    /\ Goto(t, "deq_seq")
    /\ UNCHANGED <<cap, sequence, data, enqueue_pos, dequeue_pos, arg, result>>

\* *data = cell->data: the caller's variable keeps the value from here on.
DequeueReadData(t) ==
    /\ pc[t] = "deq_data"
    /\ result' = [result EXCEPT ![t] = data[CellOf(pos[t])]]
    /\ Goto(t, "deq_release")
    /\ UNCHANGED <<cap, sequence, data, enqueue_pos, dequeue_pos, pos, arg>>

\* Mutant: buffer_mask is added without the 1.
DequeueReleaseByMask(t) ==
    /\ pc[t] = "deq_release"
    /\ sequence' = [sequence EXCEPT ![CellOf(pos[t])] = pos[t] + cap - 1]
    /\ Leave(t)
    /\ UNCHANGED <<cap, data, enqueue_pos, dequeue_pos, result>>

DequeueRelease(t) ==
    /\ pc[t] = "deq_release"
    /\ sequence' = [sequence EXCEPT ![CellOf(pos[t])] = pos[t] + cap]
    /\ Leave(t)
    /\ UNCHANGED <<cap, data, enqueue_pos, dequeue_pos, result>>

---------------------------------------------------------------------------
\* mpmc_queue_reserve and the mpmc_queue_clear it ends with.  It frees the
\* cells without synchronisation: the caller must keep every thread out.
Reserve(sz) ==
    /\ \A t \in Threads : pc[t] = "idle"
    /\ PowerOfTwoSize(sz) > cap
    /\ cap' = PowerOfTwoSize(sz)
    /\ sequence' = [c \in 0 .. (cap' - 1) |-> c]
    /\ data' = [c \in 0 .. (cap' - 1) |-> NoValue]
    /\ enqueue_pos' = 0 /\ dequeue_pos' = 0
    /\ UNCHANGED <<pc, pos, arg, result>>

PushStep(t) ==
    PushReadSequence(t) \/ PushCas(t) \/ PushReload(t)
        \/ PushWriteData(t) \/ PushPublish(t)

DequeueStep(t) ==
    DequeueReadSequence(t) \/ DequeueCas(t) \/ DequeueReload(t)
        \/ DequeueReadData(t) \/ DequeueRelease(t)

Next ==
    \/ \E t \in Threads :
          \/ \E v \in Values : PushCall(t, v)
          \/ DequeueCall(t)
          \/ PushStep(t)
          \/ DequeueStep(t)
    \/ \E sz \in Sizes : Reserve(sz)

Spec == Init /\ [][Next]_vars

\* A thread inside the queue keeps running.
FairSpec ==
    /\ Spec
    /\ \A t \in Threads : WF_vars(PushStep(t) \/ DequeueStep(t))

\* Only one thread is sure to keep running; the others may stop anywhere.
Survivor == CHOOSE t \in Threads : TRUE

StallSpec == Spec /\ WF_vars(PushStep(Survivor) \/ DequeueStep(Survivor))

---------------------------------------------------------------------------
(* Invariants *)

TypeOK ==
    /\ cap \in Nat \ {0, 1}
    /\ sequence \in [0 .. (cap - 1) -> Nat]
    /\ data \in [0 .. (cap - 1) -> Values]
    /\ enqueue_pos \in Nat /\ dequeue_pos \in Nat
    /\ pc \in [Threads -> {"idle"} \cup PushPcs \cup DequeuePcs]
    /\ pos \in [Threads -> Nat]
    /\ arg \in [Threads -> Values]
    /\ result \in [Threads -> Results]

\* t owns the cell of pos[t]: it won the compare-and-swap for it.
Pushing(t) == pc[t] \in {"push_data", "push_publish"}
Reading(t) == pc[t] \in {"deq_data", "deq_release"}
Owns(t) == Pushing(t) \/ Reading(t)

\* A cell's payload is accessed without atomics, so no two threads may be
\* between compare-and-swap and publication on the same cell: a producer that
\* laps the ring must not meet a consumer still reading there
\* (cell->data in mpmc_queue_push_back and mpmc_queue_dequeue).
CellExclusive ==
    \A t, u \in Threads :
        t # u /\ Owns(t) /\ Owns(u) => CellOf(pos[t]) # CellOf(pos[u])

\* The cells of the next `cap' positions: each is waiting for position q (its
\* turn comes at enqueue_pos = q), or still at position q - cap, where it is
\* being filled, is full, or is being emptied.
Window ==
    \A q \in enqueue_pos .. (enqueue_pos + cap - 1) :
        LET s == sequence[CellOf(q)]
        IN  \/ s = q /\ q - cap < dequeue_pos
            \/ s = q - cap /\ dequeue_pos <= q - cap
            \/ s = q - cap + 1

\* Where the positions the threads work on lie, and what their cells say.
PushersPlaced ==
    \A t \in Threads : Pushing(t) =>
        /\ dequeue_pos <= pos[t] /\ pos[t] < enqueue_pos
        /\ enqueue_pos - cap <= pos[t]
        /\ sequence[CellOf(pos[t])] = pos[t]

ReadersPlaced ==
    \A t \in Threads : Reading(t) =>
        /\ pos[t] < dequeue_pos
        /\ enqueue_pos - cap <= pos[t]
        /\ sequence[CellOf(pos[t])] = pos[t] + 1

\* A sequence number found equal to pos stays so until somebody wins pos.
CasJustified ==
    \A t \in Threads :
        /\ pc[t] \in {"push_seq", "push_cas"} => pos[t] <= enqueue_pos
        /\ pc[t] \in {"deq_seq", "deq_cas"} => pos[t] <= dequeue_pos
        /\ pc[t] = "push_cas" /\ pos[t] = enqueue_pos =>
               sequence[CellOf(pos[t])] = pos[t]
        /\ pc[t] = "deq_cas" /\ pos[t] = dequeue_pos =>
               sequence[CellOf(pos[t])] = pos[t] + 1

OwnersDistinct ==
    \A t, u \in Threads :
        t # u /\ Owns(t) /\ Owns(u) => pos[t] # pos[u]

\* Never more than `cap' elements claimed and not taken.
Bounded == dequeue_pos <= enqueue_pos /\ enqueue_pos - cap <= dequeue_pos

IInv ==
    /\ TypeOK
    /\ Bounded
    /\ Window
    /\ PushersPlaced /\ ReadersPlaced /\ OwnersDistinct
    /\ CasJustified

---------------------------------------------------------------------------
(* MpmcQueue implements QueueSpec *)

\* State of the slot of a position below enqueue_pos.
StateOf(p) ==
    LET s == sequence[CellOf(p)]
    IN  IF s = p THEN "claimed"
        ELSE IF s # p + 1 THEN "free"
        ELSE IF p >= dequeue_pos THEN "ready" ELSE "reading"

\* The oldest position whose cell is not back in circulation.
Oldest ==
    LET Held == { p \in 0 .. (enqueue_pos - 1) :
                      p >= enqueue_pos - cap /\ StateOf(p) # "free" }
    IN  IF Held = {} THEN enqueue_pos ELSE CHOOSE p \in Held : \A o \in Held : p <= o

OwnerOf(p) ==
    LET owners == { t \in Threads : Owns(t) /\ pos[t] = p }
    IN  IF owners = {} THEN "nobody" ELSE CHOOSE t \in owners : TRUE

\* The slots QueueSpec sees: what a producer is about to store is already
\* the value of the slot it claimed.
SlotsBar ==
    [i \in 1 .. (enqueue_pos - Oldest) |->
        LET p == Oldest + i - 1
        IN  [val |-> IF StateOf(p) = "claimed" THEN arg[OwnerOf(p)]
                     ELSE data[CellOf(p)],
             st  |-> StateOf(p),
             who |-> OwnerOf(p)]]

CallBar ==
    [t \in Threads |-> IF pc[t] \in PushPcs THEN "push"
                       ELSE IF pc[t] \in DequeuePcs THEN "dequeue" ELSE "none"]

ResultBar == [t \in Threads |-> IF pc[t] = "idle" THEN result[t] ELSE "none"]

Queue == INSTANCE QueueSpec WITH slots <- SlotsBar, call <- CallBar,
                                 result <- ResultBar

\* The lock-free code is a first-in first-out queue of capacity cap: each push
\* and dequeue takes effect at one of its own steps, "full" and "empty" are
\* only reported of a queue that is, no element is lost, duplicated or
\* overtaken (mpmc_queue_push_back, mpmc_queue_dequeue).
ImplementsQueueSpec == Queue!SpecSpec

\* A caller retries only because another caller has taken its position: with
\* finitely many pushes, and every caller running on, every call returns
\* (the loops of mpmc_queue_push_back and mpmc_queue_dequeue).
CallsReturn == \A t \in Threads : (pc[t] # "idle") ~> (pc[t] = "idle")

\* A caller that runs alone from some point on, the others stopped wherever
\* they are, gets its call done: less than what "lock-free queue" promises
\* (src/inc/utils/mpmc_queue.h).  Refuted: after a failed compare-and-swap pos is
\* not read again, so until the producer that won it publishes, the sequence
\* number still equals pos and the loop goes round without end.
SurvivorReturns ==
    <>[][PushStep(Survivor) \/ DequeueStep(Survivor)]_vars
        => []<>(pc[Survivor] = "idle")
=============================================================================
