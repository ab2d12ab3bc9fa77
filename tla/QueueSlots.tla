----------------------------- MODULE QueueSlots -----------------------------
(***************************************************************************)
(* What the multi-producer multi-consumer queue of                         *)
(* src/utils/mpmc_queue.c holds, seen from outside: the sequence of the    *)
(* slots between the oldest position that has not been given back and the  *)
(* enqueue position.  A slot is                                            *)
(*   "claimed"  a producer moved enqueue_pos past it, data not published,  *)
(*   "ready"    published: the next consumer may take it,                  *)
(*   "reading"  a consumer moved dequeue_pos past it and still holds it,   *)
(*   "free"     given back, kept only while an older slot is still held.   *)
(* `who' is the thread that claimed or is reading the slot ("nobody" when  *)
(* nobody holds it); a thread holds at most one.                           *)
(*                                                                         *)
(* The operators are shared by QueueSpec (what the queue promises, refined *)
(* by MpmcQueue) and GraphScheduler (its client).                          *)
(***************************************************************************)
EXTENDS Integers, Sequences, FiniteSets

SlotStates == {"claimed", "ready", "reading", "free"}

\* A slot of a queue used by `threads' for `values'.
Slot(threads, values) == [val : values, st : SlotStates, who : threads \cup {"nobody"}]

\* Index of the slot `t' has claimed or is reading.
OwnIndex(slots, t) ==
    CHOOSE i \in DOMAIN slots : slots[i].who = t

\* `t' is between its compare-and-swap and its store of the sequence number.
Holds(slots, t) ==
    \E i \in DOMAIN slots : slots[i].who = t

\* Index of the slot at dequeue_pos: the oldest not yet taken.
HeadIndex(slots) ==
    CHOOSE i \in DOMAIN slots :
        /\ slots[i].st \in {"claimed", "ready"}
        /\ \A j \in 1 .. (i - 1) : slots[j].st \in {"reading", "free"}

\* mpmc_queue_dequeue finds dif == 0: the head is published.
HeadReady(slots) ==
    \E i \in DOMAIN slots :
        /\ slots[i].st = "ready"
        /\ \A j \in 1 .. (i - 1) : slots[j].st \in {"reading", "free"}

\* mpmc_queue_push_back finds dif < 0: the cell of enqueue_pos is not back yet.
Full(slots, cap) == Len(slots) >= cap

\* Slots still in the ring: the free prefix is forgotten.
Trim(slots) ==
    LET live == { i \in DOMAIN slots : slots[i].st # "free" }
    IN  IF live = {} THEN << >>
        ELSE LET first == CHOOSE i \in live : \A j \in live : i <= j
             IN  SubSeq(slots, first, Len(slots))

Claim(slots, v, t) == Append(slots, [val |-> v, st |-> "claimed", who |-> t])

\* Slot i goes on to another state, in the hands of `who'.
Pass(slots, i, st, who) ==
    [slots EXCEPT ![i] = [val |-> @.val, st |-> st, who |-> who]]

Publish(slots, t) == Pass(slots, OwnIndex(slots, t), "ready", "nobody")

Take(slots, t) == Pass(slots, HeadIndex(slots), "reading", t)

Release(slots, t) == Trim(Pass(slots, OwnIndex(slots, t), "free", "nobody"))

\* The value in the slot `t' holds.
OwnValue(slots, t) == slots[OwnIndex(slots, t)].val

\* Values published and not taken, claimed ones included.
Pending(slots) ==
    { slots[i].val : i \in { j \in DOMAIN slots :
                                 slots[j].st \in {"claimed", "ready"} } }

\* 1U << k for the k >= 1 that power_of_two_size tries, up to MaxCells (a bound).
PowersOfTwo ==
    {2, 4, 8, 16, 32, 64, 128, 256, 512, 1024, 2048, 4096, 8192, 16384}

MaxCells == 16384

\* power_of_two_size: the loop stops at the first of them not below sz.
PowerOfTwoSize(sz) ==
    CHOOSE p \in PowersOfTwo : p >= sz /\ (p = 2 \/ p \div 2 < sz)
=============================================================================
