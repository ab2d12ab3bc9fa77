------------------------------ MODULE QueueSpec ------------------------------
(***************************************************************************)
(* What mpmc_queue promises its callers: a bounded first-in first-out      *)
(* queue in which a push takes its place at one instant (Claimed) and      *)
(* becomes visible at a later one (Published), and in which a dequeue      *)
(* takes the head at one instant and gives its slot back at a later one.   *)
(* A dequeue may report "empty" while younger elements are published       *)
(* behind a head that is only claimed.                                     *)
(***************************************************************************)
EXTENDS QueueSlots

CONSTANTS Threads,      \* callers of the queue
          Values,       \* what they push
          InitialSize,  \* argument of the first mpmc_queue_reserve
          Sizes         \* arguments of later ones

VARIABLES slots,    \* see QueueSlots
          cap,      \* number of cells: buffer_mask + 1
          call,     \* call[t]: the operation t is inside
          arg,      \* arg[t]: the value t is pushing
          result    \* result[t]: what t's last operation returned, once it has

specVars == <<slots, cap, call, arg, result>>

NoValue == CHOOSE v \in Values : TRUE

Returned(t, r) ==
    /\ call' = [call EXCEPT ![t] = "none"]
    /\ arg' = [arg EXCEPT ![t] = NoValue]
    /\ result' = [result EXCEPT ![t] = r]

SpecInit ==
    /\ slots = << >>
    /\ cap = PowerOfTwoSize(InitialSize)
    /\ call = [t \in Threads |-> "none"]
    /\ arg = [t \in Threads |-> NoValue]
    /\ result = [t \in Threads |-> "none"]

PushCalled(t, v) ==
    /\ call[t] = "none"
    /\ call' = [call EXCEPT ![t] = "push"]
    /\ arg' = [arg EXCEPT ![t] = v]
    /\ result' = [result EXCEPT ![t] = "none"]
    /\ UNCHANGED <<slots, cap>>

Claimed(t) ==
    /\ call[t] = "push" /\ ~Holds(slots, t) /\ ~Full(slots, cap)
    /\ slots' = Claim(slots, arg[t], t)
    /\ UNCHANGED <<cap, call, arg, result>>

Published(t) ==
    /\ call[t] = "push" /\ Holds(slots, t)
    /\ slots' = Publish(slots, t)
    /\ Returned(t, "pushed")
    /\ UNCHANGED cap

Rejected(t) ==
    /\ call[t] = "push" /\ ~Holds(slots, t) /\ Full(slots, cap)
    /\ Returned(t, "full")
    /\ UNCHANGED <<slots, cap>>

DequeueCalled(t) ==
    /\ call[t] = "none"
    /\ call' = [call EXCEPT ![t] = "dequeue"]
    /\ result' = [result EXCEPT ![t] = "none"]
    /\ UNCHANGED <<slots, cap, arg>>

Taken(t) ==
    /\ call[t] = "dequeue" /\ ~Holds(slots, t) /\ HeadReady(slots)
    /\ slots' = Take(slots, t)
    /\ UNCHANGED <<cap, call, arg, result>>

Released(t) ==
    /\ call[t] = "dequeue" /\ Holds(slots, t)
    /\ slots' = Release(slots, t)
    /\ Returned(t, OwnValue(slots, t))
    /\ UNCHANGED cap

FoundEmpty(t) ==
    /\ call[t] = "dequeue" /\ ~Holds(slots, t) /\ ~HeadReady(slots)
    /\ Returned(t, "empty")
    /\ UNCHANGED <<slots, cap>>

\* Grows the ring; whatever it held is gone.
Reserved(sz) ==
    /\ \A t \in Threads : call[t] = "none"
    /\ PowerOfTwoSize(sz) > cap
    /\ cap' = PowerOfTwoSize(sz)
    /\ slots' = << >>
    /\ UNCHANGED <<call, arg, result>>

SpecNext ==
    \/ \E t \in Threads :
          \/ \E v \in Values : PushCalled(t, v)
          \/ Claimed(t) \/ Published(t) \/ Rejected(t)
          \/ DequeueCalled(t) \/ Taken(t) \/ Released(t) \/ FoundEmpty(t)
    \/ \E sz \in Sizes : Reserved(sz)

SpecSpec == SpecInit /\ [][SpecNext]_specVars
=============================================================================
