------------------------------- MODULE MpmcWrap -------------------------------
(***************************************************************************)
(* The positions of src/utils/mpmc_queue.c at the width they have in C.    *)
(* MPMC_USE_STD_ATOMIC is 0: the local pos is a signed gint, the sequence  *)
(* numbers are unsigned guints, and their difference is taken after both   *)
(* have been widened to intptr_t: pos by sign, the sequence with zeroes.   *)
(*                                                                         *)
(* MpmcQueue models the same code on natural numbers.  Here are the steps  *)
(* that convert a number; the others are MpmcQueue's.  MaxPushes bounds    *)
(* the pushes made since the positions were last 0.                        *)
(***************************************************************************)
EXTENDS MpmcQueue

CONSTANTS IntMax,     \* G_MAXINT: a gint is one of -IntMax - 1 .. IntMax
          MaxPushes   \* bound on calls of push_back

ASSUME WidthAssumption == IntMax \in Nat /\ MaxPushes \in Nat

VARIABLE pushes       \* calls of push_back since mpmc_queue_clear

wrapVars == <<vars, pushes>>

\* The value of an int read as guint, and of any integer stored in a gint.
Unsigned(i) == i % (2 * (IntMax + 1))
Signed(i) == LET u == Unsigned(i)
             IN  IF u <= IntMax THEN u ELSE u - 2 * (IntMax + 1)

\* What (intptr_t) (pos + 1) can be: pos + 1 overflows a gint at its maximum,
\* which C leaves undefined; a build wraps it or computes it in the wide type.
Successors(p) == {Signed(p + 1), p + 1}

\* Mutant: the difference is taken as guint, which is never negative.
DifferenceUnsigned(s, p) == Unsigned(s - p)

\* (intptr_t) seq - (intptr_t) pos
Difference(s, p) == s - p

WrapInit == Init /\ pushes = 0

WrapPushCall(t, v) ==
    /\ pushes < MaxPushes
    /\ pushes' = pushes + 1
    /\ PushCall(t, v)

WrapPushReadSequence(t) ==
    /\ pc[t] = "push_seq"
    /\ LET dif == Difference(sequence[CellOf(pos[t])], pos[t])
       IN  \/ dif = 0 /\ Goto(t, "push_cas") /\ UNCHANGED <<pos, arg, result>>
           \/ dif < 0 /\ Return(t, "full")
           \/ dif > 0 /\ Goto(t, "push_reload") /\ UNCHANGED <<pos, arg, result>>
    /\ UNCHANGED <<cap, sequence, data, enqueue_pos, dequeue_pos>>

WrapPushCas(t) ==
    /\ pc[t] = "push_cas"
    /\ IF enqueue_pos = pos[t]
       THEN enqueue_pos' = Signed(pos[t] + 1) /\ Goto(t, "push_data")
       ELSE UNCHANGED enqueue_pos /\ Goto(t, "push_seq")
    /\ UNCHANGED <<cap, sequence, data, dequeue_pos, pos, arg, result>>

WrapPushPublish(t) ==
    /\ pc[t] = "push_publish"
    /\ sequence' = [sequence EXCEPT ![CellOf(pos[t])] = Unsigned(pos[t] + 1)]
    /\ Return(t, "pushed")
    /\ UNCHANGED <<cap, data, enqueue_pos, dequeue_pos>>

WrapDequeueReadSequence(t) ==
    /\ pc[t] = "deq_seq"
    /\ \E succ \in Successors(pos[t]) :
          LET dif == Difference(sequence[CellOf(pos[t])], succ)
          IN  \/ dif = 0 /\ Goto(t, "deq_cas") /\ UNCHANGED <<pos, arg, result>>
              \/ dif < 0 /\ Return(t, "empty")
              \/ dif > 0 /\ Goto(t, "deq_reload") /\ UNCHANGED <<pos, arg, result>>
    /\ UNCHANGED <<cap, sequence, data, enqueue_pos, dequeue_pos>>

WrapDequeueCas(t) ==
    /\ pc[t] = "deq_cas"
    /\ IF dequeue_pos = pos[t]
       THEN dequeue_pos' = Signed(pos[t] + 1) /\ Goto(t, "deq_data")
       ELSE UNCHANGED dequeue_pos /\ Goto(t, "deq_seq")
    /\ UNCHANGED <<cap, sequence, data, enqueue_pos, pos, arg, result>>

WrapDequeueRelease(t) ==
    /\ pc[t] = "deq_release"
    /\ sequence' = [sequence EXCEPT ![CellOf(pos[t])] = Unsigned(pos[t] + cap)]
    /\ Leave(t)
    /\ UNCHANGED <<cap, data, enqueue_pos, dequeue_pos, result>>

WrapReserve(sz) == Reserve(sz) /\ pushes' = 0

WrapStep(t) ==
    /\ \/ WrapPushReadSequence(t) \/ WrapPushCas(t) \/ PushReload(t)
       \/ PushWriteData(t) \/ WrapPushPublish(t)
       \/ WrapDequeueReadSequence(t) \/ WrapDequeueCas(t) \/ DequeueReload(t)
       \/ DequeueReadData(t) \/ WrapDequeueRelease(t)
    /\ UNCHANGED pushes

WrapNext ==
    \/ \E t \in Threads :
          \/ \E v \in Values : WrapPushCall(t, v)
          \/ DequeueCall(t) /\ UNCHANGED pushes
          \/ WrapStep(t)
    \/ \E sz \in Sizes : WrapReserve(sz)

\* A thread inside the queue keeps running.
WrapSpec == WrapInit /\ [][WrapNext]_wrapVars /\ \A t \in Threads : WF_wrapVars(WrapStep(t))

---------------------------------------------------------------------------
\* While fewer than G_MAXINT elements have been pushed, no conversion changes
\* a number: what mpmc_queue.c does is what MpmcQueue says of it, and so are
\* all the properties of MpmcQueue (mpmc_queue_push_back, mpmc_queue_dequeue).
ImplementsMpmcQueue == Spec

\* A push of the "lock-free queue" (src/inc/utils/mpmc_queue.h) returns even
\* when positions have passed the largest gint.  Refuted: pos is then negative
\* and its cell's sequence number positive, dif is the number of guints whatever
\* anybody does, and mpmc_queue_push_back re-reads enqueue_pos for ever.
PushReturns == \A t \in Threads : (pc[t] = "push_seq") ~> (pc[t] = "idle")
=============================================================================
