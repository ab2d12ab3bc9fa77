---------------------------- MODULE MpmcWrapProofs ----------------------------
(***************************************************************************)
(* As long as fewer than G_MAXINT elements have been pushed since the      *)
(* positions were last 0, the gints and guints of mpmc_queue.c are the     *)
(* natural numbers of MpmcQueue: its code implements MpmcQueue, and with   *)
(* it QueueSpec, for any number of threads, values and cells.              *)
(***************************************************************************)
EXTENDS MpmcWrap, MpmcQueueProofs, FiniteSetTheorems

\* What is asked of a run of the program: no more pushes than positions, and
\* rings of which a guint can count two.
Narrow ==
    /\ MaxPushes < IntMax
    /\ \A sz \in Sizes \cup {InitialSize} : PowerOfTwoSize(sz) <= IntMax + 1

\* The callers of push_back that have not won a position yet.
Claimers == { t \in Threads : pc[t] \in {"push_seq", "push_cas", "push_reload"} }

\* Every position that was won, and every one still sought, has its push.
PushesInv ==
    /\ IsFiniteSet(Claimers)
    /\ enqueue_pos + Cardinality(Claimers) <= pushes
    /\ pushes \in Nat /\ pushes <= MaxPushes
    /\ cap <= IntMax + 1

---------------------------------------------------------------------------
\* A gint holds a position below its maximum, a guint twice as many.
LEMMA ConversionsExact ==
    /\ \A i \in 0 .. IntMax : Signed(i) = i
    /\ \A i \in 0 .. (2 * IntMax + 1) : Unsigned(i) = i
<1>. DEFINE m == 2 * (IntMax + 1)
<1>1. m \in Nat \ {0} /\ IntMax \in Nat /\ m = 2 * IntMax + 2
  BY WidthAssumption
<1>2. \A i \in 0 .. (m - 1) : i % m = i
  BY <1>1, ModSmall
<1>. QED
  BY <1>1, <1>2 DEF Signed, Unsigned

\* Nothing is converted at a number that the type does not hold.
LEMMA PositionsFit ==
    ASSUME Narrow, IInv, PushesInv
    PROVE  /\ \A t \in Threads : pc[t] = "push_cas" /\ enqueue_pos = pos[t] =>
                  Signed(pos[t] + 1) = pos[t] + 1
           /\ \A t \in Threads : pc[t] = "push_publish" =>
                  Unsigned(pos[t] + 1) = pos[t] + 1
           /\ \A t \in Threads : pc[t] = "deq_seq" => Successors(pos[t]) = {pos[t] + 1}
           /\ \A t \in Threads : pc[t] = "deq_cas" /\ dequeue_pos = pos[t] =>
                  Signed(pos[t] + 1) = pos[t] + 1
           /\ \A t \in Threads : pc[t] = "deq_release" =>
                  Unsigned(pos[t] + cap) = pos[t] + cap
<1>1. /\ cap \in Nat /\ enqueue_pos \in Nat /\ dequeue_pos \in Nat
      /\ IntMax \in Nat /\ MaxPushes \in Nat
      /\ \A t \in Threads : pos[t] \in Nat
  BY WidthAssumption DEF IInv, TypeOK
<1>2. Cardinality(Claimers) \in Nat
  BY FS_CardinalityType DEF PushesInv
<1>3. dequeue_pos <= enqueue_pos /\ enqueue_pos < IntMax /\ cap <= IntMax + 1
  BY <1>1, <1>2 DEF PushesInv, Narrow, IInv, Bounded
<1>4. \A t \in Threads :
         /\ pc[t] = "push_publish" => pos[t] < enqueue_pos
         /\ pc[t] = "deq_seq" => pos[t] <= dequeue_pos
         /\ pc[t] = "deq_release" => pos[t] < dequeue_pos
  BY DEF IInv, PushersPlaced, ReadersPlaced, CasJustified, Pushing, Reading
<1>5. \A t \in Threads :
         /\ pc[t] = "push_cas" /\ enqueue_pos = pos[t] => pos[t] + 1 \in 0 .. IntMax
         /\ pc[t] = "push_publish" => pos[t] + 1 \in 0 .. (2 * IntMax + 1)
         /\ pc[t] = "deq_seq" => pos[t] + 1 \in 0 .. IntMax
         /\ pc[t] = "deq_cas" /\ dequeue_pos = pos[t] => pos[t] + 1 \in 0 .. IntMax
         /\ pc[t] = "deq_release" => pos[t] + cap \in 0 .. (2 * IntMax + 1)
  BY <1>1, <1>3, <1>4
<1>. QED
  BY <1>5, ConversionsExact DEF Successors

---------------------------------------------------------------------------
\* A step at C width is a step on natural numbers, and accounts for pushes.
LEMMA StepIsExact ==
    ASSUME Narrow, IInv, PushesInv, NEW t \in Threads, WrapStep(t)
    PROVE  PushStep(t) \/ DequeueStep(t)
<1>. USE PositionsFit DEF PushStep, DequeueStep
<1>1. CASE WrapPushReadSequence(t)
  BY <1>1 DEF WrapPushReadSequence, PushReadSequence, Difference
<1>2. CASE WrapPushCas(t)
  BY <1>2 DEF WrapPushCas, PushCas
<1>3. CASE WrapPushPublish(t)
  BY <1>3 DEF WrapPushPublish, PushPublish
<1>4. CASE WrapDequeueReadSequence(t)
  BY <1>4 DEF WrapDequeueReadSequence, DequeueReadSequence, Difference
<1>5. CASE WrapDequeueCas(t)
  BY <1>5 DEF WrapDequeueCas, DequeueCas
<1>6. CASE WrapDequeueRelease(t)
  BY <1>6 DEF WrapDequeueRelease, DequeueRelease
<1>. QED
  BY <1>1, <1>2, <1>3, <1>4, <1>5, <1>6 DEF WrapStep

LEMMA NextIsExact ==
    ASSUME Narrow, IInv, PushesInv, [WrapNext]_wrapVars
    PROVE  [Next]_vars
<1>1. CASE WrapNext
  BY <1>1, StepIsExact DEF WrapNext, WrapPushCall, WrapReserve, Next
<1>2. CASE UNCHANGED wrapVars
  BY <1>2 DEF wrapVars
<1>. QED
  BY <1>1, <1>2

---------------------------------------------------------------------------
\* A step inside the queue starts no call, and wins a position at most once.
LEMMA StepCounts ==
    ASSUME Narrow, IInv, PushesInv, NEW t \in Threads, WrapStep(t)
    PROVE  PushesInv'
<1>1. /\ pc \in [Threads -> {"idle"} \cup PushPcs \cup DequeuePcs]
      /\ enqueue_pos \in Nat /\ UNCHANGED <<pushes, cap>>
  BY DEF IInv, TypeOK, WrapStep, WrapPushReadSequence, WrapPushCas, PushReload,
         PushWriteData, WrapPushPublish, WrapDequeueReadSequence, WrapDequeueCas,
         DequeueReload, DequeueReadData, WrapDequeueRelease
<1>2. CASE WrapPushCas(t) /\ enqueue_pos = pos[t]
  <2>1. enqueue_pos' = enqueue_pos + 1 /\ pc' = [pc EXCEPT ![t] = "push_data"]
        /\ pc[t] = "push_cas"
    BY <1>2, PositionsFit DEF WrapPushCas, Goto
  <2>2. t \in Claimers /\ Claimers' = Claimers \ {t}
    BY <1>1, <2>1 DEF Claimers
  <2>3. IsFiniteSet(Claimers \ {t}) /\ Cardinality(Claimers \ {t}) = Cardinality(Claimers) - 1
    BY <2>2, FS_RemoveElement DEF PushesInv
  <2>4. Cardinality(Claimers) \in Nat
    BY FS_CardinalityType DEF PushesInv
  <2>. QED
    BY <1>1, <2>1, <2>2, <2>3, <2>4 DEF PushesInv
<1>3. CASE ~ (WrapPushCas(t) /\ enqueue_pos = pos[t])
  <2>1. UNCHANGED enqueue_pos
    BY <1>3 DEF WrapStep, WrapPushReadSequence, WrapPushCas, PushReload,
         PushWriteData, WrapPushPublish, WrapDequeueReadSequence, WrapDequeueCas,
         DequeueReload, DequeueReadData, WrapDequeueRelease
  <2>2. \E l : pc' = [pc EXCEPT ![t] = l]
               /\ (l \in {"push_seq", "push_cas", "push_reload"} => t \in Claimers)
    BY <1>1, <1>3 DEF WrapStep, WrapPushReadSequence, WrapPushCas, PushReload,
         PushWriteData, WrapPushPublish, WrapDequeueReadSequence, WrapDequeueCas,
         DequeueReload, DequeueReadData, WrapDequeueRelease, Claimers, Goto, Return, Leave
  <2>3. Claimers' \subseteq Claimers
    BY <1>1, <2>2 DEF Claimers
  <2>4. IsFiniteSet(Claimers') /\ Cardinality(Claimers') <= Cardinality(Claimers)
    BY <2>3, FS_Subset DEF PushesInv
  <2>5. Cardinality(Claimers) \in Nat /\ Cardinality(Claimers') \in Nat
    BY <2>4, FS_CardinalityType DEF PushesInv
  <2>. QED
    BY <1>1, <2>1, <2>4, <2>5 DEF PushesInv
<1>. QED
  BY <1>2, <1>3

LEMMA CallCounts ==
    ASSUME Narrow, IInv, PushesInv, NEW t \in Threads, NEW v \in Values, WrapPushCall(t, v)
    PROVE  PushesInv'
<1>1. /\ pc \in [Threads -> {"idle"} \cup PushPcs \cup DequeuePcs]
      /\ enqueue_pos \in Nat /\ UNCHANGED <<enqueue_pos, cap>>
      /\ pushes < MaxPushes /\ pushes' = pushes + 1
      /\ pc' = [pc EXCEPT ![t] = "push_seq"] /\ pc[t] = "idle"
  BY DEF IInv, TypeOK, WrapPushCall, PushCall, Goto
<1>2. t \notin Claimers /\ Claimers' = Claimers \cup {t}
  BY <1>1 DEF Claimers
<1>3. IsFiniteSet(Claimers \cup {t}) /\ Cardinality(Claimers \cup {t}) = Cardinality(Claimers) + 1
  BY <1>2, FS_AddElement DEF PushesInv
<1>4. Cardinality(Claimers) \in Nat /\ MaxPushes \in Nat
  BY FS_CardinalityType, WidthAssumption DEF PushesInv
<1>. QED
  BY <1>1, <1>2, <1>3, <1>4 DEF PushesInv

LEMMA NobodyClaims ==
    ASSUME \A t \in Threads : pc[t] = "idle"
    PROVE  IsFiniteSet(Claimers) /\ Cardinality(Claimers) = 0
<1>1. Claimers = {}
  BY DEF Claimers
<1>. QED
  BY <1>1, FS_EmptySet

LEMMA ReserveCounts ==
    ASSUME Narrow, PushesInv, NEW sz \in Sizes, WrapReserve(sz)
    PROVE  PushesInv'
<1>1. /\ enqueue_pos' = 0 /\ pushes' = 0 /\ UNCHANGED pc
      /\ \A t \in Threads : pc[t] = "idle"
      /\ cap' = PowerOfTwoSize(sz)
  BY DEF WrapReserve, Reserve
<1>2. Claimers' = Claimers
  BY <1>1 DEF Claimers
<1>3. MaxPushes \in Nat
  BY WidthAssumption
<1>. QED
  BY <1>1, <1>2, <1>3, NobodyClaims DEF PushesInv, Narrow

LEMMA NextCounts ==
    ASSUME Narrow, IInv, PushesInv, [WrapNext]_wrapVars
    PROVE  PushesInv'
<1>1. ASSUME NEW t \in Threads, DequeueCall(t), UNCHANGED pushes
      PROVE  PushesInv'
  <2>1. /\ pc \in [Threads -> {"idle"} \cup PushPcs \cup DequeuePcs]
        /\ pc[t] = "idle" /\ pc' = [pc EXCEPT ![t] = "deq_seq"]
        /\ UNCHANGED <<enqueue_pos, cap, pushes>>
    BY <1>1 DEF DequeueCall, Goto, IInv, TypeOK
  <2>2. Claimers' = Claimers
    BY <2>1 DEF Claimers
  <2>. QED
    BY <2>1, <2>2 DEF PushesInv
<1>2. CASE UNCHANGED wrapVars
  BY <1>2 DEF wrapVars, vars, PushesInv, Claimers
<1>. QED
  BY <1>1, <1>2, StepCounts, CallCounts, ReserveCounts DEF WrapNext

LEMMA InitCounts ==
    ASSUME Narrow, WrapInit
    PROVE  PushesInv
<1>1. /\ enqueue_pos = 0 /\ pushes = 0 /\ cap = PowerOfTwoSize(InitialSize)
      /\ \A t \in Threads : pc[t] = "idle"
  BY DEF WrapInit, Init
<1>2. MaxPushes \in Nat
  BY WidthAssumption
<1>. QED
  BY <1>1, <1>2, NobodyClaims DEF PushesInv, Narrow

---------------------------------------------------------------------------
\* The inductive invariant at C width: that of MpmcQueue, and that every
\* position won has its push.
THEOREM WidthInvariance == Narrow => (WrapSpec => [](IInv /\ PushesInv))
<1>. SUFFICES ASSUME Narrow PROVE WrapSpec => [](IInv /\ PushesInv)
  OBVIOUS
<1>1. WrapInit => IInv /\ PushesInv
  BY InitIInv, InitCounts DEF WrapInit
<1>2. IInv /\ PushesInv /\ [WrapNext]_wrapVars => (IInv /\ PushesInv)'
  BY NextIsExact, NextCounts, IInvInductive
<1>. QED
  BY <1>1, <1>2, PTL DEF WrapSpec

\* Below its limit the C code implements the queue on natural numbers.
THEOREM PositionsSuffice == Narrow => (WrapSpec => ImplementsMpmcQueue)
<1>. SUFFICES ASSUME Narrow PROVE WrapSpec => ImplementsMpmcQueue
  OBVIOUS
<1>1. WrapInit => Init
  BY DEF WrapInit
<1>2. IInv /\ PushesInv /\ [WrapNext]_wrapVars => [Next]_vars
  BY NextIsExact
<1>3. WrapSpec => [](IInv /\ PushesInv)
  BY WidthInvariance
<1>. QED
  BY <1>1, <1>2, <1>3, PTL DEF WrapSpec, ImplementsMpmcQueue, Spec

\* With it, it is the bounded FIFO that its users take it for: nothing is
\* lost, duplicated or overtaken, "full" and "empty" are true.
THEOREM QueueAtItsWidth == Narrow => (WrapSpec => ImplementsQueueSpec)
  BY PositionsSuffice, QueueImplemented, PTL DEF ImplementsMpmcQueue
=============================================================================
